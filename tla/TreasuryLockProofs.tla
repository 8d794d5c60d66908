------------------------- MODULE TreasuryLockProofs -------------------------
(***************************************************************************)
(* Proofs about TreasuryLock.tla, for any number of treasury sends.        *)
(*                                                                         *)
(* The inductive invariant has three parts.  InLine says that the promises *)
(* form one line, in the order of the tickets.  InOrder says that a        *)
(* promise is resolved only behind resolved promises.  NoncesOK says that  *)
(* what is being sent has the nonce the node expects, or that a send       *)
(* before it was lost.                                                     *)
(***************************************************************************)
EXTENDS TreasuryLock, TLAPS

InLine ==
  /\ \A s \in Sends : (ticket[s] = 0) <=> (place[s] = "new")
  /\ \A s, q \in Sends : ticket[s] = ticket[q] /\ ticket[s] # 0 => s = q
  /\ tail = Resolved => \A s \in Sends : ticket[s] = 0
  /\ tail # Resolved => /\ ticket[tail] # 0
                        /\ \A q \in Sends : ticket[q] <= ticket[tail]
  /\ \A s, q \in Sends :
       ticket[q] # 0 /\ ticket[q] < ticket[s] =>
         ahead[s] # Resolved /\ ticket[q] <= ticket[ahead[s]]
  /\ \A s \in Sends :
       ticket[s] # 0 /\ ahead[s] # Resolved =>
         ticket[ahead[s]] # 0 /\ ticket[ahead[s]] < ticket[s]

InOrder ==
  /\ \A s, q \in Sends :
       /\ s \in released \/ Holder(s)
       /\ ticket[q] # 0 /\ ticket[q] < ticket[s]
       => q \in released
  /\ \A s \in Sends : s \in released => place[s] \in {"gaveUp", "done"}
  /\ \A s \in Sends : place[s] = "done" => s \in released

NoncesOK ==
  /\ \A s \in Sends :
       outcome[s] \notin {"none", "treasury_busy"} => place[s] = "done"
  /\ \A s \in late : outcome[s] = "lost"
  /\ \A s \in Sends :
       place[s] = "sending" =>
         \/ nonceRead[s] = count
         \/ \E q \in Sends : outcome[q] = "lost" /\ ticket[q] < ticket[s]
  /\ NonceClashNeedsLostCall

IInv == TypeOK /\ InLine /\ InOrder /\ NoncesOK

Working(s) == ReadNonce(s) \/ Accept(s)
Leaving(s) == \/ PreparationFails(s) \/ RefuseNonce(s) \/ HashReturns(s)
              \/ CallTimesOut(s)

-----------------------------------------------------------------------------
(* What the invariant gives *)

(* A ticket is what entering the queue gives.                            *)
LEMMA EnteredHasTicket ==
  ASSUME IInv, NEW s \in Sends
  PROVE  Entered(s) <=> ticket[s] # 0
PROOF BY DEF IInv, InLine, Entered

(* Of two sends in the queue's body the later would have overtaken.      *)
LEMMA OneHolder ==
  ASSUME IInv, NEW s \in Sends, NEW q \in Sends, Holder(s), Holder(q)
  PROVE  s = q
PROOF
  <1>1. ticket[s] \in Nat /\ ticket[q] \in Nat /\ ticket[s] # 0 /\ ticket[q] # 0
    BY DEF IInv, InLine, TypeOK, Holder, Running
  <1>2. s \notin released /\ q \notin released
    BY DEF IInv, InOrder, Holder, Running
  <1>3. ~(ticket[s] < ticket[q]) /\ ~(ticket[q] < ticket[s])
    BY <1>1, <1>2 DEF IInv, InOrder
  <1>4. ticket[s] = ticket[q]
    BY <1>1, <1>3
  <1> QED
    BY <1>1, <1>4 DEF IInv, InLine

(* A send whose turn has come has only resolved promises before it, and    *)
(* nobody is sending.                                                      *)
LEMMA TurnIsFree ==
  ASSUME IInv, NEW s \in Sends, place[s] = "queued", ahead[s] \in released
  PROVE  /\ \A q \in Sends :
              ticket[q] # 0 /\ ticket[q] < ticket[s] => q \in released
         /\ \A q \in Sends : ~Holder(q)
PROOF
  <1>1. ticket[s] # 0 /\ s \notin released
    BY DEF IInv, InLine, InOrder
  <1>2. ASSUME NEW q \in Sends, ticket[q] # 0, ticket[q] < ticket[s]
        PROVE  q \in released
    <2>1. ahead[s] \in Sends /\ ticket[q] <= ticket[ahead[s]]
      BY <1>2 DEF IInv, InLine, TypeOK
    <2>2. CASE ticket[q] = ticket[ahead[s]]
      BY <1>2, <2>1, <2>2 DEF IInv, InLine
    <2>3. CASE ticket[q] < ticket[ahead[s]]
      BY <1>2, <2>1, <2>3 DEF IInv, InOrder
    <2> QED
      BY <2>1, <2>2, <2>3 DEF IInv, TypeOK
  <1>3. ASSUME NEW q \in Sends, Holder(q)
        PROVE  FALSE
    <2>1. ticket[q] \in Nat /\ ticket[s] \in Nat /\ ticket[q] # 0
          /\ q \notin released
      BY <1>3 DEF IInv, InLine, InOrder, TypeOK, Holder, Running
    <2>2. ~(ticket[q] < ticket[s])
      BY <1>2, <2>1
    <2>3. ~(ticket[s] < ticket[q])
      BY <1>1, <1>3 DEF IInv, InOrder
    <2>4. s = q
      BY <1>1, <2>1, <2>2, <2>3 DEF IInv, InLine
    <2> QED
      BY <1>3, <2>4 DEF Holder, Running
  <1> QED
    BY <1>2, <1>3

-----------------------------------------------------------------------------
(* Each step keeps it *)

(* A send enters behind the tail, with the next ticket.                  *)
LEMMA EnterKeeps ==
  ASSUME IInv, NEW s \in Sends, Enter(s)
  PROVE  IInv'
PROOF
  <1> USE DEF IInv
  <1>1. NextTicket \in Nat /\ NextTicket # 0
        /\ \A q \in Sends : ticket[q] < NextTicket
    BY DEF NextTicket, InLine, TypeOK
  <1>2. /\ ticket[s] = 0 /\ s # Resolved
        /\ ticket' = [ticket EXCEPT ![s] = NextTicket]
        /\ ahead' = [ahead EXCEPT ![s] = tail] /\ tail' = s
        /\ place' = [place EXCEPT ![s] = "queued"]
        /\ UNCHANGED <<released, nonceRead, count, late, outcome>>
    BY ResolvedAssumption DEF Enter, InLine, nodeVars
  <1>3. TypeOK'
    BY <1>1, <1>2 DEF TypeOK, Places
  <1>4. /\ ticket'[s] = NextTicket /\ ahead'[s] = tail /\ place'[s] = "queued"
        /\ \A q \in Sends : q # s => /\ ticket'[q] = ticket[q]
                                     /\ ahead'[q] = ahead[q]
                                     /\ place'[q] = place[q]
    BY <1>2 DEF TypeOK
  <1>5. s \notin released /\ \A q \in Sends : q # s => (Holder(q)' = Holder(q))
        /\ ~Holder(s)'
    BY <1>2, <1>4 DEF InOrder, Enter, Holder, Running
  <1>6. InLine'
    <2>1. \A q \in Sends : (ticket'[q] = 0) <=> (place'[q] = "new")
      BY <1>1, <1>4 DEF InLine
    <2>2. \A q1, q2 \in Sends :
            ticket'[q1] = ticket'[q2] /\ ticket'[q1] # 0 => q1 = q2
      BY <1>1, <1>4 DEF InLine, TypeOK
    <2>3. tail' # Resolved /\ ticket'[tail'] # 0
          /\ \A q \in Sends : ticket'[q] <= ticket'[tail']
      BY <1>1, <1>2, <1>4 DEF TypeOK
    <2>4. ASSUME NEW q1 \in Sends, NEW q \in Sends,
                 ticket'[q] # 0, ticket'[q] < ticket'[q1]
          PROVE  ahead'[q1] # Resolved /\ ticket'[q] <= ticket'[ahead'[q1]]
      <3>1. q # s
        BY <1>1, <1>4, <2>4 DEF TypeOK
      <3>2. CASE q1 = s
        BY <1>4, <2>4, <3>1, <3>2 DEF InLine, TypeOK, Enter
      <3>3. CASE q1 # s
        <4>1. ticket[q] # 0 /\ ticket[q] < ticket[q1] /\ ahead'[q1] = ahead[q1]
          BY <1>4, <2>4, <3>1, <3>3
        <4>2. ahead[q1] # Resolved /\ ticket[q] <= ticket[ahead[q1]]
          BY <4>1 DEF InLine
        <4>3. ahead[q1] \in Sends /\ ticket[ahead[q1]] # 0
          BY <4>1, <4>2 DEF TypeOK
        <4> QED
          BY <1>2, <1>4, <3>1, <4>1, <4>2, <4>3
      <3> QED
        BY <3>2, <3>3
    <2>5. ASSUME NEW q \in Sends, ticket'[q] # 0, ahead'[q] # Resolved
          PROVE  ticket'[ahead'[q]] # 0 /\ ticket'[ahead'[q]] < ticket'[q]
      <3>1. CASE q = s
        BY <1>1, <1>2, <1>4, <2>5, <3>1 DEF InLine, TypeOK
      <3>2. CASE q # s
        <4>1. ahead[q] \in Sends
              /\ ticket[ahead[q]] # 0 /\ ticket[ahead[q]] < ticket[q]
              /\ ahead'[q] = ahead[q] /\ ticket'[q] = ticket[q]
          BY <1>4, <2>5, <3>2 DEF InLine, TypeOK
        <4>2. ahead[q] # s
          BY <1>2, <4>1
        <4> QED
          BY <1>4, <4>1, <4>2
      <3> QED
        BY <3>1, <3>2
    <2> QED
      BY <2>1, <2>2, <2>3, <2>4, <2>5 DEF InLine
  <1>7. InOrder'
    <2>1. ASSUME NEW q1 \in Sends, NEW q \in Sends,
                 q1 \in released' \/ Holder(q1)',
                 ticket'[q] # 0, ticket'[q] < ticket'[q1]
          PROVE  q \in released'
      <3>1. q1 # s
        BY <1>2, <1>4, <1>5, <2>1 DEF Holder, Running
      <3>2. ticket[q1] # 0
        BY <1>2, <1>5, <2>1, <3>1
        DEF InLine, InOrder, Holder, Running
      <3>3. q # s
        BY <1>1, <1>4, <2>1, <3>1 DEF TypeOK
      <3> QED
        BY <1>2, <1>4, <1>5, <2>1, <3>1, <3>3 DEF InOrder
    <2>2. \A q \in Sends : q \in released' => place'[q] \in {"gaveUp", "done"}
      BY <1>2, <1>4, <1>5 DEF InOrder
    <2>3. \A q \in Sends : place'[q] = "done" => q \in released'
      BY <1>2, <1>4 DEF InOrder
    <2> QED
      BY <2>1, <2>2, <2>3 DEF InOrder
  <1>8. NoncesOK'
    <2>1. \A q \in Sends : outcome[q] = "lost" => q # s
      BY <1>2 DEF NoncesOK, Enter
    <2>2. outcome[s] \in {"none", "treasury_busy"}
      BY DEF NoncesOK, Enter
    <2>3. ASSUME NEW q1 \in Sends, q1 # s,
                 \E q \in Sends : outcome[q] = "lost" /\ ticket[q] < ticket[q1]
          PROVE  \E q \in Sends : outcome'[q] = "lost" /\ ticket'[q] < ticket'[q1]
      BY <1>2, <1>4, <2>1, <2>3
    <2>4. \A q \in Sends :
            outcome'[q] \notin {"none", "treasury_busy"} => place'[q] = "done"
      BY <1>2, <1>4, <2>2 DEF NoncesOK
    <2>5. \A q \in late' : outcome'[q] = "lost"
      BY <1>2 DEF NoncesOK
    <2>6. \A q1 \in Sends :
            place'[q1] = "sending" =>
              \/ nonceRead'[q1] = count'
              \/ \E q \in Sends : outcome'[q] = "lost" /\ ticket'[q] < ticket'[q1]
      <3> TAKE q1 \in Sends
      <3> HAVE place'[q1] = "sending"
      <3>1. q1 # s /\ place[q1] = "sending"
        BY <1>4
      <3> QED
        BY <1>2, <2>3, <3>1 DEF NoncesOK
    <2>7. NonceClashNeedsLostCall'
      <3> SUFFICES ASSUME NEW q1 \in Sends, outcome'[q1] = "nonce"
                   PROVE  \E q \in Sends :
                            outcome'[q] = "lost" /\ ticket'[q] < ticket'[q1]
        BY DEF NonceClashNeedsLostCall
      <3>1. q1 # s /\ outcome[q1] = "nonce"
        BY <1>2, <2>2
      <3> QED
        BY <2>3, <3>1 DEF NoncesOK, NonceClashNeedsLostCall
    <2> QED
      BY <2>4, <2>5, <2>6, <2>7 DEF NoncesOK
  <1> QED
    BY <1>3, <1>6, <1>7, <1>8

(* The steps that leave the line and the promises alone.                   *)
LEMMA InnerKeeps ==
  ASSUME IInv, UNCHANGED <<ahead, tail, ticket, released>>, TypeOK',
         \A q \in Sends : (place'[q] = "new") = (place[q] = "new"),
         \A q \in Sends : place[q] \in {"gaveUp", "done"} => place'[q] = place[q],
         \A q \in Sends : place'[q] = "done" => place[q] = "done",
         \A q \in Sends :
           Holder(q)' => Holder(q) \/ (place[q] = "queued" /\ ahead[q] \in released)
  PROVE  InLine' /\ InOrder'
PROOF
  <1> USE DEF IInv
  <1>1. InLine'
    BY DEF InLine
  <1>2. ASSUME NEW q1 \in Sends, NEW q \in Sends,
               q1 \in released' \/ Holder(q1)',
               ticket'[q] # 0, ticket'[q] < ticket'[q1]
        PROVE  q \in released'
    <2>1. CASE q1 \in released \/ Holder(q1)
      BY <1>2, <2>1 DEF InOrder
    <2>2. CASE place[q1] = "queued" /\ ahead[q1] \in released
      BY <1>2, <2>2, TurnIsFree
    <2> QED
      BY <1>2, <2>1, <2>2
  <1>3. InOrder'
    BY <1>2 DEF InOrder
  <1> QED
    BY <1>1, <1>3

(* A turn is taken when the promise ahead is resolved.                   *)
LEMMA TurnKeeps ==
  ASSUME IInv, NEW s \in Sends, Turn(s)
  PROVE  IInv'
PROOF
  <1> USE DEF IInv
  <1>1. /\ place[s] = "queued" /\ ahead[s] \in released
        /\ place' = [place EXCEPT ![s] = "preparing"]
        /\ UNCHANGED <<ahead, tail, released, ticket, nonceRead, count, late,
                      outcome>>
    BY DEF Turn, queueVars, nodeVars
  <1>2. TypeOK'
    BY <1>1 DEF TypeOK, Places, Running
  <1>3. InLine' /\ InOrder'
    BY <1>1, <1>2, InnerKeeps DEF TypeOK, Holder, Running
  <1>4. NoncesOK'
    BY <1>1 DEF NoncesOK, NonceClashNeedsLostCall, TypeOK
  <1> QED
    BY <1>2, <1>3, <1>4

(* A send that gives up keeps its place in the chain of promises.        *)
LEMMA WaitExpiresKeeps ==
  ASSUME IInv, NEW s \in Sends, WaitExpires(s)
  PROVE  IInv'
PROOF
  <1> USE DEF IInv
  <1>1. /\ place[s] = "queued"
        /\ place' = [place EXCEPT ![s] = "gaveUp"]
        /\ outcome' = [outcome EXCEPT ![s] = "treasury_busy"]
        /\ UNCHANGED <<ahead, tail, released, ticket, nonceRead, count, late>>
    BY DEF WaitExpires, queueVars, nodeVars
  <1>2. TypeOK'
    BY <1>1 DEF TypeOK, Places, Outcomes
  <1>3. InLine' /\ InOrder'
    BY <1>1, <1>2, InnerKeeps DEF TypeOK, Holder, Running
  <1>4. \A q \in Sends : outcome[q] = "lost" => outcome'[q] = "lost"
    BY <1>1 DEF NoncesOK, TypeOK
  <1>5. NoncesOK'
    BY <1>1, <1>4 DEF NoncesOK, NonceClashNeedsLostCall, TypeOK
  <1> QED
    BY <1>2, <1>3, <1>5

(* The holder reads the nonce, and the node takes its transaction.       *)
LEMMA WorkingKeeps ==
  ASSUME IInv, NEW s \in Sends, Working(s)
  PROVE  IInv'
PROOF
  <1> USE DEF IInv
  <1>1. /\ \/ /\ place[s] = "preparing" /\ place'[s] = "sending"
              /\ nonceRead' = [nonceRead EXCEPT ![s] = count] /\ count' = count
           \/ /\ place[s] = "sending" /\ place'[s] = "accepted"
              /\ nonceRead' = nonceRead /\ count' = count + 1
        /\ \A q \in Sends : q # s => place'[q] = place[q]
        /\ place' \in [Sends -> Places]
        /\ UNCHANGED <<ahead, tail, released, ticket, late, outcome>>
    BY DEF Working, ReadNonce, Accept, queueVars, nodeVars, TypeOK, Places,
       Running
  <1>2. TypeOK'
    BY <1>1 DEF TypeOK
  <1>3. InLine' /\ InOrder'
    BY <1>1, <1>2, InnerKeeps DEF Holder, Running
  <1>4. \A q \in Sends : place[q] = "sending" => q = s
    BY <1>1, OneHolder DEF Holder, Running
  <1>5. \A q \in Sends : place'[q] = "sending" => nonceRead'[q] = count'
    BY <1>1, <1>4 DEF TypeOK
  <1>6. NoncesOK'
    BY <1>1, <1>5 DEF NoncesOK, NonceClashNeedsLostCall
  <1> QED
    BY <1>2, <1>3, <1>6

(* A promise is resolved by the send that has the turn, or by one that gave*)
(* up behind a resolved one.                                               *)
LEMMA ReleaseKeeps ==
  ASSUME IInv, UNCHANGED <<ahead, tail, ticket>>, TypeOK', NEW s \in Sends,
         released' = released \cup {s},
         Holder(s) \/ (place[s] = "gaveUp" /\ ahead[s] \in released),
         Holder(s) => place'[s] = "done",
         ~Holder(s) => place'[s] = place[s],
         \A q \in Sends : q # s => place'[q] = place[q]
  PROVE  InLine' /\ InOrder'
PROOF
  <1> USE DEF IInv
  <1>1. InLine'
    BY DEF InLine, Holder, Running
  <1>2. ASSUME NEW q \in Sends, ticket[q] # 0, ticket[q] < ticket[s]
        PROVE  q \in released
    <2>1. CASE Holder(s)
      BY <1>2, <2>1 DEF InOrder
    <2>2. CASE ahead[s] \in released
      <3>1. ahead[s] \in Sends /\ ticket[q] <= ticket[ahead[s]]
        BY <1>2 DEF InLine, TypeOK
      <3>2. CASE ticket[q] = ticket[ahead[s]]
        BY <1>2, <2>2, <3>1, <3>2 DEF InLine
      <3>3. CASE ticket[q] < ticket[ahead[s]]
        BY <1>2, <2>2, <3>1, <3>3 DEF InOrder
      <3> QED
        BY <3>1, <3>2, <3>3 DEF TypeOK
    <2> QED
      BY <2>1, <2>2
  <1>3. \A q \in Sends : Holder(q)' => Holder(q)
    BY DEF Holder, Running
  <1>4. InOrder'
    BY <1>2, <1>3 DEF InOrder, Holder, Running
  <1> QED
    BY <1>1, <1>4

(* A send that gave up resolves its promise when its turn comes.         *)
LEMMA HandOnKeeps ==
  ASSUME IInv, NEW s \in Sends, HandOn(s)
  PROVE  IInv'
PROOF
  <1> USE DEF IInv
  <1>1. /\ place[s] = "gaveUp" /\ ahead[s] \in released
        /\ released' = released \cup {s}
        /\ UNCHANGED <<place, ahead, tail, ticket, nonceRead, count, late,
                      outcome>>
    BY DEF HandOn, nodeVars
  <1>2. TypeOK'
    BY <1>1 DEF TypeOK
  <1>3. InLine' /\ InOrder'
    BY <1>1, <1>2, ReleaseKeeps DEF Holder, Running
  <1>4. NoncesOK'
    BY <1>1 DEF NoncesOK, NonceClashNeedsLostCall
  <1> QED
    BY <1>2, <1>3, <1>4

(* The four ways in which the holder ends.                               *)
LEMMA LeavingKeeps ==
  ASSUME IInv, NEW s \in Sends, Leaving(s)
  PROVE  IInv'
PROOF
  <1> USE DEF IInv
  <1>1. PICK how \in {"error", "nonce", "hash", "lost"} :
          /\ Leave(s, how)
          /\ how = "nonce" => place[s] = "sending" /\ nonceRead[s] # count
          /\ late' \subseteq late \cup (IF how = "lost" THEN {s} ELSE {})
    BY DEF Leaving, PreparationFails, RefuseNonce, HashReturns, CallTimesOut,
       nodeVars
  <1>2. /\ place[s] \in Running /\ UNCHANGED <<nonceRead, count>>
        /\ late' \subseteq Sends
    BY DEF Leaving, PreparationFails, RefuseNonce, HashReturns, CallTimesOut,
       nodeVars, Running, TypeOK
  <1>3. /\ place' = [place EXCEPT ![s] = "done"]
        /\ outcome' = [outcome EXCEPT ![s] = how]
        /\ released' = released \cup {s}
        /\ UNCHANGED <<ahead, tail, ticket>>
    BY <1>1 DEF Leave
  <1>4. TypeOK'
    BY <1>2, <1>3 DEF TypeOK, Places, Outcomes
  <1>5. InLine' /\ InOrder'
    BY <1>2, <1>3, <1>4, ReleaseKeeps DEF Holder, TypeOK
  <1>6. outcome[s] \in {"none", "treasury_busy"}
    BY <1>2 DEF NoncesOK, Running
  <1>7. /\ outcome'[s] = how /\ place'[s] = "done"
        /\ \A q \in Sends : q # s => outcome'[q] = outcome[q]
                                     /\ place'[q] = place[q]
    BY <1>3 DEF TypeOK
  <1>8. \A q \in Sends : outcome[q] = "lost" => outcome'[q] = "lost"
    BY <1>6, <1>7
  <1>9. NonceClashNeedsLostCall'
    <2> SUFFICES ASSUME NEW q1 \in Sends, outcome'[q1] = "nonce"
                 PROVE  \E q \in Sends :
                          outcome'[q] = "lost" /\ ticket'[q] < ticket'[q1]
      BY DEF NonceClashNeedsLostCall
    <2>1. CASE q1 = s
      <3>1. \E q \in Sends : outcome[q] = "lost" /\ ticket[q] < ticket[s]
        BY <1>1, <1>7, <2>1 DEF NoncesOK
      <3> QED
        BY <1>3, <1>8, <2>1, <3>1
    <2>2. CASE q1 # s
      <3>1. \E q \in Sends : outcome[q] = "lost" /\ ticket[q] < ticket[q1]
        BY <1>7, <2>2 DEF NoncesOK, NonceClashNeedsLostCall
      <3> QED
        BY <1>3, <1>8, <3>1
    <2> QED
      BY <2>1, <2>2
  <1>10. \A q1 \in Sends :
           place'[q1] = "sending" =>
             \/ nonceRead'[q1] = count'
             \/ \E q \in Sends : outcome'[q] = "lost" /\ ticket'[q] < ticket'[q1]
    BY <1>2, <1>3, <1>7, <1>8 DEF NoncesOK
  <1>11. /\ \A q \in late' : outcome'[q] = "lost"
         /\ \A q \in Sends : outcome'[q] \notin {"none", "treasury_busy"}
                              => place'[q] = "done"
    BY <1>1, <1>2, <1>7, <1>8 DEF NoncesOK
  <1>12. NoncesOK'
    BY <1>9, <1>10, <1>11 DEF NoncesOK
  <1> QED
    BY <1>4, <1>5, <1>12

(* A transaction given up on reaches the node, or does not.              *)
LEMMA ArriveLateKeeps ==
  ASSUME IInv, NEW s \in Sends, ArriveLate(s)
  PROVE  IInv'
PROOF
  <1> USE DEF IInv
  <1>1. /\ s \in late /\ late' = late \ {s} /\ count' \in {count, count + 1}
        /\ UNCHANGED <<place, ahead, tail, released, ticket, nonceRead, outcome>>
    BY DEF ArriveLate, queueVars
  <1>2. TypeOK'
    BY <1>1 DEF TypeOK
  <1>3. InLine' /\ InOrder'
    BY <1>1, <1>2, InnerKeeps DEF Holder
  <1>4. outcome[s] = "lost" /\ place[s] = "done" /\ s \in released
        /\ ticket[s] # 0
    BY <1>1 DEF NoncesOK, InOrder, InLine
  (* The lost send entered before whoever is sending now. *)
  <1>5. \A q \in Sends : place[q] = "sending" => ticket[s] < ticket[q]
    <2> SUFFICES ASSUME NEW q \in Sends, place[q] = "sending"
                 PROVE  ticket[s] < ticket[q]
      OBVIOUS
    <2>1. q \notin released /\ ticket[q] # 0 /\ q # s
      BY <1>4 DEF InOrder, InLine
    <2>2. ~(ticket[q] < ticket[s])
      BY <1>4, <2>1 DEF InOrder
    <2>3. ticket[q] # ticket[s]
      BY <2>1 DEF InLine
    <2> QED
      BY <2>2, <2>3 DEF TypeOK
  <1>6. NoncesOK'
    BY <1>1, <1>4, <1>5 DEF NoncesOK, NonceClashNeedsLostCall
  <1> QED
    BY <1>2, <1>3, <1>6

(* The queue starts empty.                                               *)
LEMMA InitIInv == Init => IInv
PROOF BY ResolvedAssumption
  DEF Init, IInv, TypeOK, InLine, InOrder, NoncesOK, Holder, Running, Places,
      Outcomes, NonceClashNeedsLostCall

(* The invariant is inductive.                                           *)
LEMMA NextKeeps == IInv /\ [Next]_vars => IInv'
PROOF
  <1> SUFFICES ASSUME IInv, [Next]_vars PROVE IInv'
    OBVIOUS
  <1>1. CASE UNCHANGED vars
    BY <1>1 DEF vars, queueVars, nodeVars, IInv, TypeOK, InLine, InOrder,
       NoncesOK, Holder, NonceClashNeedsLostCall
  <1>2. ASSUME NEW s \in Sends, Proceed(s) PROVE IInv'
    BY <1>2, TurnKeeps, HandOnKeeps, WorkingKeeps, LeavingKeeps
    DEF Proceed, Working, Leaving
  <1> QED
    BY <1>1, <1>2, EnterKeeps, WaitExpiresKeeps, ArriveLateKeeps DEF Next

(* It holds in every reachable state.                                    *)
LEMMA Invariant == Spec => []IInv
PROOF BY InitIInv, NextKeeps, PTL DEF Spec

-----------------------------------------------------------------------------
(* Two sends of the treasury never overlap between preparation and hash.   *)
THEOREM MutualExclusion == Spec => []OneAtATime
PROOF
  <1>1. IInv => OneAtATime
    BY OneHolder DEF OneAtATime
  <1> QED
    BY <1>1, Invariant, PTL

(* Sends have their turn in the order they came.                           *)
THEOREM FirstComeFirstServed == Spec => []NoOvertaking
PROOF
  <1>1. IInv => NoOvertaking
    BY EnteredHasTicket
    DEF NoOvertaking, IInv, InOrder, NoncesOK, Entered
  <1> QED
    BY <1>1, Invariant, PTL

(* A treasury transaction is refused for its nonce only behind a send whose*)
(* RPC call timed out.                                                     *)
THEOREM NonceClash == Spec => []NonceClashNeedsLostCall
PROOF
  <1>1. IInv => NonceClashNeedsLostCall
    BY DEF IInv, NoncesOK
  <1> QED
    BY <1>1, Invariant, PTL

-----------------------------------------------------------------------------
(* The chain of promises is a FIFO lock whose waiters may leave.           *)

Queue  == {s \in Sends : place[s] = "queued"}
InUse  == {s \in Sends : Holder(s)}

(* Every step of the queue is a step of the lock, or none.               *)
LEMMA StepIsLockStep ==
  ASSUME IInv, [Next]_vars
  PROVE  [Lock!Next]_Lock!vars
PROOF
  <1> USE DEF IInv
  <1> SUFFICES \/ ticket' = ticket /\ Queue' = Queue /\ InUse' = InUse
               \/ Lock!Next
    BY DEF Lock!vars, Queue, InUse
  <1>1. ASSUME NEW s \in Sends, Enter(s) PROVE Lock!Join(s)
    <2>1. /\ ticket[s] = 0
          /\ ticket' = [ticket EXCEPT ![s] = NextTicket]
          /\ place' = [place EXCEPT ![s] = "queued"] /\ place[s] = "new"
      BY <1>1 DEF Enter, InLine
    <2>2. NextTicket \in Nat /\ \A q \in Sends : ticket[q] < NextTicket
      BY DEF NextTicket, InLine, TypeOK
    <2>3. Queue' = Queue \cup {s}
      BY <2>1 DEF Queue, TypeOK
    <2>4. InUse' = InUse
      BY <2>1 DEF InUse, Holder, Running, TypeOK
    <2> QED
      BY <2>1, <2>2, <2>3, <2>4 DEF Lock!Join, Queue, InUse, TypeOK
  <1>2. ASSUME NEW s \in Sends, Turn(s) PROVE Lock!Start(s)
    <2>1. /\ place[s] = "queued" /\ ahead[s] \in released
          /\ place' = [place EXCEPT ![s] = "preparing"] /\ ticket' = ticket
      BY <1>2 DEF Turn, queueVars
    <2>2. InUse = {} /\ s \in Queue
      BY <2>1, TurnIsFree DEF InUse, Queue
    <2>3. \A q \in Queue : ticket[s] <= ticket[q]
      <3> SUFFICES ASSUME NEW q \in Queue PROVE ~(ticket[q] < ticket[s])
        BY <2>1 DEF Queue, TypeOK
      <3>1. q \in Sends /\ place[q] = "queued"
        BY DEF Queue
      <3>2. q \notin released /\ ticket[q] # 0
        BY <3>1 DEF InOrder, InLine
      <3> QED
        BY <2>1, <3>1, <3>2, TurnIsFree
    <2>4. Queue' = Queue \ {s}
      BY <2>1 DEF Queue, TypeOK
    <2>5. InUse' = {s}
      <3>1. \A q \in Sends : ~Holder(q)
        BY <2>1, TurnIsFree
      <3> QED
        BY <2>1, <3>1 DEF InUse, Holder, Running, TypeOK
    <2> QED
      BY <2>1, <2>2, <2>3, <2>4, <2>5 DEF Lock!Start, Queue, InUse
  <1>3. ASSUME NEW s \in Sends, WaitExpires(s) PROVE Lock!GiveUp(s)
    <2>1. /\ place[s] = "queued" /\ ticket' = ticket
          /\ place' = [place EXCEPT ![s] = "gaveUp"]
      BY <1>3 DEF WaitExpires, queueVars
    <2>2. s \in Queue /\ Queue' = Queue \ {s}
      BY <2>1 DEF Queue, TypeOK
    <2>3. InUse' = InUse
      BY <2>1 DEF InUse, Holder, Running, TypeOK
    <2> QED
      BY <2>1, <2>2, <2>3 DEF Lock!GiveUp, Queue, InUse
  <1>4. ASSUME NEW s \in Sends, Leaving(s) PROVE Lock!Finish(s)
    <2>1. /\ place[s] \in Running /\ ticket' = ticket
          /\ place' = [place EXCEPT ![s] = "done"]
      BY <1>4 DEF Leaving, PreparationFails, RefuseNonce, HashReturns,
         CallTimesOut, Leave, Running
    <2>2. s \in InUse /\ \A q \in InUse : q = s
      BY <2>1, OneHolder DEF InUse, Holder
    <2>3. InUse' = {}
      BY <2>1, <2>2 DEF InUse, Holder, Running, TypeOK
    <2>4. Queue' = Queue
      BY <2>1 DEF Queue, Running, TypeOK
    <2> QED
      BY <2>1, <2>2, <2>3, <2>4 DEF Lock!Finish, Queue, InUse
  <1>5. ASSUME NEW s \in Sends, HandOn(s) \/ Working(s) \/ ArriveLate(s)
        PROVE  ticket' = ticket /\ Queue' = Queue /\ InUse' = InUse
    <2>1. /\ ticket' = ticket
          /\ \A q \in Sends : \/ place'[q] = place[q]
                              \/ place[q] \in Running /\ place'[q] \in Running
      BY <1>5 DEF HandOn, Working, ReadNonce, Accept, ArriveLate, queueVars,
         Running, TypeOK
    <2> QED
      BY <2>1 DEF Queue, InUse, Holder, Running
  <1>6. CASE UNCHANGED vars
    BY <1>6 DEF vars, queueVars, Queue, InUse, Holder
  <1> QED
    BY <1>1, <1>2, <1>3, <1>4, <1>5, <1>6
    DEF Next, Proceed, Leaving, Working, Lock!Next

(* Every behaviour of the queue is a behaviour of a FIFO lock.             *)
THEOREM ImplementsFifoLock == Spec => IsFifoLock
PROOF
  <1>1. Init => Lock!Init
    BY DEF Init, Lock!Init, Holder, Running
  <1> QED
    BY <1>1, Invariant, StepIsLockStep, PTL DEF Spec, IsFifoLock, Lock!Spec
=============================================================================
