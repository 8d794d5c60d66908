---------------------------- MODULE OutboxProofs ----------------------------
(***************************************************************************)
(* Proofs about Outbox.tla, for every cap, batch size and number of events.*)
(*                                                                         *)
(* The safety properties are inductive together with the types and with    *)
(* one fact more: what the pass takes for delivered, the hub has.          *)
(* The work is in the lemmas about Oldest, the ranking the eviction uses.  *)
(***************************************************************************)
EXTENDS Outbox, FiniteSetTheorems, TLAPS

TakenIsReceived == taken => posting \in received

IInv == /\ TypeOK /\ TakenIsReceived
        /\ NothingLost /\ AnomaliesKept /\ CapOrAnomalies /\ OldestGoFirst

(* The types, without the flags: booleans and numbers are not for the same *)
(* prover.                                                                 *)
FlagsOK == delivering \in BOOLEAN /\ taken \in BOOLEAN
EventsOK ==
  /\ produced \in 0..MaxEvents
  /\ anomalous \subseteq 1..produced /\ rows \subseteq 1..produced
  /\ resting \subseteq rows
  /\ batch \subseteq 1..produced /\ posting \in 0..produced
  /\ late \subseteq 1..produced /\ received \subseteq 1..produced
  /\ evicted \subseteq 1..produced
  /\ crashes \in 0..MaxCrashes

(* The type invariant, its flags and its events apart.                   *)
LEMMA Types == TypeOK <=> FlagsOK /\ EventsOK
PROOF BY DEF TypeOK, FlagsOK, EventsOK

-----------------------------------------------------------------------------
(* The ranking *)

(* An event's rank among finitely many: how many are no later than it.     *)
Upto(S, e) == {d \in S : d <= e}

(* A rank lies between one and the number of events.                     *)
LEMMA RankType ==
  ASSUME NEW S \in SUBSET Nat, IsFiniteSet(S), NEW e \in S
  PROVE  /\ IsFiniteSet(Upto(S, e))
         /\ Cardinality(Upto(S, e)) \in 1..Cardinality(S)
PROOF
  <1>1. Upto(S, e) \in SUBSET S /\ e \in Upto(S, e)
    BY DEF Upto
  <1>2. /\ IsFiniteSet(Upto(S, e))
        /\ Cardinality(Upto(S, e)) <= Cardinality(S)
    BY <1>1, FS_Subset
  <1>3. Cardinality(Upto(S, e)) \in Nat /\ Cardinality(S) \in Nat
    BY <1>2, FS_CardinalityType
  <1>4. Cardinality(Upto(S, e)) # 0
    BY <1>1, <1>2, FS_EmptySet
  <1> QED BY <1>2, <1>3, <1>4

(* A later event has the higher rank.                                      *)
LEMMA RankGrows ==
  ASSUME NEW S \in SUBSET Nat, IsFiniteSet(S), NEW d \in S, NEW e \in S, d < e
  PROVE  Cardinality(Upto(S, d)) < Cardinality(Upto(S, e))
PROOF
  <1>1. Upto(S, d) \in SUBSET Upto(S, e)
    <2>1. \A x \in S : x <= d => x <= e
      <3>1. d \in Nat /\ e \in Nat /\ \A x \in S : x \in Nat
        OBVIOUS
      <3> QED BY <3>1
    <2> QED BY <2>1 DEF Upto
  <1>2. e \in Upto(S, e) /\ e \notin Upto(S, d)
    BY DEF Upto
  <1>3. IsFiniteSet(Upto(S, e)) /\ IsFiniteSet(Upto(S, d))
    BY RankType
  <1>4. /\ Cardinality(Upto(S, d)) <= Cardinality(Upto(S, e))
        /\ Cardinality(Upto(S, e)) # Cardinality(Upto(S, d))
    BY <1>1, <1>2, <1>3, FS_Subset
  <1>5. Cardinality(Upto(S, d)) \in Nat /\ Cardinality(Upto(S, e)) \in Nat
    BY <1>3, FS_CardinalityType
  <1> QED BY <1>4, <1>5

(* Every rank up to the number of events is some event's.                  *)
LEMMA RankOnto ==
  ASSUME NEW S \in SUBSET Nat, IsFiniteSet(S), NEW k \in 1..Cardinality(S)
  PROVE  \E e \in S : Cardinality(Upto(S, e)) = k
PROOF
  <1> DEFINE Ranks == 1..Cardinality(S)
             rank == [e \in S |-> Cardinality(Upto(S, e))]
  <1>1. rank \in [S -> Ranks]
    BY RankType
  <1>2. ASSUME NEW d \in S, NEW e \in S, rank[d] = rank[e] PROVE d = e
    <2>1. ~(d < e) /\ ~(e < d)
      <3>1. \A x \in S : Cardinality(Upto(S, x)) \in Nat
        BY RankType
      <3> QED BY <1>2, <3>1, RankGrows
    <2> QED BY <2>1
  <1>3. rank \in Injection(S, Ranks)
    BY <1>1, <1>2 DEF Injection, IsInjective
  <1>4. Cardinality(S) \in Nat
    BY FS_CardinalityType
  <1>5. IsFiniteSet(Ranks) /\ Cardinality(Ranks) = Cardinality(S)
    BY <1>4, FS_Interval
  <1>6. rank \in Surjection(S, Ranks)
    BY <1>3, <1>5, FS_Injection
  <1> HIDE DEF rank
  <1>7. \E e \in S : rank[e] = k
    BY <1>6 DEF Surjection
  <1> QED BY <1>7 DEF rank

(* The oldest of S are of S.                                             *)
LEMMA OldestSubset ==
  ASSUME NEW S, NEW n
  PROVE  Oldest(S, n) \subseteq S
PROOF BY DEF Oldest

(* What is left out of the oldest is later than all of them.               *)
LEMMA OldestAreOlder ==
  ASSUME NEW S \in SUBSET Nat, IsFiniteSet(S), NEW n \in Nat,
         NEW e \in Oldest(S, n), NEW r \in S \ Oldest(S, n)
  PROVE  e < r
PROOF
  <1>1. e \in S /\ Cardinality(Upto(S, e)) <= n
    BY DEF Oldest, Upto
  <1>2. ~(Cardinality(Upto(S, r)) <= n)
    BY DEF Oldest, Upto
  <1>3. /\ Cardinality(Upto(S, e)) \in Nat
        /\ Cardinality(Upto(S, r)) \in Nat
    BY <1>1, RankType
  <1>4. r # e
    BY <1>1, <1>2
  <1>5. ~(r < e)
    BY <1>1, <1>2, <1>3, RankGrows
  <1> QED BY <1>1, <1>4, <1>5

(* There are as many as were asked for, unless there is nothing else.      *)
LEMMA OldestCount ==
  ASSUME NEW S \in SUBSET Nat, IsFiniteSet(S), NEW n \in Nat
  PROVE  Oldest(S, n) = S \/ Cardinality(Oldest(S, n)) = n
PROOF
  <1> DEFINE O == Oldest(S, n)
             rank == [e \in O |-> Cardinality(Upto(S, e))]
  <1>1. Cardinality(S) \in Nat
    BY FS_CardinalityType
  <1>2. CASE Cardinality(S) <= n
    <2>1. \A e \in S : Cardinality(Upto(S, e)) <= n
      BY <1>1, <1>2, RankType
    <2> QED BY <2>1 DEF Oldest, Upto
  <1>3. CASE n < Cardinality(S)
    <2>1. O \in SUBSET S
      BY OldestSubset
    <2>2. \A e \in O : Cardinality(Upto(S, e)) \in 1..n
      BY <2>1, RankType DEF Oldest, Upto
    <2>3. rank \in [O -> 1..n]
      BY <2>2
    <2>4. ASSUME NEW d \in O, NEW e \in O, rank[d] = rank[e] PROVE d = e
      <3> HIDE DEF O
      <3>1. \A x \in O : x \in S /\ x \in Nat
        BY <2>1
      <3>2. \A x \in O : Cardinality(Upto(S, x)) \in Nat
        BY <2>2
      <3>3. Cardinality(Upto(S, d)) = Cardinality(Upto(S, e))
        BY <2>4
      <3>4. ~(d < e) /\ ~(e < d)
        BY <3>1, <3>2, <3>3, RankGrows
      <3> QED BY <3>1, <3>4
    <2>5. rank \in Injection(O, 1..n)
      BY <2>3, <2>4 DEF Injection, IsInjective
    <2>6. \A k \in 1..n : \E e \in O : Cardinality(Upto(S, e)) = k
      <3> SUFFICES ASSUME NEW k \in 1..n
                   PROVE  \E e \in O : Cardinality(Upto(S, e)) = k
        OBVIOUS
      <3>1. k \in 1..Cardinality(S)
        BY <1>1, <1>3
      <3>2. PICK e \in S : Cardinality(Upto(S, e)) = k
        BY <3>1, RankOnto
      <3>3. e \in O
        BY <3>2 DEF Oldest, Upto
      <3> QED BY <3>2, <3>3
    <2>7. rank \in Surjection(O, 1..n)
      BY <2>3, <2>6 DEF Surjection
    <2>8. IsFiniteSet(1..n) /\ Cardinality(1..n) = n
      BY FS_Interval
    <2> QED BY <2>5, <2>7, <2>8, FS_Injection
  <1> QED BY <1>1, <1>2, <1>3

-----------------------------------------------------------------------------
(* The eviction *)

(* It takes rows, none of them an anomaly, and leaves the cap kept or only *)
(* anomalies behind.                                                       *)
LEMMA ExcessSound ==
  ASSUME NEW S \in SUBSET Nat, IsFiniteSet(S), NEW A
  PROVE  /\ Excess(S, A) \subseteq S \ A
         /\ \/ Cardinality(S \ Excess(S, A)) <= MaxBuffered
            \/ S \ Excess(S, A) \subseteq A
         /\ \A e \in Excess(S, A), r \in (S \ Excess(S, A)) \ A : e < r
PROOF
  <1> DEFINE n == Cardinality(S) - MaxBuffered
  <1>1. Cardinality(S) \in Nat /\ MaxBuffered \in Nat
    BY FS_CardinalityType, OutboxAssumption
  <1>2. CASE Cardinality(S) <= MaxBuffered
    BY <1>2 DEF Excess
  <1>3. CASE ~(Cardinality(S) <= MaxBuffered)
    <2>1. Excess(S, A) = Oldest(S \ A, n)
      BY <1>3 DEF Excess
    <2>2. n \in Nat
      BY <1>1, <1>3
    <2>3. S \ A \in SUBSET Nat /\ IsFiniteSet(S \ A)
      BY FS_Subset
    <2>4. Oldest(S \ A, n) \subseteq S \ A
      BY OldestSubset
    <2>5. \A e \in Oldest(S \ A, n), r \in (S \ A) \ Oldest(S \ A, n) : e < r
      BY <2>2, <2>3, OldestAreOlder
    <2>6. CASE Oldest(S \ A, n) = S \ A
      BY <2>1, <2>4, <2>5, <2>6
    <2>7. CASE Cardinality(Oldest(S \ A, n)) = n
      <3> DEFINE O == Oldest(S \ A, n)
      <3>1. O \in SUBSET S /\ S \ O \in SUBSET S
        BY <2>4
      <3>2. IsFiniteSet(O) /\ IsFiniteSet(S \ O)
        BY <3>1, FS_Subset
      <3>3. Cardinality(O \cup (S \ O)) =
              Cardinality(O) + Cardinality(S \ O) - Cardinality(O \cap (S \ O))
        BY <3>2, FS_Union
      <3>4. O \cup (S \ O) = S /\ O \cap (S \ O) = {}
        BY <3>1
      <3>5. Cardinality(S \ O) \in Nat /\ Cardinality({}) = 0
        BY <3>2, FS_CardinalityType, FS_EmptySet
      <3>6. Cardinality(S) = Cardinality(O) + Cardinality(S \ O) - 0
        BY <3>3, <3>4, <3>5
      <3>7. Cardinality(S \ O) = MaxBuffered
        <4> HIDE DEF O
        <4>1. Cardinality(O) = Cardinality(S) - MaxBuffered
          BY <2>7 DEF O
        <4> QED BY <1>1, <3>5, <3>6, <4>1
      <3>8. Excess(S, A) = O
        BY <2>1
      <3>9. \A e \in O, r \in (S \ O) \ A : e < r
        BY <2>5
      <3>10. O \subseteq S \ A
        BY <2>4
      <3> HIDE DEF O
      <3>11. Cardinality(S \ O) <= MaxBuffered
        BY <1>1, <3>7
      <3> QED BY <3>8, <3>9, <3>10, <3>11
    <2> QED BY <2>2, <2>3, <2>6, <2>7, OldestCount
  <1> QED BY <1>2, <1>3

(* What the actions do to the rows, apart from Enqueue: none, or the event *)
(* that was answered for.                                                  *)
LEMMA RowsFinite ==
  ASSUME TypeOK
  PROVE  /\ produced \in Nat
         /\ IsFiniteSet(rows) /\ rows \in SUBSET Nat
         /\ Cardinality(rows) \in Nat
PROOF
  <1>1. produced \in Nat
    BY OutboxAssumption DEF TypeOK
  <1>2. IsFiniteSet(1..produced)
    BY <1>1, FS_Interval
  <1>3. rows \in SUBSET (1..produced)
    BY DEF TypeOK
  <1>4. IsFiniteSet(rows)
    BY <1>2, <1>3, FS_Subset
  <1>5. Cardinality(rows) \in Nat
    BY <1>4, FS_CardinalityType
  <1> QED BY <1>1, <1>3, <1>4, <1>5

(* An insertion keeps every conjunct.                                      *)
LEMMA EnqueueKeeps ==
  ASSUME IInv, Enqueue
  PROVE  IInv'
PROOF
  <1> DEFINE held == rows \cup {produced'}
             over == Excess(held, anomalous')
  <1>1. /\ produced < MaxEvents /\ produced' = produced + 1
        /\ anomalous' \in {anomalous, anomalous \cup {produced'}}
        /\ rows' = held \ over /\ evicted' = evicted \cup over
        /\ resting' = resting \cap rows'
        /\ UNCHANGED <<passVars, late, received, crashes>>
    BY DEF Enqueue
  <1>2. /\ produced \in Nat /\ IsFiniteSet(rows) /\ rows \in SUBSET Nat
        /\ MaxEvents \in Nat
    BY RowsFinite, OutboxAssumption DEF IInv
  <1>3. produced' \in Nat /\ produced' \in 0..MaxEvents
    BY <1>1, <1>2
  <1>4. held \in SUBSET Nat /\ IsFiniteSet(held)
    BY <1>2, <1>3, FS_AddElement
  <1>5. /\ over \subseteq held \ anomalous'
        /\ \/ Cardinality(held \ over) <= MaxBuffered
           \/ held \ over \subseteq anomalous'
        /\ \A e \in over, r \in (held \ over) \ anomalous' : e < r
    BY <1>4, ExcessSound
  <1> HIDE DEF over
  <1>6. 1..produced' = 1..produced \cup {produced'} /\ 0..produced \subseteq 0..produced'
    BY <1>1, <1>2
  <1>7. TypeOK'
    BY <1>1, <1>3, <1>5, <1>6 DEF IInv, TypeOK, passVars
  <1>8. TakenIsReceived'
    BY <1>1 DEF IInv, TakenIsReceived, passVars
  <1>9. NothingLost'
    BY <1>1, <1>5, <1>6 DEF IInv, NothingLost
  <1>10. AnomaliesKept'
    <2>1. produced' \notin evicted
      BY <1>1, <1>2 DEF IInv, TypeOK
    <2> QED BY <1>1, <1>5, <2>1 DEF IInv, AnomaliesKept
  <1>11. CapOrAnomalies'
    BY <1>1, <1>5 DEF CapOrAnomalies
  <1>12. OldestGoFirst'
    <2> SUFFICES ASSUME NEW e \in evicted', NEW r \in rows' \ anomalous'
                 PROVE  e < r
      BY DEF OldestGoFirst
    <2>1. CASE e \in over
      BY <1>1, <1>5, <2>1
    <2>2. CASE e \in evicted /\ r \in rows
      BY <1>1, <2>2 DEF IInv, OldestGoFirst
    <2>3. CASE e \in evicted /\ r = produced'
      BY <1>1, <1>2, <2>3 DEF IInv, TypeOK
    <2> QED BY <1>1, <2>1, <2>2, <2>3
  <1> QED BY <1>7, <1>8, <1>9, <1>10, <1>11, <1>12 DEF IInv

(* An answer takes one row away, which the hub has.                        *)
LEMMA AnsweredKeeps ==
  ASSUME IInv, Answered
  PROVE  IInv'
PROOF
  <1> USE DEF IInv, Answered
  <1>1. TypeOK'
    <2>1. FlagsOK'
      BY Types DEF FlagsOK
    <2>2. EventsOK'
      BY Types, RowsFinite DEF EventsOK
    <2> QED BY <2>1, <2>2 DEF TypeOK, FlagsOK, EventsOK
  <1>2. NothingLost'
    BY DEF NothingLost, TakenIsReceived
  <1>3. CapOrAnomalies'
    <2>1. CASE rows \subseteq anomalous
      BY <2>1 DEF CapOrAnomalies
    <2>2. CASE Cardinality(rows) <= MaxBuffered
      <3>1. rows' \in SUBSET rows
        OBVIOUS
      <3>2. IsFiniteSet(rows') /\ Cardinality(rows') <= Cardinality(rows)
        BY <3>1, RowsFinite, FS_Subset
      <3>3. Cardinality(rows') \in Nat /\ Cardinality(rows) \in Nat
        BY <3>2, RowsFinite, FS_CardinalityType
      <3> QED BY <2>2, <3>2, <3>3, OutboxAssumption DEF CapOrAnomalies
    <2> QED BY <2>1, <2>2 DEF CapOrAnomalies
  <1>4. TakenIsReceived' /\ AnomaliesKept' /\ OldestGoFirst'
    BY DEF TakenIsReceived, AnomaliesKept, OldestGoFirst
  <1> QED BY <1>1, <1>2, <1>3, <1>4

(* The other steps leave the outbox, what was produced and what was evicted*)
(* alone, and the hub has at least what it had.                            *)
LEMMA RestKeeps ==
  ASSUME IInv, TypeOK', TakenIsReceived',
         UNCHANGED <<produced, anomalous, rows, evicted>>,
         received \subseteq received'
  PROVE  IInv'
PROOF BY DEF IInv, NothingLost, AnomaliesKept, CapOrAnomalies, OldestGoFirst

(* The outbox starts empty.                                              *)
LEMMA InitIInv == Init => IInv
PROOF
  <1> SUFFICES ASSUME Init PROVE IInv
    OBVIOUS
  <1> USE DEF Init
  <1>1. TypeOK
    <2>1. FlagsOK
      BY DEF FlagsOK
    <2>2. EventsOK
      BY OutboxAssumption DEF EventsOK
    <2> QED BY <2>1, <2>2, Types
  <1>2. CapOrAnomalies
    BY DEF CapOrAnomalies
  <1>3. NothingLost
    BY DEF NothingLost
  <1> QED BY <1>1, <1>2, <1>3
       DEF IInv, TakenIsReceived, AnomaliesKept, OldestGoFirst

(* The invariant is inductive.                                           *)
LEMMA NextIInv == IInv /\ [Next]_vars => IInv'
PROOF
  <1> SUFFICES ASSUME IInv, [Next]_vars PROVE IInv'
    OBVIOUS
  <1> USE DEF IInv
  <1>1. CASE Enqueue
    BY <1>1, EnqueueKeeps
  <1>2. CASE StartPass
    <2>1. Oldest(rows \ resting, Batch) \subseteq rows
      BY OldestSubset
    <2>2. TypeOK'
      BY <1>2, <2>1 DEF StartPass, TypeOK
    <2> QED BY <1>2, <2>2, RestKeeps DEF StartPass, TakenIsReceived
  <1>3. CASE Post
    <2>1. Oldest(batch, 1) \subseteq batch
      BY OldestSubset
    <2>2. posting' \in batch
      BY <1>3, <2>1 DEF Post
    <2>3. produced \in Nat
      BY RowsFinite
    <2>4. FlagsOK'
      BY <1>3, Types DEF Post, FlagsOK
    <2>5. EventsOK'
      BY <1>3, <2>2, <2>3, Types DEF Post, EventsOK
    <2>6. TypeOK'
      BY <2>4, <2>5 DEF TypeOK, FlagsOK, EventsOK
    <2> QED BY <1>3, <2>6, RestKeeps DEF Post, TakenIsReceived
  <1>4. CASE HubTakes
    <2>1. TypeOK'
      BY <1>4, RowsFinite DEF HubTakes, TypeOK
    <2> QED BY <1>4, <2>1, RestKeeps DEF HubTakes, TakenIsReceived
  <1>5. CASE Answered
    BY <1>5, AnsweredKeeps
  <1>6. CASE Failed
    <2>1. FlagsOK'
      BY <1>6, Types DEF Failed, FlagsOK
    <2>2. EventsOK'
      BY <1>6, Types, RowsFinite DEF Failed, GivenUp, EventsOK
    <2>3. TypeOK'
      BY <2>1, <2>2 DEF TypeOK, FlagsOK, EventsOK
    <2> QED BY <1>6, <2>3, RestKeeps DEF Failed, TakenIsReceived
  <1>7. CASE EndPass
    <2>1. TypeOK'
      BY <1>7 DEF EndPass, TypeOK
    <2> QED BY <1>7, <2>1, RestKeeps DEF EndPass, TakenIsReceived
  <1>8. CASE Crash
    <2>1. crashes' \in 0..MaxCrashes
      BY <1>8, OutboxAssumption DEF Crash, TypeOK
    <2>2. FlagsOK'
      BY <1>8, Types DEF Crash, FlagsOK
    <2>3. EventsOK'
      BY <1>8, <2>1, Types, RowsFinite DEF Crash, GivenUp, EventsOK
    <2>4. TypeOK'
      BY <2>2, <2>3 DEF TypeOK, FlagsOK, EventsOK
    <2> QED BY <1>8, <2>4, RestKeeps DEF Crash, TakenIsReceived
  <1>9. ASSUME NEW e \in Events, BackoffEnds(e) PROVE IInv'
    <2>1. TypeOK'
      BY <1>9 DEF BackoffEnds, TypeOK, passVars
    <2> QED BY <1>9, <2>1, RestKeeps DEF BackoffEnds, TakenIsReceived, passVars
  <1>10. ASSUME NEW e \in Events, HubTakesLate(e) PROVE IInv'
    <2>1. TypeOK'
      BY <1>10 DEF HubTakesLate, TypeOK, passVars
    <2> QED BY <1>10, <2>1, RestKeeps
            DEF HubTakesLate, TakenIsReceived, passVars
  <1>11. CASE UNCHANGED vars
    BY <1>11, RestKeeps DEF vars, passVars, TypeOK, TakenIsReceived
  <1> QED BY <1>1, <1>2, <1>3, <1>4, <1>5, <1>6, <1>7, <1>8, <1>9, <1>10,
             <1>11 DEF Next, Pass

-----------------------------------------------------------------------------
(* What holds of every behaviour *)

(* It holds in every reachable state.                                    *)
LEMMA Invariance == Spec => []IInv
PROOF
  <1>1. Init => IInv
    BY InitIInv
  <1>2. IInv /\ [Next]_vars => IInv'
    BY NextIInv
  <1> QED BY <1>1, <1>2, PTL DEF Spec

(* The types, for every instance.                                          *)
THEOREM OutboxTypes == Spec => []TypeOK
PROOF BY Invariance, PTL DEF IInv

(* Whatever the hub, the network and the process do to a delivery pass, an *)
(* event leaves the outbox only by reaching the hub or by eviction.        *)
THEOREM AtLeastOnce == Spec => []NothingLost
PROOF BY Invariance, PTL DEF IInv

(* enqueueEvent evicts no chain.anomaly.                                   *)
THEOREM AnomaliesNotEvicted == Spec => []AnomaliesKept
PROOF BY Invariance, PTL DEF IInv

(* Beyond its cap the outbox grows with anomalies alone.                   *)
THEOREM Capped == Spec => []CapOrAnomalies
PROOF BY Invariance, PTL DEF IInv

(* Eviction takes events in the order they were produced in.               *)
THEOREM EvictedInOrder == Spec => []OldestGoFirst
PROOF BY Invariance, PTL DEF IInv
=============================================================================
