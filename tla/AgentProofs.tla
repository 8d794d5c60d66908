----------------------------- MODULE AgentProofs -----------------------------
(***************************************************************************)
(* Proofs about PolicyRules.tla, for every document whatever its keys and  *)
(* values (TLC checks the same facts over a small vocabulary in MCAgent),  *)
(* and about Agent.tla, for any number of calls of the tool and any faults.*)
(***************************************************************************)
EXTENDS Agent, TLAPS

-----------------------------------------------------------------------------
(* The policy rules *)

(* What the tool cannot read, the service cannot read either.              *)
LEMMA UnreadableForBoth ==
  ASSUME NEW file, LocalRead(file).is = "unreadable"
  PROVE  ReadPolicyFile(file).is = "unreadable"
<1>1. file.is # "none"
  BY DEF LocalRead, NoFile
<1>2. CASE file.is = "torn"
  BY <1>1, <1>2 DEF ReadPolicyFile, Unreadable
<1>3. CASE file.is # "torn"
  <2> DEFINE d == file.doc
  <2>1. \/ d = Junk \/ ~(DOMAIN d \subseteq PolicyKeys) \/ ~ListsUsable(d)
        \/ Has(d, "caps") /\ ~AreCaps(d.caps)
        \/ IsLegacy(d) /\ Default = NoToken
    BY <1>1, <1>3 DEF LocalRead, Doc, Unreadable
  <2>2. \/ ~IsPolicy(d) \/ Normalise(d).is = "refused"
    BY <2>1 DEF IsPolicy, Normalise, Refused
  <2> QED BY <1>1, <2>2 DEF ReadPolicyFile, Unreadable
<1> QED BY <1>2, <1>3

(* Where both read a document, they read the same one.                     *)
LEMMA SameReading ==
  ASSUME NEW file, ReadPolicyFile(file).is # "unreadable"
  PROVE  ReadPolicyFile(file) = LocalRead(file)
<1>1. CASE file.is = "none"
  BY <1>1 DEF ReadPolicyFile, LocalRead
<1>2. CASE file.is # "none"
  <2> DEFINE d == file.doc
  <2>1. file.is # "torn" /\ IsPolicy(d) /\ Normalise(d).is # "refused"
    BY <1>2 DEF ReadPolicyFile, Unreadable
  <2>2. Normalise(d) = Doc(Normalised(d)) /\ ~(IsLegacy(d) /\ Default = NoToken)
    BY <2>1 DEF Normalise, Refused
  <2>3. ReadPolicyFile(file) = Doc(Normalised(d))
    BY <1>2, <2>1, <2>2 DEF ReadPolicyFile
  <2>4. LocalRead(file) = Doc(Normalised(d))
    BY <1>2, <2>1, <2>2 DEF LocalRead, IsPolicy
  <2> QED BY <2>3, <2>4
<1> QED BY <1>1, <1>2

(* The service's gate on a bound is the narrower one.                      *)
LEMMA UnusableForBoth ==
  ASSUME NEW p, NEW t, LocalCapsRefused(p, t)
  PROVE  CapsRefused(p, t)
BY DEF LocalCapsRefused, CapsRefused, IsCapAmount

(* A bound on one transfer that the service can read is worth the same to  *)
(* the tool.                                                               *)
LEMMA SameWorth ==
  ASSUME NEW p, NEW t, ~CapsRefused(p, t), Bounded(CapsOf(p, t), "max_per_tx")
  PROVE  VeeToWei(CapsOf(p, t)["max_per_tx"]) = CapsOf(p, t)["max_per_tx"]
<1>1. IsCap(CapsOf(p, t)["max_per_tx"])
  BY DEF CapsRefused, Bounded, Has
<1> QED BY <1>1, PolicyAssumption DEF IsCap, VeeToWei

(* A document the tool refuses a send under, the service refuses it under. *)
LEMMA RefusedByBoth ==
  ASSUME NEW read, NEW to, NEW amount, NEW t,
         read.is # "none", read.is # "unreadable",
         CheckLocally(read, to, amount, t) # "ok"
  PROVE  EnforcePolicy(read.doc, to, to, amount, t) # "ok"
<1> DEFINE p == read.doc
           caps == CapsOf(p, t)
<1>1. CASE CapsRefused(p, t)
  BY <1>1 DEF EnforcePolicy
<1>2. CASE ~CapsRefused(p, t)
  <2>1. ~LocalCapsRefused(p, t)
    BY <1>2, UnusableForBoth
  <2>2. CASE Bounded(caps, "max_per_tx") /\ amount > VeeToWei(caps["max_per_tx"])
    <3>1. amount > caps["max_per_tx"]
      BY <1>2, <2>2, SameWorth
    <3> QED BY <2>2, <3>1 DEF EnforcePolicy
  <2>3. CASE IsDenied(p, to) \/ ~IsAllowed(p, to)
    BY <2>3 DEF EnforcePolicy
  <2> QED BY <2>1, <2>2, <2>3 DEF CheckLocally
<1> QED BY <1>1, <1>2

(* The check inside the persona never forbids more than the boundary does: *)
(* what wallet-mcp refuses for a canonical name, chain-svc refuses, for    *)
(* every file, kind default, registry, amount and token.                   *)
THEOREM LocalRefusalIsFinal ==
  ASSUME NEW file, NEW kindDefault, NEW to, NEW lookup, NEW amount, NEW t
  PROVE  LocalRefusalStands(file, kindDefault, to, lookup, amount, t)
<1> SUFFICES ASSUME CheckLocally(LocalRead(file), to, amount, t) # "ok"
             PROVE  ServiceVerdict(file, kindDefault, to, to, lookup, amount, t)
                      # "ok"
  BY DEF LocalRefusalStands
<1>1. LocalRead(file).is # "none"
  BY DEF CheckLocally
<1>2. CASE ReadPolicyFile(file).is = "unreadable"
  <2>1. PolicyFor(file, kindDefault).is = "unreadable"
    BY <1>2 DEF PolicyFor
  <2> QED BY <2>1 DEF ServiceVerdict
<1>3. CASE ReadPolicyFile(file).is # "unreadable"
  <2>1. ReadPolicyFile(file) = LocalRead(file)
    BY <1>3, SameReading
  <2>2. PolicyFor(file, kindDefault) = LocalRead(file)
    BY <1>1, <2>1 DEF PolicyFor
  <2>3. LocalRead(file).is # "unreadable"
    BY <1>3, UnreadableForBoth
  <2>4. EnforcePolicy(LocalRead(file).doc, to, to, amount, t) # "ok"
    BY <1>1, <2>3, RefusedByBoth
  <2> QED BY <2>2, <2>3, <2>4 DEF ServiceVerdict
<1> QED BY <1>2, <1>3

-----------------------------------------------------------------------------
(* Every shape isPolicy accepts comes out of normalisePolicy, so no valid  *)
(* document becomes the marker that refuses every spend.                   *)
THEOREM GateAgreesWithReader ==
  ASSUME NEW p
  PROVE  GateAgrees(p)
<1> SUFFICES ASSUME IsPolicy(p), IsLegacy(p) => Default # NoToken
             PROVE  Normalise(p).is = "doc"
  BY DEF GateAgrees
<1>1. ListsUsable(p) /\ (Has(p, "caps") => AreCaps(p.caps))
      /\ (IsLegacy(p) => LegacyUsable(p))
  BY DEF IsPolicy, IsLegacy
<1>2. Normalise(p) = Doc(Normalised(p))
  BY <1>1 DEF Normalise
<1> QED BY <1>2 DEF Doc

-----------------------------------------------------------------------------
(* The tool and the service *)

Codes == {"none", "ok"} \cup Definite \cup Shaking
Answer == [code : Codes, tx : Calls \cup {NoTx}]
JobType ==
  {Idle} \cup [pc : {"resolving", "asking", "polling", "done"},
               id : {a.id : a \in Asks}, pay : {a.pay : a \in Asks}]
Entry == [pay : {a.pay : a \in Asks}, tx : Calls]

TypeOK ==
  /\ job \in [Calls -> JobType]
  /\ told \in [Calls -> Answer] /\ reply \in [Calls -> Answer]
  /\ ledger \in [DOMAIN ledger -> Entry] /\ disk \in [DOMAIN disk -> Entry]
  /\ post \in [Calls -> {"none", "coming", "reserved", "sent", "hashed",
                         "answered", "dead"}]
  /\ tx \in [Calls -> {"none", "pending", "mined", "reverted"}]
  /\ sent \in [Ids -> SUBSET Calls] /\ known \in [Ids -> SUBSET Calls]

(* The answers after which nothing was, or ever will be, sent.             *)
NothingSent == {"refused", "not_sent", "duplicate_intent"}

(* A request is where the tool's call and the answer to it say it is, and  *)
(* nothing goes out for it once the tool was told that nothing did.        *)
Place(j) ==
  /\ At(j, "idle") \/ At(j, "resolving") => post[j] = "none"
  /\ At(j, "done") <=> told[j].code # "none"
  /\ post[j] \in {"none", "coming", "reserved"} => tx[j] = "none"
  /\ post[j] # "answered" => reply[j] = NoAnswer
  /\ reply[j] # NoAnswer =>
       reply[j].code \in {"ok", "refused", "revert", "error", "intent_unresolved"}
  /\ reply[j].code = "ok" => reply[j].tx \in Calls
  /\ reply[j].code = "refused" => tx[j] = "none"
  /\ reply[j].code = "revert" => tx[j] \in {"none", "reverted"}
  /\ told[j].code \in NothingSent => tx[j] = "none"
  /\ told[j].code = "revert" => tx[j] \in {"none", "reverted"}
  /\ told[j].code \in Definite => post[j] \in {"none", "answered"}
PlacesOK == \A j \in Calls : Place(j)

(* One call has sent for an id, and what is known of the id is what it     *)
(* sent.                                                                   *)
SentOK ==
  /\ \A i \in Ids : /\ known[i] \subseteq sent[i]
                     /\ \A h \in sent[i] : /\ ~At(h, "idle") /\ IdOf(h) = i
                                            /\ tx[h] # "none"
  /\ \A j \in Calls :
       tx[j] # "none" => /\ ~At(j, "idle") /\ IdOf(j) \in Ids
                         /\ sent[IdOf(j)] = {j}

(* Calls begin in order, and of two for one payment under two ids the first*)
(* was said to have failed, or the payment is a strayed one.               *)
StraysOK ==
  \A j, k \in Calls :
    j < k /\ ~At(k, "idle") =>
      /\ ~At(j, "idle")
      /\ PayOf(j) = PayOf(k) /\ IdOf(j) # IdOf(k) /\ PayOf(k) \notin strayed
           => told[j].code \in Definite

-----------------------------------------------------------------------------
(* A hash stands for the payment it is entered for.                        *)
Settles(hash, pay) == ~At(hash, "idle") /\ PayOf(hash) = pay
Truthful(table) ==
  \A i \in DOMAIN table \ shaky : Settles(table[i].tx, table[i].pay)

(* While a call runs under an id that is not shaky, no other call under the*)
(* id has sent anything.                                                   *)
TruthTold(j) ==
  /\ told[j].code \in Shaking => IdOf(j) \in shaky
  /\ told[j].code = "ok" /\ IdOf(j) \notin shaky =>
       /\ IdOf(j) \in DOMAIN ledger
       /\ told[j].tx \in Calls /\ Settles(told[j].tx, PayOf(j))
  /\ reply[j].code = "ok" => reply[j].tx = j \/ reply[j].tx \in known[IdOf(j)]
Alone(j) ==
  Running(j) /\ IdOf(j) \notin shaky =>
    \A k \in Calls \ {j} :
      ~At(k, "idle") /\ IdOf(k) = IdOf(j) => told[k].code \in NothingSent

OkOK ==
  /\ Truthful(ledger) /\ Truthful(disk)
  /\ \A j \in Calls : TruthTold(j) /\ Alone(j)

Inv == TypeOK /\ PlacesOK /\ SentOK /\ StraysOK /\ OkOK

LEMMA CallsAreOrdered ==
  \A j, k \in Calls : j \in Int /\ k \in Int /\ (j # k => j < k \/ k < j)
BY AgentAssumption DEF Calls

LEMMA NoTxIsNoCall == NoTx \notin Calls
BY AgentAssumption DEF Calls, NoTx

(* What a step of the tool does to its own call, and to no other.          *)
LEMMA GotoMoves ==
  ASSUME job \in [Calls -> JobType], NEW j \in Calls, ~At(j, "idle"),
         NEW pc \in {"asking", "polling", "done"}, Goto(j, pc)
  PROVE  /\ job' \in [Calls -> JobType]
         /\ At(j, pc)' /\ IdOf(j)' = IdOf(j) /\ PayOf(j)' = PayOf(j)
         /\ \A k \in Calls : k # j => job'[k] = job[k]
<1>1. job[j] \in JobType /\ job[j].pc # "idle"
  BY DEF At
<1> DEFINE new == [job[j] EXCEPT !.pc = pc]
<1>2. job' = [job EXCEPT ![j] = new]
  BY DEF Goto
<1>3. new \in JobType /\ new.pc = pc /\ new.id = job[j].id /\ new.pay = job[j].pay
  BY <1>1 DEF JobType, Idle
<1> HIDE DEF new
<1> QED
  BY <1>2, <1>3 DEF At, IdOf, PayOf

LEMMA BeginMoves ==
  ASSUME job \in [Calls -> JobType], NEW j \in Calls, NEW ask \in Asks,
         NEW pc \in {"resolving", "asking", "done"},
         job' = [job EXCEPT ![j] = [pc |-> pc, id |-> ask.id, pay |-> ask.pay]]
  PROVE  /\ job' \in [Calls -> JobType]
         /\ At(j, pc)' /\ IdOf(j)' = ask.id /\ PayOf(j)' = ask.pay
         /\ \A k \in Calls : k # j => job'[k] = job[k]
<1> DEFINE new == [pc |-> pc, id |-> ask.id, pay |-> ask.pay]
<1>1. new \in JobType /\ new.pc = pc /\ new.id = ask.id /\ new.pay = ask.pay
  BY DEF JobType
<1>2. job' = [job EXCEPT ![j] = new]
  OBVIOUS
<1> HIDE DEF new
<1> QED
  BY <1>1, <1>2 DEF At, IdOf, PayOf

LEMMA TellSays ==
  ASSUME told \in [Calls -> Answer], NEW j \in Calls, NEW code \in Codes,
         NEW hash \in Calls \cup {NoTx}, Tell(j, code, hash)
  PROVE  /\ told' \in [Calls -> Answer]
         /\ told'[j].code = code /\ told'[j].tx = hash
         /\ \A k \in Calls : k # j => told'[k] = told[k]
         /\ Goto(j, "done")
         /\ shaky \subseteq shaky' /\ (code \in Shaking => IdOf(j) \in shaky')
<1> DEFINE new == [code |-> code, tx |-> hash]
<1>1. new \in Answer /\ new.code = code /\ new.tx = hash
  BY DEF Answer
<1>2. told' = [told EXCEPT ![j] = new]
  BY DEF Tell
<1> HIDE DEF new
<1> QED
  BY <1>1, <1>2 DEF Tell

LEMMA AnswersSay ==
  ASSUME reply \in [Calls -> Answer], NEW j \in Calls, NEW code \in Codes,
         NEW hash \in Calls \cup {NoTx}, Answers(j, code, hash)
  PROVE  /\ reply' \in [Calls -> Answer]
         /\ reply'[j].code = code /\ reply'[j].tx = hash
         /\ \A k \in Calls : k # j => reply'[k] = reply[k]
<1> DEFINE new == [code |-> code, tx |-> hash]
<1>1. new \in Answer /\ new.code = code /\ new.tx = hash
  BY DEF Answer
<1>2. reply' = [reply EXCEPT ![j] = new]
  BY DEF Answers
<1> HIDE DEF new
<1> QED
  BY <1>1, <1>2

-----------------------------------------------------------------------------
(* The kinds of steps *)

theRest == <<sent, known, tx>>

(* A call of the tool begins, and may end at once with what the ledger has.*)
Begins(j, ask, pc, code, hash) ==
  LET others == {k \in Calls \ {j} : ~At(k, "idle")} IN
  /\ At(j, "idle") /\ \A k \in Calls : k < j => ~At(k, "idle")
  /\ job' = [job EXCEPT ![j] = [pc |-> pc, id |-> ask.id, pay |-> ask.pay]]
  /\ strayed \subseteq strayed' /\ shaky \subseteq shaky'
  /\ \A k \in others :
       /\ PayOf(k) = ask.pay /\ IdOf(k) # ask.id /\ told[k].code \notin Definite
            => ask.pay \in strayed'
       /\ Running(k) /\ IdOf(k) = ask.id => ask.id \in shaky'
  /\ \/ /\ pc = "done" /\ ask.id \in DOMAIN ledger /\ post' = post
        /\ told' = [told EXCEPT ![j] = [code |-> code, tx |-> hash]]
        /\ \/ /\ code = "ok" /\ hash = ledger[ask.id].tx
              /\ ledger[ask.id].pay = ask.pay
           \/ code = "duplicate_intent" /\ hash = NoTx
     \/ /\ pc = "asking" /\ post' = [post EXCEPT ![j] = "coming"]
        /\ ask.id \notin DOMAIN ledger /\ told' = told
     \/ /\ pc = "resolving" /\ post' = post
        /\ ask.id \notin DOMAIN ledger /\ told' = told
  /\ UNCHANGED <<ledger, disk, reply, theRest>>

(* It sends its request, or asks what became of it.                        *)
Proceeds(j) ==
  /\ \/ At(j, "resolving") /\ Goto(j, "asking") /\ Post(j)
     \/ At(j, "asking") /\ Goto(j, "polling") /\ post' = post
  /\ UNCHANGED <<told, ledger, disk, reply, theRest, ghosts>>

(* It ends without a hash.                                                 *)
EndsEmpty(j, code) ==
  /\ Running(j) /\ code \in Codes \ {"none", "ok"} /\ Tell(j, code, NoTx)
  /\ \/ post' = post
     \/ post[j] = "coming" /\ post' = [post EXCEPT ![j] = "none"]
  /\ code \in NothingSent => post'[j] = "none" \/ reply[j].code = code
  /\ code = "revert" => reply[j].code = "revert"
  /\ UNCHANGED <<ledger, disk, reply, theRest, strayed>>

(* It was told a hash, and remembers it.                                   *)
EndsPaid(j, hash) ==
  /\ Running(j) /\ hash \in Calls
  /\ (reply[j].code = "ok" /\ hash = reply[j].tx) \/ hash \in known[IdOf(j)]
  /\ ledger' = [i \in DOMAIN ledger \cup {IdOf(j)} |->
                  IF i = IdOf(j) THEN [pay |-> PayOf(j), tx |-> hash]
                  ELSE ledger[i]]
  /\ \/ disk' = ledger' /\ Tell(j, "ok", hash)
     \/ disk' = disk /\ Tell(j, "thrown", NoTx)
  /\ UNCHANGED <<post, reply, theRest, strayed>>

(* The service answers.                                                    *)
Replies(j, code, hash) ==
  /\ post[j] \in {"coming", "reserved", "sent", "hashed"} /\ IdOf(j) \in Ids
  /\ hash \in Calls \cup {NoTx}
  /\ Answers(j, code, hash)
  /\ \/ code = "ok" /\ hash \in Calls /\ (hash = j \/ hash \in known[IdOf(j)])
     \/ code = "refused" /\ tx[j] = "none"
     \/ code = "revert" /\ tx[j] \in {"none", "reverted"}
     \/ code \in {"error", "intent_unresolved"}
  /\ UNCHANGED <<toolVars, theRest, ghosts>>

(* It takes the next step, which is not an answer.                         *)
Handles(j) ==
  /\ IdOf(j) \in Ids /\ UNCHANGED <<toolVars, reply, ghosts>>
  /\ \/ /\ post[j] = "coming" /\ post' = [post EXCEPT ![j] = "reserved"]
        /\ UNCHANGED theRest
     \/ /\ post[j] = "reserved" /\ post' = [post EXCEPT ![j] = "sent"]
        /\ sent[IdOf(j)] = {} /\ sent' = [sent EXCEPT ![IdOf(j)] = {j}]
        /\ tx' = [tx EXCEPT ![j] = "pending"] /\ known' = known
     \/ /\ post[j] = "sent" /\ post' = [post EXCEPT ![j] = "hashed"]
        /\ known' = [known EXCEPT ![IdOf(j)] = sent[IdOf(j)]]
        /\ known[IdOf(j)] = {} /\ UNCHANGED <<sent, tx>>

(* A transaction comes to its end, or is found by its emission.            *)
ChainMoves ==
  /\ UNCHANGED <<toolVars, post, reply, sent, ghosts>>
  /\ \/ /\ \E j \in Calls, end \in {"mined", "reverted"} :
             tx[j] = "pending" /\ tx' = [tx EXCEPT ![j] = end]
        /\ known' = known
     \/ /\ \E i \in Ids : /\ known[i] = {}
                          /\ known' = [known EXCEPT ![i] = sent[i]]
        /\ tx' = tx

(* The service stops; the tool stops and reads its file again; an edit.    *)
ServiceStops ==
  /\ post' = [j \in Calls |-> IF post[j] \in {"none", "coming", "answered"}
                              THEN post[j] ELSE "dead"]
  /\ UNCHANGED <<toolVars, reply, theRest, ghosts>>

ToolStops ==
  LET lost == {j \in Calls : Running(j)} IN
  /\ job' = [j \in Calls |-> IF j \in lost
                             THEN [job[j] EXCEPT !.pc = "done"] ELSE job[j]]
  /\ told' = [j \in Calls |-> IF j \in lost
                              THEN [code |-> "thrown", tx |-> NoTx] ELSE told[j]]
  /\ ledger' \in {disk, <<>>} /\ disk' = ledger'
  /\ shaky' = shaky \cup {IdOf(j) : j \in lost}
                    \cup (DOMAIN ledger \ DOMAIN ledger')
  /\ UNCHANGED <<post, reply, theRest, strayed>>

NothingMoves == UNCHANGED <<toolVars, post, reply, theRest, ghosts>>

AnyKind ==
  \/ \E j \in Calls :
       \/ \E ask \in Asks, pc \in {"resolving", "asking", "done"},
             code \in Codes, hash \in Calls \cup {NoTx} :
            Begins(j, ask, pc, code, hash)
       \/ Proceeds(j) \/ Handles(j)
       \/ \E code \in Codes : EndsEmpty(j, code)
       \/ \E hash \in Calls : EndsPaid(j, hash)
       \/ \E code \in Codes, hash \in Calls \cup {NoTx} : Replies(j, code, hash)
  \/ ChainMoves \/ ServiceStops \/ ToolStops \/ NothingMoves

LEMMA BeginIsBegins ==
  ASSUME TypeOK, NEW j \in Calls, NEW ask \in Asks, Begin(j, ask)
  PROVE  \E pc \in {"resolving", "asking", "done"}, code \in Codes,
            hash \in Calls \cup {NoTx} : Begins(j, ask, pc, code, hash)
<1> DEFINE others == {k \in Calls \ {j} : ~At(k, "idle")}
           elsewhere == {k \in others : /\ PayOf(k) = ask.pay /\ IdOf(k) # ask.id
                                        /\ told[k].code \notin Definite}
           overlap == \E k \in others : Running(k) /\ IdOf(k) = ask.id
           loose == IF overlap THEN shaky \cup {ask.id} ELSE shaky
           asked == [pc |-> "resolving", id |-> ask.id, pay |-> ask.pay]
<1>1. /\ At(j, "idle") /\ \A k \in 1..(j - 1) : k \in others
      /\ strayed' = IF elsewhere = {} THEN strayed ELSE strayed \cup {ask.pay}
      /\ shaky' = loose
      /\ UNCHANGED <<ledger, disk, reply, theRest>>
  BY DEF Begin, unposted, theRest
<1>2. \A k \in Calls : k < j => ~At(k, "idle")
  BY <1>1, AgentAssumption DEF Calls
<1>3. /\ strayed \subseteq strayed' /\ shaky \subseteq shaky'
      /\ \A k \in others :
           /\ PayOf(k) = ask.pay /\ IdOf(k) # ask.id /\ told[k].code \notin Definite
                => ask.pay \in strayed'
           /\ Running(k) /\ IdOf(k) = ask.id => ask.id \in shaky'
  BY <1>1
<1>4. /\ [asked EXCEPT !.pc = "done"]
           = [pc |-> "done", id |-> ask.id, pay |-> ask.pay]
      /\ [asked EXCEPT !.pc = "asking"]
           = [pc |-> "asking", id |-> ask.id, pay |-> ask.pay]
  OBVIOUS
<1>5. CASE ask.id \in DOMAIN ledger /\ SameRequest(ledger[ask.id], ask.pay)
  <2> DEFINE hash == ledger[ask.id].tx
  <2>1. hash \in Calls
    BY <1>5 DEF TypeOK, Entry
  <2>2. /\ job' = [job EXCEPT ![j] = [asked EXCEPT !.pc = "done"]]
        /\ told' = [told EXCEPT ![j] = [code |-> "ok", tx |-> hash]]
        /\ post' = post
    BY <1>5 DEF Begin
  <2>3. Begins(j, ask, "done", "ok", hash)
    BY <1>1, <1>2, <1>3, <1>4, <1>5, <2>2 DEF Begins, SameRequest
  <2> QED
    BY <2>1, <2>3 DEF Codes
<1>6. CASE ask.id \in DOMAIN ledger /\ ~SameRequest(ledger[ask.id], ask.pay)
  <2>1. /\ job' = [job EXCEPT ![j] = [asked EXCEPT !.pc = "done"]]
        /\ told' = [told EXCEPT ![j] = [code |-> "duplicate_intent", tx |-> NoTx]]
        /\ post' = post
    BY <1>6 DEF Begin
  <2>2. Begins(j, ask, "done", "duplicate_intent", NoTx)
    BY <1>1, <1>2, <1>3, <1>4, <1>6, <2>1 DEF Begins
  <2> QED
    BY <2>2 DEF Codes, Definite
<1>7. CASE ask.id \notin DOMAIN ledger /\ ask.pay.kind = "call"
  <2>1. /\ job' = [job EXCEPT ![j] = [asked EXCEPT !.pc = "asking"]]
        /\ post' = [post EXCEPT ![j] = "coming"] /\ told' = told
    BY <1>7 DEF Begin, Post
  <2>2. Begins(j, ask, "asking", "ok", NoTx)
    BY <1>1, <1>2, <1>3, <1>4, <1>7, <2>1 DEF Begins
  <2> QED
    BY <2>2 DEF Codes
<1>8. CASE ask.id \notin DOMAIN ledger /\ ask.pay.kind # "call"
  <2>1. job' = [job EXCEPT ![j] = asked] /\ post' = post /\ told' = told
    BY <1>8 DEF Begin
  <2>2. Begins(j, ask, "resolving", "ok", NoTx)
    BY <1>1, <1>2, <1>3, <1>8, <2>1 DEF Begins
  <2> QED
    BY <2>2 DEF Codes
<1> QED
  BY <1>5, <1>6, <1>7, <1>8

LEMMA RunningCalls ==
  ASSUME TypeOK, NEW j \in Calls, ~At(j, "idle")
  PROVE  IdOf(j) \in Ids /\ known[IdOf(j)] \subseteq Calls
<1>1. job[j] \in JobType /\ job[j].pc # "idle"
  BY DEF TypeOK, At
<1>2. IdOf(j) \in Ids
  BY <1>1, AgentAssumption DEF JobType, Idle, IdOf
<1> QED
  BY <1>2 DEF TypeOK

LEMMA RemembersIsEndsPaid ==
  ASSUME NEW j \in Calls, NEW hash \in Calls, Running(j), Remembers(j, hash),
         (reply[j].code = "ok" /\ hash = reply[j].tx) \/ hash \in known[IdOf(j)],
         UNCHANGED <<post, reply, theRest>>
  PROVE  EndsPaid(j, hash)
BY DEF Remembers, EndsPaid

LEMMA SayIsEndsEmpty ==
  ASSUME NEW j \in Calls, NEW code \in Codes \ {"none", "ok"}, Running(j),
         Say(j, code), post' = post,
         code \in NothingSent => post[j] = "none" \/ reply[j].code = code,
         code = "revert" => reply[j].code = "revert",
         UNCHANGED <<reply, theRest>>
  PROVE  EndsEmpty(j, code)
BY DEF Say, EndsEmpty

LEMMA HearsIsAKind ==
  ASSUME TypeOK, PlacesOK, NEW j \in Calls, Hears(j)
  PROVE  AnyKind
<1>1. /\ At(j, "asking") /\ reply[j] # NoAnswer
      /\ post' = post /\ UNCHANGED <<reply, theRest>>
  BY DEF Hears, svcVars, theRest
<1>2. Running(j)
  BY <1>1 DEF Running, At
<1>3. reply[j].code \in {"ok", "refused", "revert", "error", "intent_unresolved"}
  BY <1>1 DEF PlacesOK, Place
<1>4. CASE reply[j].code = "ok" /\ Remembers(j, reply[j].tx)
  <2>1. reply[j].tx \in Calls
    BY <1>4 DEF PlacesOK, Place
  <2>2. EndsPaid(j, reply[j].tx)
    BY <1>1, <1>2, <1>4, <2>1, RemembersIsEndsPaid
  <2> QED
    BY <2>1, <2>2 DEF AnyKind
<1>5. CASE /\ reply[j].code = "intent_unresolved" /\ Goto(j, "polling")
           /\ UNCHANGED <<told, ledger, disk, ghosts, faults>>
  <2>1. Proceeds(j)
    BY <1>1, <1>5 DEF Proceeds
  <2> QED
    BY <2>1 DEF AnyKind
<1>6. CASE reply[j].code \notin {"ok", "intent_unresolved"} /\ Say(j, reply[j].code)
  <2>1. reply[j].code \in Codes \ {"none", "ok"}
    BY <1>3, <1>6 DEF Codes, Definite, Shaking
  <2>2. EndsEmpty(j, reply[j].code)
    BY <1>1, <1>2, <1>6, <2>1, SayIsEndsEmpty
  <2> QED
    BY <2>1, <2>2 DEF AnyKind
<1>7. CASE Say(j, "error")
  <2>1. "error" \in Codes \ {"none", "ok"} /\ "error" \notin NothingSent
    BY DEF Codes, Definite, Shaking, NothingSent
  <2>2. EndsEmpty(j, "error")
    BY <1>1, <1>2, <1>7, <2>1, SayIsEndsEmpty
  <2> QED
    BY <2>1, <2>2 DEF AnyKind
<1> QED
  BY <1>4, <1>5, <1>6, <1>7 DEF Hears

LEMMA ToolIsAKind ==
  ASSUME TypeOK, PlacesOK, NEW j \in Calls,
         ToolSteps(j) \/ NotSent(j) \/ ConnectionReset(j)
  PROVE  AnyKind
<1> USE DEF svcVars, theRest, unposted
<1>1. \A c \in {"refused", "unknown", "intent_unresolved", "not_sent"} :
        c \in Codes \ {"none", "ok"} /\ c # "revert"
  BY DEF Codes, Definite, Shaking
<1>2. CASE ResolveFails(j)
  <2>1. Running(j) /\ post[j] = "none"
    BY <1>2 DEF ResolveFails, Running, At, PlacesOK, Place
  <2>2. EndsEmpty(j, "refused")
    BY <1>1, <1>2, <2>1, SayIsEndsEmpty DEF ResolveFails
  <2> QED
    BY <1>1, <2>2 DEF AnyKind
<1>3. CASE ChecksLocally(j)
  <2>1. Running(j) /\ post[j] = "none" /\ At(j, "resolving")
    BY <1>3 DEF ChecksLocally, Running, At, PlacesOK, Place
  <2>2. CASE Say(j, "refused") /\ UNCHANGED post
    <3>1. EndsEmpty(j, "refused")
      BY <1>1, <1>3, <2>1, <2>2, SayIsEndsEmpty DEF ChecksLocally
    <3> QED
      BY <1>1, <3>1 DEF AnyKind
  <2>3. CASE Goto(j, "asking") /\ Post(j) /\ UNCHANGED <<told, ledger, disk, ghosts>>
    <3>1. Proceeds(j)
      BY <1>3, <2>1, <2>3 DEF Proceeds, ChecksLocally
    <3> QED
      BY <3>1 DEF AnyKind
  <2> QED
    BY <1>3, <2>2, <2>3 DEF ChecksLocally
<1>4. CASE TimesOut(j)
  <2>1. Running(j) /\ Say(j, "unknown")
    BY <1>4 DEF TimesOut, Running, At, Classify
  <2>2. EndsEmpty(j, "unknown")
    BY <1>1, <1>4, <2>1, SayIsEndsEmpty DEF TimesOut, NothingSent
  <2> QED
    BY <1>1, <2>2 DEF AnyKind
<1>5. CASE Reconciles(j)
  <2>1. Running(j) /\ ~At(j, "idle")
    BY <1>5 DEF Reconciles, Running, At
  <2>2. PICK h \in known[IdOf(j)] : Remembers(j, h)
    BY <1>5 DEF Reconciles
  <2>3. h \in Calls
    BY <2>1, <2>2, RunningCalls
  <2>4. EndsPaid(j, h)
    BY <1>5, <2>1, <2>2, <2>3, RemembersIsEndsPaid DEF Reconciles
  <2> QED
    BY <2>3, <2>4 DEF AnyKind
<1>6. CASE GivesUp(j)
  <2>1. Running(j)
    BY <1>6 DEF GivesUp, Running, At
  <2>2. EndsEmpty(j, "intent_unresolved")
    BY <1>1, <1>6, <2>1, SayIsEndsEmpty DEF GivesUp, NothingSent
  <2> QED
    BY <1>1, <2>2 DEF AnyKind
<1>7. CASE NotSent(j)
  <2>1. /\ Running(j) /\ Say(j, "not_sent")
        /\ post[j] = "coming" /\ post' = [post EXCEPT ![j] = "none"]
    BY <1>7 DEF NotSent, Running, At, Classify
  <2>2. post'[j] = "none"
    BY <2>1 DEF TypeOK
  <2>3. EndsEmpty(j, "not_sent")
    BY <1>1, <1>7, <2>1, <2>2 DEF NotSent, EndsEmpty, Say
  <2> QED
    BY <1>1, <2>3 DEF AnyKind
<1>8. CASE ConnectionReset(j)
  <2>1. Running(j) /\ Say(j, "unknown")
    BY <1>8 DEF ConnectionReset, Running, At, Classify
  <2>2. EndsEmpty(j, "unknown")
    BY <1>1, <1>8, <2>1, SayIsEndsEmpty DEF ConnectionReset, NothingSent
  <2> QED
    BY <1>1, <2>2 DEF AnyKind
<1> QED
  BY <1>2, <1>3, <1>4, <1>5, <1>6, <1>7, <1>8, HearsIsAKind DEF ToolSteps

LEMMA ServiceIsAKind ==
  ASSUME TypeOK, PlacesOK, NEW j \in Calls, SvcSteps(j)
  PROVE  AnyKind
<1> USE DEF theRest, Aside
<1>1. \A c \in {"ok", "refused", "error", "revert", "intent_unresolved"} : c \in Codes
  BY DEF Codes, Definite, Shaking
<1>2. ASSUME NEW code \in Codes, NEW hash \in Calls \cup {NoTx},
             Replies(j, code, hash)
      PROVE  AnyKind
  BY <1>2 DEF AnyKind
<1>3. Handles(j) => AnyKind
  BY DEF AnyKind
<1>4. CASE SvcRefuses(j)
  <2>1. PICK code \in {"refused", "error"} : Answers(j, code, NoTx)
    BY <1>4 DEF SvcRefuses
  <2>2. tx[j] = "none"
    BY <1>4 DEF SvcRefuses, At2, PlacesOK, Place
  <2>3. Replies(j, code, NoTx)
    BY <1>4, <2>1, <2>2 DEF SvcRefuses, At2, Replies
  <2> QED
    BY <1>1, <1>2, <2>3
<1>5. CASE SvcReserves(j)
  <2>1. Handles(j)
    BY <1>5 DEF SvcReserves, At2, Handles, Svc!Take
  <2> QED
    BY <1>3, <2>1
<1>6. CASE SvcReplays(j)
  <2>1. /\ post[j] = "coming" /\ IdOf(j) \in Ids
        /\ UNCHANGED <<taken, sent, known, holder, tx>> /\ Aside
    BY <1>6 DEF SvcReplays, At2
  <2>2. \/ Answers(j, "error", NoTx) \/ Answers(j, "intent_unresolved", NoTx)
        \/ \E h \in known[IdOf(j)] : Answers(j, "ok", h)
    BY <1>6 DEF SvcReplays
  <2>3. CASE \E h \in known[IdOf(j)] : Answers(j, "ok", h)
    <3>1. PICK h \in known[IdOf(j)] : Answers(j, "ok", h)
      BY <2>3
    <3>2. h \in Calls
      BY <2>1 DEF TypeOK
    <3>3. Replies(j, "ok", h)
      BY <2>1, <3>1, <3>2 DEF Replies
    <3> QED
      BY <1>1, <1>2, <3>2, <3>3
  <2>4. CASE Answers(j, "error", NoTx)
    <3>1. Replies(j, "error", NoTx)
      BY <2>1, <2>4 DEF Replies
    <3> QED
      BY <1>1, <1>2, <3>1
  <2>5. CASE Answers(j, "intent_unresolved", NoTx)
    <3>1. Replies(j, "intent_unresolved", NoTx)
      BY <2>1, <2>5 DEF Replies
    <3> QED
      BY <1>1, <1>2, <3>1
  <2> QED
    BY <2>2, <2>3, <2>4, <2>5
<1>7. CASE SvcReleases(j)
  <2>1. PICK code \in {"revert", "error"} : Answers(j, code, NoTx)
    BY <1>7 DEF SvcReleases
  <2>2. tx[j] = "none"
    BY <1>7 DEF SvcReleases, At2, PlacesOK, Place
  <2>3. Replies(j, code, NoTx)
    BY <1>7, <2>1, <2>2 DEF SvcReleases, At2, Replies, Svc!GiveBack
  <2> QED
    BY <1>1, <1>2, <2>3
<1>8. CASE SvcSends(j)
  <2>1. PICK h : sent' = [sent EXCEPT ![IdOf(j)] = {h}]
    BY <1>8 DEF SvcSends, Svc!SendOut
  <2>2. IdOf(j) \in Ids /\ sent'[IdOf(j)] = {j}
    BY <1>8 DEF SvcSends, At2
  <2>3. sent' = [sent EXCEPT ![IdOf(j)] = {j}]
    BY <2>1, <2>2 DEF TypeOK
  <2>4. Handles(j)
    BY <1>8, <2>2, <2>3 DEF SvcSends, At2, Handles, Svc!SendOut
  <2> QED
    BY <1>3, <2>4
<1>9. CASE SvcLosesTrack(j)
  <2>1. Replies(j, "error", NoTx)
    BY <1>9 DEF SvcLosesTrack, At2, Replies
  <2> QED
    BY <1>1, <1>2, <2>1
<1>10. CASE SvcLearns(j)
  <2>1. Handles(j)
    BY <1>10 DEF SvcLearns, At2, Handles, Svc!Learn
  <2> QED
    BY <1>3, <2>1
<1>11. CASE SvcHasReceipt(j)
  <2>1. CASE Answers(j, "revert", NoTx) /\ tx[j] = "reverted"
    <3>1. Replies(j, "revert", NoTx)
      BY <1>11, <2>1 DEF SvcHasReceipt, At2, Replies
    <3> QED
      BY <1>1, <1>2, <3>1
  <2>2. CASE Answers(j, "ok", j)
    <3>1. Replies(j, "ok", j)
      BY <1>11, <2>2 DEF SvcHasReceipt, At2, Replies
    <3> QED
      BY <1>1, <1>2, <3>1
  <2> QED
    BY <1>11, <2>1, <2>2 DEF SvcHasReceipt
<1> QED
  BY <1>4, <1>5, <1>6, <1>7, <1>8, <1>9, <1>10, <1>11 DEF SvcSteps

(* Every step of the system is of one of the kinds.                        *)
LEMMA StepIsAKind ==
  ASSUME TypeOK, PlacesOK, [Next]_vars
  PROVE  AnyKind
<1> USE DEF theRest
<1>1. ASSUME NEW j \in Calls, NEW ask \in Asks, Begin(j, ask)
      PROVE  AnyKind
  <2>1. PICK pc \in {"resolving", "asking", "done"}, code \in Codes,
            hash \in Calls \cup {NoTx} : Begins(j, ask, pc, code, hash)
    BY <1>1, BeginIsBegins
  <2> QED
    BY <2>1 DEF AnyKind
<1>2. ASSUME NEW j \in Calls, Mine(j)
      PROVE  AnyKind
  <2>1. ChainMoves
    BY <1>2 DEF Mine, Aside, ChainMoves
  <2> QED
    BY <2>1 DEF AnyKind
<1>3. ASSUME NEW i \in Ids, SweepLearns(i)
      PROVE  AnyKind
  <2>1. ChainMoves
    BY <1>3 DEF SweepLearns, Svc!Learn, Aside, ChainMoves
  <2> QED
    BY <2>1 DEF AnyKind
<1>4. CASE SvcCrashes
  <2>1. ServiceStops
    BY <1>4 DEF SvcCrashes, unposted, ServiceStops
  <2> QED
    BY <2>1 DEF AnyKind
<1>5. CASE ToolDies
  <2>1. ToolStops
    BY <1>5 DEF ToolDies, svcVars, ToolStops
  <2> QED
    BY <2>1 DEF AnyKind
<1>6. CASE OperatorEdits \/ UNCHANGED vars
  <2>1. NothingMoves
    BY <1>6 DEF OperatorEdits, vars, svcVars, NothingMoves
  <2> QED
    BY <2>1 DEF AnyKind
<1> QED
  BY <1>1, <1>2, <1>3, <1>4, <1>5, <1>6, ToolIsAKind, ServiceIsAKind DEF Next

-----------------------------------------------------------------------------
(* Every kind of step keeps the invariant *)

LEMMA EndsEmptyKeeps ==
  ASSUME Inv, NEW j \in Calls, NEW code \in Codes, EndsEmpty(j, code)
  PROVE  Inv'
<1> USE DEF Inv
<1>1. /\ Running(j) /\ code # "none" /\ code # "ok"
      /\ Tell(j, code, NoTx)
      /\ UNCHANGED <<ledger, disk, reply, sent, known, tx, strayed>>
  BY DEF EndsEmpty, theRest
<1>2. ~At(j, "idle") /\ ~At(j, "done")
  BY <1>1 DEF Running
<1>3. /\ told' \in [Calls -> Answer]
      /\ told'[j].code = code /\ told'[j].tx = NoTx
      /\ \A k \in Calls : k # j => told'[k] = told[k]
      /\ shaky \subseteq shaky' /\ (code \in Shaking => IdOf(j) \in shaky')
  BY <1>1, TellSays DEF TypeOK
<1>4. /\ job' \in [Calls -> JobType]
      /\ At(j, "done")' /\ IdOf(j)' = IdOf(j) /\ PayOf(j)' = PayOf(j)
      /\ \A k \in Calls : k # j => job'[k] = job[k]
  BY <1>1, <1>2, TellSays, GotoMoves DEF TypeOK
<1>5. /\ post' \in [Calls -> {"none", "coming", "reserved", "sent", "hashed",
                             "answered", "dead"}]
      /\ \A k \in Calls : k # j => post'[k] = post[k]
      /\ post'[j] = post[j] \/ (post[j] = "coming" /\ post'[j] = "none")
  BY DEF EndsEmpty, TypeOK
<1>6. \A k \in Calls : /\ IdOf(k)' = IdOf(k) /\ PayOf(k)' = PayOf(k)
                       /\ At(k, "idle")' <=> At(k, "idle")
  BY <1>2, <1>4 DEF IdOf, PayOf, At
<1>7. TypeOK'
  BY <1>1, <1>3, <1>4, <1>5 DEF TypeOK
<1>8. PlacesOK'
  <2>1. ASSUME NEW k \in Calls, k # j
        PROVE  Place(k)'
    BY <1>1, <1>3, <1>4, <1>5, <2>1 DEF PlacesOK, Place, At
  <2>2. Place(j)
    BY DEF PlacesOK
  <2>3. tx[j] = tx'[j] /\ reply'[j] = reply[j]
    BY <1>1
  <2>4. code \in NothingSent => tx[j] = "none" /\ post'[j] \in {"none", "answered"}
    <3>1. CASE code \in NothingSent /\ post'[j] = "none"
      BY <1>5, <2>2, <3>1 DEF Place
    <3>2. CASE code \in NothingSent /\ reply[j].code = code
      <4>1. reply[j] # NoAnswer
        BY <1>1, <3>2 DEF NoAnswer
      <4>2. code = "refused" /\ post[j] = "answered"
        BY <2>2, <3>2, <4>1 DEF Place, NothingSent
      <4> QED
        BY <1>5, <2>2, <3>2, <4>2 DEF Place
    <3> QED
      BY <3>1, <3>2 DEF EndsEmpty
  <2>5. code = "revert" => tx[j] \in {"none", "reverted"} /\ post'[j] = "answered"
    <3>1. CASE code = "revert"
      <4>1. reply[j].code = "revert" /\ reply[j] # NoAnswer
        BY <3>1 DEF EndsEmpty, NoAnswer
      <4> QED
        BY <1>5, <2>2, <4>1 DEF Place
    <3> QED
      BY <3>1
  <2>6. Place(j)'
    <3>1. ~At(j, "idle")' /\ ~At(j, "resolving")'
      BY <1>4 DEF At
    <3> QED
      BY <1>1, <1>3, <1>4, <1>5, <2>2, <2>3, <2>4, <2>5, <3>1
         DEF Place, Definite, NothingSent
  <2> QED
    BY <2>1, <2>6 DEF PlacesOK
<1>9. SentOK'
  BY <1>1, <1>6 DEF SentOK, TypeOK
<1>10. StraysOK'
  <2>1. told[j].code \notin Definite
    BY <1>2 DEF PlacesOK, Place, Definite
  <2> QED
    BY <1>1, <1>3, <1>6, <2>1 DEF StraysOK
<1>11. OkOK'
  <2>1. Truthful(ledger)' /\ Truthful(disk)'
    BY <1>1, <1>3, <1>6 DEF OkOK, Truthful, Settles, TypeOK, Entry
  <2>2. ASSUME NEW k \in Calls
        PROVE  TruthTold(k)'
    BY <1>1, <1>3, <1>6 DEF OkOK, TruthTold, Settles
  <2>3. ASSUME NEW k \in Calls
        PROVE  Alone(k)'
    <3> SUFFICES ASSUME Running(k)', IdOf(k) \notin shaky',
                        NEW i \in Calls \ {k}, ~At(i, "idle"), IdOf(i) = IdOf(k)
                 PROVE  told'[i].code \in NothingSent
      BY <1>6 DEF Alone
    <3>1. k # j /\ Running(k)
      BY <1>4 DEF Running, At
    <3>2. told[i].code \in NothingSent
      BY <1>3, <3>1 DEF OkOK, Alone
    <3>3. i # j
      <4>1. told[j].code = "none"
        BY <1>2 DEF PlacesOK, Place
      <4> QED
        BY <3>2, <4>1 DEF NothingSent
    <3> QED
      BY <1>3, <3>2, <3>3
  <2> QED
    BY <2>1, <2>2, <2>3 DEF OkOK
<1> QED
  BY <1>7, <1>8, <1>9, <1>10, <1>11

(* A hash that is known, or was answered, for an id that is not shaky is   *)
(* that of the one call which runs under the id.                           *)
LEMMA AnsweredHashIsOurs ==
  ASSUME Inv, NEW j \in Calls, Running(j), NEW hash \in Calls,
         (reply[j].code = "ok" /\ hash = reply[j].tx) \/ hash \in known[IdOf(j)],
         IdOf(j) \notin shaky
  PROVE  hash = j
<1> USE DEF Inv
<1>1. ~At(j, "idle") /\ IdOf(j) \in Ids
  BY RunningCalls DEF Running
<1>2. CASE hash \in known[IdOf(j)]
  <2>1. ~At(hash, "idle") /\ IdOf(hash) = IdOf(j) /\ tx[hash] # "none"
    BY <1>1, <1>2 DEF SentOK
  <2>2. hash # j => told[hash].code \in NothingSent
    BY <2>1 DEF OkOK, Alone
  <2> QED
    BY <2>1, <2>2 DEF PlacesOK, Place
<1> QED
  BY <1>2 DEF OkOK, TruthTold

LEMMA EndsPaidKeeps ==
  ASSUME Inv, NEW j \in Calls, NEW hash \in Calls, EndsPaid(j, hash)
  PROVE  Inv'
<1> USE DEF Inv
<1>1. /\ Running(j)
      /\ (reply[j].code = "ok" /\ hash = reply[j].tx) \/ hash \in known[IdOf(j)]
      /\ UNCHANGED <<post, reply, sent, known, tx, strayed>>
  BY DEF EndsPaid, theRest
<1>2. ~At(j, "idle") /\ ~At(j, "done")
  BY <1>1 DEF Running
<1>3. PICK code \in {"ok", "thrown"} :
        /\ Tell(j, code, IF code = "ok" THEN hash ELSE NoTx)
        /\ disk' = disk \/ disk' = ledger'
  BY DEF EndsPaid
<1> DEFINE tellHash == IF code = "ok" THEN hash ELSE NoTx
<1>4. /\ told' \in [Calls -> Answer]
      /\ told'[j].code = code /\ (code = "ok" => told'[j].tx = hash)
      /\ \A k \in Calls : k # j => told'[k] = told[k]
      /\ Goto(j, "done")
      /\ shaky \subseteq shaky' /\ (code \in Shaking => IdOf(j) \in shaky')
  <2>1. code \in Codes /\ tellHash \in Calls \cup {NoTx}
    BY DEF Codes, Shaking
  <2>2. Tell(j, code, tellHash)
    BY <1>3
  <2>3. code = "ok" => tellHash = hash
    OBVIOUS
  <2> HIDE DEF tellHash
  <2> QED
    BY <2>1, <2>2, <2>3, TellSays DEF TypeOK
<1>5. /\ job' \in [Calls -> JobType]
      /\ At(j, "done")' /\ IdOf(j)' = IdOf(j) /\ PayOf(j)' = PayOf(j)
      /\ \A k \in Calls : k # j => job'[k] = job[k]
  BY <1>4, <1>2, GotoMoves DEF TypeOK
<1>6. \A k \in Calls : /\ IdOf(k)' = IdOf(k) /\ PayOf(k)' = PayOf(k)
                       /\ At(k, "idle")' <=> At(k, "idle")
  BY <1>2, <1>5 DEF IdOf, PayOf, At
<1> DEFINE i == IdOf(j)
           entry == [pay |-> PayOf(j), tx |-> hash]
<1>7. entry \in Entry
  <2>1. job[j] \in JobType /\ job[j].pc # "idle"
    BY <1>2 DEF TypeOK, At
  <2> QED
    BY <2>1 DEF JobType, Idle, PayOf, Entry
<1>8. /\ DOMAIN ledger' = DOMAIN ledger \cup {i} /\ ledger'[i] = entry
      /\ \A k \in DOMAIN ledger : k # i => ledger'[k] = ledger[k]
      /\ ledger' = [k \in DOMAIN ledger' |-> ledger'[k]]
  BY DEF EndsPaid
<1>9. entry.tx = hash /\ entry.pay = PayOf(j)
  OBVIOUS
<1> HIDE DEF entry
<1>10. ledger' \in [DOMAIN ledger' -> Entry]
  BY <1>7, <1>8 DEF TypeOK
<1>11. disk' \in [DOMAIN disk' -> Entry]
  BY <1>3, <1>10 DEF TypeOK
<1>12. TypeOK'
  BY <1>1, <1>4, <1>5, <1>10, <1>11 DEF TypeOK
<1>13. PlacesOK'
  <2>1. ASSUME NEW k \in Calls, k # j
        PROVE  Place(k)'
    BY <1>1, <1>4, <1>5, <2>1 DEF PlacesOK, Place, At
  <2>2. ~At(j, "idle")' /\ ~At(j, "resolving")'
    BY <1>5 DEF At
  <2>3. Place(j)'
    BY <1>1, <1>4, <1>5, <2>2 DEF PlacesOK, Place, Definite, NothingSent
  <2> QED
    BY <2>1, <2>3 DEF PlacesOK
<1>14. SentOK'
  BY <1>1, <1>6 DEF SentOK, TypeOK
<1>15. StraysOK'
  <2>1. told[j].code \notin Definite
    BY <1>2 DEF PlacesOK, Place, Definite
  <2> QED
    BY <1>1, <1>4, <1>6, <2>1 DEF StraysOK
<1>16. OkOK'
  <2>1. i \notin shaky => hash = j
    BY <1>1, AnsweredHashIsOurs
  <2>2. i \notin shaky' => ~At(hash, "idle")' /\ PayOf(hash)' = PayOf(j)
    BY <1>2, <1>4, <1>6, <2>1
  <2>3. Truthful(ledger)'
    <3> SUFFICES ASSUME NEW k \in DOMAIN ledger' \ shaky'
                 PROVE  Settles(ledger[k].tx, ledger[k].pay)'
      BY DEF Truthful
    <3>1. CASE k = i
      BY <1>8, <1>9, <2>2, <3>1 DEF Settles
    <3>2. CASE k # i
      <4>1. k \in DOMAIN ledger /\ ledger'[k] = ledger[k] /\ k \notin shaky
        BY <1>4, <1>8, <3>2
      <4>2. ledger[k].tx \in Calls
        BY <4>1 DEF TypeOK, Entry
      <4>3. Settles(ledger[k].tx, ledger[k].pay)
        BY <4>1 DEF OkOK, Truthful
      <4> QED
        BY <1>6, <4>1, <4>2, <4>3 DEF Settles
    <3> QED
      BY <3>1, <3>2
  <2>4. Truthful(disk)'
    <3>1. CASE disk' = ledger'
      BY <2>3, <3>1 DEF Truthful
    <3>2. CASE disk' = disk
      BY <1>4, <1>6, <3>2 DEF OkOK, Truthful, Settles, TypeOK, Entry
    <3> QED
      BY <1>3, <3>1, <3>2
  <2>5. ASSUME NEW k \in Calls
        PROVE  TruthTold(k)'
    <3>1. CASE k = j
      BY <1>1, <1>4, <1>6, <1>8, <2>2, <3>1 DEF OkOK, TruthTold, Settles
    <3>2. CASE k # j
      <4>1. TruthTold(k) /\ told'[k] = told[k]
        BY <1>4, <3>2 DEF OkOK
      <4> QED
        BY <1>1, <1>4, <1>6, <1>8, <4>1 DEF TruthTold, Settles
    <3> QED
      BY <3>1, <3>2
  <2>6. ASSUME NEW k \in Calls
        PROVE  Alone(k)'
    <3> SUFFICES ASSUME Running(k)', IdOf(k) \notin shaky',
                        NEW c \in Calls \ {k}, ~At(c, "idle"), IdOf(c) = IdOf(k)
                 PROVE  told'[c].code \in NothingSent
      BY <1>6 DEF Alone
    <3>1. k # j /\ Running(k)
      BY <1>5 DEF Running, At
    <3>2. told[c].code \in NothingSent
      BY <1>4, <3>1 DEF OkOK, Alone
    <3>3. c # j
      <4>1. told[j].code = "none"
        BY <1>2 DEF PlacesOK, Place
      <4> QED
        BY <3>2, <4>1 DEF NothingSent
    <3> QED
      BY <1>4, <3>2, <3>3
  <2> QED
    BY <2>3, <2>4, <2>5, <2>6 DEF OkOK
<1> QED
  BY <1>12, <1>13, <1>14, <1>15, <1>16

LEMMA ProceedsKeeps ==
  ASSUME Inv, NEW j \in Calls, Proceeds(j)
  PROVE  Inv'
<1> USE DEF Inv
<1>1. UNCHANGED <<told, ledger, disk, reply, sent, known, tx, strayed, shaky>>
  BY DEF Proceeds, theRest, ghosts
<1>2. PICK pc \in {"asking", "polling"} :
        /\ Goto(j, pc)
        /\ \/ pc = "asking" /\ At(j, "resolving") /\ Post(j)
           \/ pc = "polling" /\ At(j, "asking") /\ post' = post
  BY DEF Proceeds
<1>3. ~At(j, "idle") /\ Running(j)
  BY <1>2 DEF At, Running
<1>4. /\ job' \in [Calls -> JobType]
      /\ At(j, pc)' /\ IdOf(j)' = IdOf(j) /\ PayOf(j)' = PayOf(j)
      /\ \A k \in Calls : k # j => job'[k] = job[k]
  BY <1>2, <1>3, GotoMoves DEF TypeOK
<1>5. \A k \in Calls : /\ IdOf(k)' = IdOf(k) /\ PayOf(k)' = PayOf(k)
                       /\ At(k, "idle")' <=> At(k, "idle")
                       /\ At(k, "done")' <=> At(k, "done")
                       /\ Running(k)' <=> Running(k)
  BY <1>3, <1>4 DEF IdOf, PayOf, At, Running
<1>6. /\ post' \in [Calls -> {"none", "coming", "reserved", "sent", "hashed",
                             "answered", "dead"}]
      /\ \A k \in Calls : k # j => post'[k] = post[k]
      /\ post'[j] = post[j] \/ (At(j, "resolving") /\ post'[j] = "coming")
  BY <1>2 DEF Post, TypeOK
<1>7. TypeOK'
  BY <1>1, <1>4, <1>6 DEF TypeOK
<1>8. PlacesOK'
  <2>1. ASSUME NEW k \in Calls, k # j
        PROVE  Place(k)'
    BY <1>1, <1>4, <1>6, <2>1 DEF PlacesOK, Place, At
  <2>2. ~At(j, "idle")' /\ ~At(j, "resolving")' /\ ~At(j, "done")
    BY <1>3, <1>4 DEF At, Running
  <2>3. told[j].code = "none"
    BY <2>2 DEF PlacesOK, Place
  <2>4. Place(j)'
    BY <1>1, <1>4, <1>5, <1>6, <2>2, <2>3 DEF PlacesOK, Place, Definite, NothingSent
  <2> QED
    BY <2>1, <2>4 DEF PlacesOK
<1>9. SentOK'
  BY <1>1, <1>5 DEF SentOK, TypeOK
<1>10. StraysOK'
  BY <1>1, <1>5 DEF StraysOK
<1>11. OkOK'
  <2>1. Truthful(ledger)' /\ Truthful(disk)'
    BY <1>1, <1>5 DEF OkOK, Truthful, Settles, TypeOK, Entry
  <2>2. ASSUME NEW k \in Calls
        PROVE  TruthTold(k)' /\ Alone(k)'
    BY <1>1, <1>5 DEF OkOK, TruthTold, Alone, Settles
  <2> QED
    BY <2>1, <2>2 DEF OkOK
<1> QED
  BY <1>7, <1>8, <1>9, <1>10, <1>11

(* The service's steps leave the tool alone.                               *)
LEMMA ToolUntouched ==
  ASSUME Inv, UNCHANGED <<toolVars, ghosts>>
  PROVE  /\ StraysOK'
         /\ Truthful(ledger)' /\ Truthful(disk)'
         /\ \A k \in Calls : Alone(k)'
         /\ \A k \in Calls : /\ IdOf(k)' = IdOf(k) /\ PayOf(k)' = PayOf(k)
                             /\ \A pc \in STRING : At(k, pc)' <=> At(k, pc)
<1> USE DEF Inv, toolVars, ghosts, IdOf, PayOf, At
<1>1. StraysOK'
  BY DEF StraysOK
<1>2. Truthful(ledger)' /\ Truthful(disk)'
  BY DEF OkOK, Truthful, Settles
<1>3. \A k \in Calls : Alone(k)'
  BY DEF OkOK, Alone, Running
<1> QED
  BY <1>1, <1>2, <1>3

LEMMA RepliesKeeps ==
  ASSUME Inv, NEW j \in Calls, NEW code \in Codes, NEW hash \in Calls \cup {NoTx},
         Replies(j, code, hash)
  PROVE  Inv'
<1> USE DEF Inv
<1>1. /\ post[j] \in {"coming", "reserved", "sent", "hashed"}
      /\ UNCHANGED <<job, told, ledger, disk, sent, known, tx, strayed, shaky>>
      /\ UNCHANGED <<toolVars, ghosts>>
  BY DEF Replies, theRest, toolVars, ghosts
<1>2. /\ reply' \in [Calls -> Answer]
      /\ reply'[j].code = code /\ reply'[j].tx = hash
      /\ \A k \in Calls : k # j => reply'[k] = reply[k]
  BY AnswersSay DEF Replies, TypeOK
<1>3. /\ post' \in [Calls -> {"none", "coming", "reserved", "sent", "hashed",
                             "answered", "dead"}]
      /\ post'[j] = "answered"
      /\ \A k \in Calls : k # j => post'[k] = post[k]
  BY DEF Replies, Answers, TypeOK
<1>4. \/ code = "ok" /\ hash \in Calls /\ (hash = j \/ hash \in known[IdOf(j)])
      \/ code = "refused" /\ tx[j] = "none"
      \/ code = "revert" /\ tx[j] \in {"none", "reverted"}
      \/ code \in {"error", "intent_unresolved"}
  BY DEF Replies
<1>5. TypeOK'
  BY <1>1, <1>2, <1>3 DEF TypeOK
<1>6. PlacesOK'
  <2>1. ASSUME NEW k \in Calls, k # j
        PROVE  Place(k)'
    BY <1>1, <1>2, <1>3, <2>1 DEF PlacesOK, Place, At
  <2>2. Place(j)'
    BY <1>1, <1>2, <1>3, <1>4 DEF PlacesOK, Place, At, Definite, NothingSent
  <2> QED
    BY <2>1, <2>2 DEF PlacesOK
<1>7. SentOK'
  BY <1>1 DEF SentOK, At, IdOf, TypeOK
<1>8. OkOK'
  <2>1. \A k \in Calls : TruthTold(k)'
    BY <1>1, <1>2, <1>4 DEF OkOK, TruthTold, Settles, At, IdOf, PayOf
  <2> QED
    BY <1>1, <2>1, ToolUntouched DEF OkOK
<1> QED
  BY <1>1, <1>5, <1>6, <1>7, <1>8, ToolUntouched

LEMMA HandlesKeeps ==
  ASSUME Inv, NEW j \in Calls, Handles(j)
  PROVE  Inv'
<1> USE DEF Inv
<1>1. /\ UNCHANGED <<job, told, ledger, disk, reply, strayed, shaky>>
      /\ UNCHANGED <<toolVars, ghosts>> /\ IdOf(j) \in Ids
  BY DEF Handles, toolVars, ghosts
<1>2. CASE /\ post[j] = "coming" /\ post' = [post EXCEPT ![j] = "reserved"]
           /\ UNCHANGED theRest
  <2>1. UNCHANGED <<sent, known, tx>>
    BY <1>2 DEF theRest
  <2>2. /\ post' \in [Calls -> {"none", "coming", "reserved", "sent", "hashed",
                               "answered", "dead"}]
        /\ post'[j] = "reserved" /\ \A k \in Calls : k # j => post'[k] = post[k]
    BY <1>2 DEF TypeOK
  <2>3. TypeOK'
    BY <1>1, <2>1, <2>2 DEF TypeOK
  <2>4. PlacesOK'
    BY <1>1, <1>2, <2>1, <2>2 DEF PlacesOK, Place, At
  <2>5. SentOK'
    BY <1>1, <2>1 DEF SentOK, At, IdOf, TypeOK
  <2>6. \A k \in Calls : TruthTold(k)'
    BY <1>1, <2>1 DEF OkOK, TruthTold, Settles, At, IdOf, PayOf
  <2> QED
    BY <1>1, <2>3, <2>4, <2>5, <2>6, ToolUntouched DEF OkOK
<1>3. CASE /\ post[j] = "reserved" /\ post' = [post EXCEPT ![j] = "sent"]
           /\ sent[IdOf(j)] = {} /\ sent' = [sent EXCEPT ![IdOf(j)] = {j}]
           /\ tx' = [tx EXCEPT ![j] = "pending"] /\ known' = known
  <2> DEFINE i == IdOf(j)
  <2>1. ~At(j, "idle") /\ tx[j] = "none" /\ told[j].code \notin Definite
        /\ reply[j] = NoAnswer
    BY <1>3 DEF PlacesOK, Place
  <2>2. /\ post' \in [Calls -> {"none", "coming", "reserved", "sent", "hashed",
                               "answered", "dead"}]
        /\ post'[j] = "sent" /\ \A k \in Calls : k # j => post'[k] = post[k]
        /\ tx' \in [Calls -> {"none", "pending", "mined", "reverted"}]
        /\ tx'[j] = "pending" /\ \A k \in Calls : k # j => tx'[k] = tx[k]
    BY <1>3 DEF TypeOK
  <2>3. /\ sent' \in [Ids -> SUBSET Calls] /\ sent'[i] = {j}
        /\ \A k \in Ids : k # i => sent'[k] = sent[k]
    BY <1>1, <1>3 DEF TypeOK
  <2>4. TypeOK'
    BY <1>1, <1>3, <2>2, <2>3 DEF TypeOK
  <2>5. PlacesOK'
    <3>1. ASSUME NEW k \in Calls, k # j
          PROVE  Place(k)'
      BY <1>1, <2>2, <3>1 DEF PlacesOK, Place, At
    <3>2. Place(j)'
      BY <1>1, <1>3, <2>1, <2>2 DEF PlacesOK, Place, At, Definite, NothingSent, NoAnswer
    <3> QED
      BY <3>1, <3>2 DEF PlacesOK
  <2>6. SentOK'
    <3>1. ASSUME NEW k \in Ids
          PROVE  /\ known'[k] \subseteq sent'[k]
                 /\ \A h \in sent'[k] : ~At(h, "idle")' /\ IdOf(h)' = k /\ tx'[h] # "none"
      <4>1. CASE k = i
        BY <1>1, <1>3, <2>1, <2>2, <2>3, <4>1 DEF SentOK, At, IdOf
      <4>2. CASE k # i
        BY <1>1, <1>3, <2>2, <2>3, <4>2 DEF SentOK, At, IdOf, TypeOK
      <4> QED
        BY <4>1, <4>2
    <3>2. ASSUME NEW k \in Calls, tx'[k] # "none"
          PROVE  ~At(k, "idle")' /\ IdOf(k)' \in Ids /\ sent'[IdOf(k)'] = {k}
      <4>1. CASE k = j
        BY <1>1, <2>1, <2>3, <4>1 DEF At, IdOf
      <4>2. CASE k # j
        <5>1. ~At(k, "idle") /\ IdOf(k) \in Ids /\ sent[IdOf(k)] = {k}
          BY <2>2, <3>2, <4>2 DEF SentOK
        <5>2. IdOf(k) # i
          BY <1>3, <5>1
        <5> QED
          BY <1>1, <2>3, <5>1, <5>2 DEF At, IdOf
      <4> QED
        BY <4>1, <4>2
    <3> QED
      BY <3>1, <3>2 DEF SentOK
  <2>7. \A k \in Calls : TruthTold(k)'
    BY <1>1, <1>3 DEF OkOK, TruthTold, Settles, At, IdOf, PayOf
  <2> QED
    BY <1>1, <2>4, <2>5, <2>6, <2>7, ToolUntouched DEF OkOK
<1>4. CASE /\ post[j] = "sent" /\ post' = [post EXCEPT ![j] = "hashed"]
           /\ known' = [known EXCEPT ![IdOf(j)] = sent[IdOf(j)]]
           /\ known[IdOf(j)] = {} /\ UNCHANGED <<sent, tx>>
  <2>1. /\ post' \in [Calls -> {"none", "coming", "reserved", "sent", "hashed",
                               "answered", "dead"}]
        /\ post'[j] = "hashed" /\ \A k \in Calls : k # j => post'[k] = post[k]
    BY <1>4 DEF TypeOK
  <2>2. /\ known' \in [Ids -> SUBSET Calls]
        /\ \A k \in Ids : /\ known[k] \subseteq known'[k]
                          /\ known'[k] = known[k] \/ known'[k] = sent[k]
    BY <1>1, <1>4 DEF TypeOK
  <2>3. TypeOK'
    BY <1>1, <1>4, <2>1, <2>2 DEF TypeOK
  <2>4. PlacesOK'
    BY <1>1, <1>4, <2>1 DEF PlacesOK, Place, At, Definite
  <2>5. SentOK'
    BY <1>1, <1>4, <2>2 DEF SentOK, At, IdOf, TypeOK
  <2>6. \A k \in Calls : TruthTold(k)'
    <3> TAKE k \in Calls
    <3>1. reply[k].code = "ok" => IdOf(k) \in Ids
      <4>1. reply[k].code = "ok" => ~At(k, "idle")
        BY DEF PlacesOK, Place, NoAnswer
      <4> QED
        BY <4>1, RunningCalls
    <3> QED
      BY <1>1, <2>2, <3>1 DEF OkOK, TruthTold, Settles, At, IdOf, PayOf
  <2> QED
    BY <1>1, <2>3, <2>4, <2>5, <2>6, ToolUntouched DEF OkOK
<1> QED
  BY <1>2, <1>3, <1>4 DEF Handles

LEMMA ChainKeeps ==
  ASSUME Inv, ChainMoves
  PROVE  Inv'
<1> USE DEF Inv
<1>1. /\ UNCHANGED <<job, told, ledger, disk, post, reply, sent, strayed, shaky>>
      /\ UNCHANGED <<toolVars, ghosts>>
  BY DEF ChainMoves, toolVars, ghosts
<1>2. /\ known' \in [Ids -> SUBSET Calls]
      /\ \A k \in Ids : /\ known[k] \subseteq known'[k]
                        /\ known'[k] = known[k] \/ known'[k] = sent[k]
  BY DEF ChainMoves, TypeOK
<1>3. /\ tx' \in [Calls -> {"none", "pending", "mined", "reverted"}]
      /\ \A k \in Calls : \/ tx'[k] = tx[k]
                          \/ tx[k] = "pending" /\ tx'[k] \in {"mined", "reverted"}
  BY DEF ChainMoves, TypeOK
<1>4. TypeOK'
  BY <1>1, <1>2, <1>3 DEF TypeOK
<1>5. PlacesOK'
  BY <1>1, <1>3 DEF PlacesOK, Place, At
<1>6. SentOK'
  BY <1>1, <1>2, <1>3 DEF SentOK, At, IdOf, TypeOK
<1>7. \A k \in Calls : TruthTold(k)'
  <2> TAKE k \in Calls
  <2>1. reply[k].code = "ok" => IdOf(k) \in Ids
    <3>1. reply[k].code = "ok" => ~At(k, "idle")
      BY DEF PlacesOK, Place, NoAnswer
    <3> QED
      BY <3>1, RunningCalls
  <2> QED
    BY <1>1, <1>2, <2>1 DEF OkOK, TruthTold, Settles, At, IdOf, PayOf
<1> QED
  BY <1>1, <1>4, <1>5, <1>6, <1>7, ToolUntouched DEF OkOK

LEMMA ServiceStopsKeeps ==
  ASSUME Inv, ServiceStops \/ NothingMoves
  PROVE  Inv'
<1> USE DEF Inv
<1>1. /\ UNCHANGED <<job, told, ledger, disk, reply, sent, known, tx, strayed, shaky>>
      /\ UNCHANGED <<toolVars, ghosts>>
  BY DEF ServiceStops, NothingMoves, toolVars, ghosts, theRest
<1>2. /\ post' \in [Calls -> {"none", "coming", "reserved", "sent", "hashed",
                             "answered", "dead"}]
      /\ \A k \in Calls :
           \/ post'[k] = post[k]
           \/ post[k] \notin {"none", "coming", "answered"} /\ post'[k] = "dead"
  BY DEF ServiceStops, NothingMoves, TypeOK
<1>3. TypeOK'
  BY <1>1, <1>2 DEF TypeOK
<1>4. PlacesOK'
  BY <1>1, <1>2 DEF PlacesOK, Place, At
<1>5. SentOK'
  BY <1>1 DEF SentOK, At, IdOf, TypeOK
<1>6. \A k \in Calls : TruthTold(k)'
  BY <1>1 DEF OkOK, TruthTold, Settles, At, IdOf, PayOf
<1> QED
  BY <1>1, <1>3, <1>4, <1>5, <1>6, ToolUntouched DEF OkOK

LEMMA ToolStopsKeeps ==
  ASSUME Inv, ToolStops
  PROVE  Inv'
<1> USE DEF Inv
<1> DEFINE lost == {j \in Calls : Running(j)}
<1>1. UNCHANGED <<post, reply, sent, known, tx, strayed>>
  BY DEF ToolStops, theRest
<1>2. /\ job' \in [Calls -> JobType]
      /\ \A k \in Calls : /\ IdOf(k)' = IdOf(k) /\ PayOf(k)' = PayOf(k)
                          /\ At(k, "idle")' <=> At(k, "idle")
                          /\ IF k \in lost THEN At(k, "done")' ELSE job'[k] = job[k]
  <2>1. ASSUME NEW k \in Calls, k \in lost
        PROVE  /\ [job[k] EXCEPT !.pc = "done"] \in JobType
               /\ [job[k] EXCEPT !.pc = "done"].pc = "done"
               /\ [job[k] EXCEPT !.pc = "done"].id = job[k].id
               /\ [job[k] EXCEPT !.pc = "done"].pay = job[k].pay
    <3>1. job[k] \in JobType /\ job[k].pc # "idle"
      BY <2>1 DEF TypeOK, Running, At
    <3> QED
      BY <3>1 DEF JobType, Idle
  <2>2. \A k \in Calls :
          job'[k] = IF k \in lost THEN [job[k] EXCEPT !.pc = "done"] ELSE job[k]
    BY DEF ToolStops
  <2>3. \A k \in Calls : job'[k] \in JobType
    BY <2>1, <2>2 DEF TypeOK
  <2>4. job' = [k \in Calls |-> job'[k]]
    BY DEF ToolStops
  <2>5. job' \in [Calls -> JobType]
    BY <2>3, <2>4
  <2>6. \A k \in lost : ~At(k, "idle")
    BY DEF Running
  <2> HIDE DEF lost
  <2> QED
    BY <2>1, <2>2, <2>5, <2>6 DEF IdOf, PayOf, At
<1>3. /\ told' \in [Calls -> Answer]
      /\ \A k \in Calls : IF k \in lost THEN told'[k].code = "thrown"
                                        ELSE told'[k] = told[k]
  <2> DEFINE none == [code |-> "thrown", tx |-> NoTx]
  <2>1. none \in Answer /\ none.code = "thrown"
    BY DEF Answer, Codes, Shaking
  <2>2. told' = [k \in Calls |-> IF k \in lost THEN none ELSE told[k]]
    BY DEF ToolStops
  <2> HIDE DEF none, lost
  <2> QED
    BY <2>1, <2>2 DEF TypeOK
<1>4. /\ ledger' = disk \/ ledger' = <<>>
      /\ disk' = ledger'
  BY DEF ToolStops
<1>5. /\ shaky \subseteq shaky' /\ \A j \in lost : IdOf(j) \in shaky'
      /\ \A i \in DOMAIN ledger : i \notin DOMAIN ledger' => i \in shaky'
  BY DEF ToolStops
<1>6. \A k \in Calls : Running(k) <=> k \in lost
  OBVIOUS
<1>7. \A k \in Calls : ~Running(k)'
  BY <1>2, <1>6 DEF Running, At
<1> HIDE DEF lost
<1>8. ledger' \in [DOMAIN ledger' -> Entry]
  <2>1. <<>> \in [DOMAIN <<>> -> Entry]
    <3>1. DOMAIN <<>> = {} /\ <<>> = [x \in {} |-> x]
      OBVIOUS
    <3> QED
      BY <3>1
  <2> QED
    BY <1>4, <2>1 DEF TypeOK
<1>9. TypeOK'
  BY <1>1, <1>2, <1>3, <1>4, <1>8 DEF TypeOK
<1>10. PlacesOK'
  <2>1. ASSUME NEW k \in Calls, k \notin lost
        PROVE  Place(k)'
    BY <1>1, <1>2, <1>3, <2>1 DEF PlacesOK, Place, At
  <2>2. ASSUME NEW k \in Calls, k \in lost
        PROVE  Place(k)'
    <3>1. At(k, "done")' /\ ~At(k, "idle")' /\ ~At(k, "resolving")'
      BY <1>2, <2>2 DEF At
    <3> QED
      BY <1>1, <1>3, <2>2, <3>1 DEF PlacesOK, Place, Definite, NothingSent
  <2> QED
    BY <2>1, <2>2 DEF PlacesOK
<1>11. SentOK'
  BY <1>1, <1>2 DEF SentOK, TypeOK
<1>12. StraysOK'
  <2>1. \A k \in lost : k \in Calls => told[k].code \notin Definite
    BY <1>6 DEF PlacesOK, Place, Definite, Running
  <2>2. \A k \in Calls : told[k].code \in Definite => told'[k].code \in Definite
    BY <1>3, <2>1
  <2> QED
    BY <1>1, <1>2, <2>2 DEF StraysOK
<1>13. OkOK'
  <2>1. Truthful(ledger)' /\ Truthful(disk)'
    <3>1. CASE ledger' = disk
      BY <1>2, <1>4, <1>5, <3>1 DEF OkOK, Truthful, Settles, TypeOK, Entry
    <3>2. CASE ledger' = <<>>
      BY <1>4, <3>2 DEF Truthful
    <3> QED
      BY <1>4, <3>1, <3>2
  <2>2. ASSUME NEW k \in Calls
        PROVE  TruthTold(k)'
    <3>1. CASE k \in lost
      BY <1>1, <1>2, <1>3, <1>5, <3>1 DEF OkOK, TruthTold
    <3>2. CASE k \notin lost
      <4>1. TruthTold(k) /\ told'[k] = told[k]
        BY <1>3, <3>2 DEF OkOK
      <4> QED
        BY <1>1, <1>2, <1>5, <4>1 DEF TruthTold, Settles
    <3> QED
      BY <3>1, <3>2
  <2>3. \A k \in Calls : Alone(k)'
    BY <1>7 DEF Alone
  <2> QED
    BY <2>1, <2>2, <2>3 DEF OkOK
<1> QED
  BY <1>9, <1>10, <1>11, <1>12, <1>13

LEMMA BeginsKeeps ==
  ASSUME Inv, NEW j \in Calls, NEW ask \in Asks,
         NEW pc \in {"resolving", "asking", "done"}, NEW code \in Codes,
         NEW hash \in Calls \cup {NoTx}, Begins(j, ask, pc, code, hash)
  PROVE  Inv'
<1> USE DEF Inv
<1>1. /\ At(j, "idle") /\ \A k \in Calls : k < j => ~At(k, "idle")
      /\ UNCHANGED <<ledger, disk, reply, sent, known, tx>>
      /\ strayed \subseteq strayed' /\ shaky \subseteq shaky'
  BY DEF Begins, theRest
<1>2. \A k \in Calls : k # j /\ ~At(k, "idle") =>
        /\ PayOf(k) = ask.pay /\ IdOf(k) # ask.id /\ told[k].code \notin Definite
             => ask.pay \in strayed'
        /\ Running(k) /\ IdOf(k) = ask.id => ask.id \in shaky'
  BY DEF Begins
<1>3. /\ job' \in [Calls -> JobType]
      /\ At(j, pc)' /\ IdOf(j)' = ask.id /\ PayOf(j)' = ask.pay
      /\ \A k \in Calls : k # j => job'[k] = job[k]
  <2>1. job' = [job EXCEPT ![j] = [pc |-> pc, id |-> ask.id, pay |-> ask.pay]]
    BY DEF Begins
  <2> QED
    BY <2>1, BeginMoves DEF TypeOK
<1>4. \A k \in Calls : k # j =>
        /\ IdOf(k)' = IdOf(k) /\ PayOf(k)' = PayOf(k)
        /\ At(k, "idle")' <=> At(k, "idle")
        /\ At(k, "done")' <=> At(k, "done")
        /\ Running(k)' <=> Running(k)
  BY <1>3 DEF IdOf, PayOf, At, Running
<1>5. /\ ~At(j, "idle")' /\ (At(j, "done")' <=> pc = "done")
      /\ (Running(j)' <=> pc # "done")
  BY <1>3 DEF At, Running
<1>6. /\ told[j].code = "none" /\ post[j] = "none" /\ tx[j] = "none"
      /\ reply[j] = NoAnswer
  <2>1. ~At(j, "done")
    BY <1>1 DEF At
  <2> QED
    BY <1>1, <2>1 DEF PlacesOK, Place
<1>7. /\ told' \in [Calls -> Answer]
      /\ \A k \in Calls : k # j => told'[k] = told[k]
      /\ \/ /\ pc = "done" /\ ask.id \in DOMAIN ledger
            /\ told'[j].code = code /\ told'[j].tx = hash
            /\ \/ /\ code = "ok" /\ hash = ledger[ask.id].tx
                  /\ ledger[ask.id].pay = ask.pay
               \/ code = "duplicate_intent"
         \/ pc # "done" /\ told'[j] = told[j] /\ ask.id \notin DOMAIN ledger
  <2> DEFINE new == [code |-> code, tx |-> hash]
  <2>1. new \in Answer /\ new.code = code /\ new.tx = hash
    BY DEF Answer
  <2>2. \/ /\ pc = "done" /\ ask.id \in DOMAIN ledger
           /\ told' = [told EXCEPT ![j] = new]
           /\ \/ /\ code = "ok" /\ hash = ledger[ask.id].tx
                 /\ ledger[ask.id].pay = ask.pay
              \/ code = "duplicate_intent"
        \/ pc # "done" /\ told' = told /\ ask.id \notin DOMAIN ledger
    BY DEF Begins
  <2> HIDE DEF new
  <2> QED
    BY <2>1, <2>2 DEF TypeOK
<1>8. /\ post' \in [Calls -> {"none", "coming", "reserved", "sent", "hashed",
                             "answered", "dead"}]
      /\ \A k \in Calls : k # j => post'[k] = post[k]
      /\ post'[j] = (IF pc = "asking" THEN "coming" ELSE "none")
  BY <1>6 DEF Begins, TypeOK
<1>9. TypeOK'
  BY <1>1, <1>3, <1>7, <1>8 DEF TypeOK
<1>10. PlacesOK'
  <2>1. ASSUME NEW k \in Calls, k # j
        PROVE  Place(k)'
    BY <1>1, <1>3, <1>7, <1>8, <2>1 DEF PlacesOK, Place, At
  <2>2. At(j, "resolving")' <=> pc = "resolving"
    BY <1>3 DEF At
  <2>3. Place(j)'
    BY <1>1, <1>5, <1>6, <1>7, <1>8, <2>2
       DEF Place, NoAnswer, Definite, NothingSent
  <2> QED
    BY <2>1, <2>3 DEF PlacesOK
<1>11. SentOK'
  <2>1. ASSUME NEW i \in Ids, NEW h \in sent'[i]
        PROVE  ~At(h, "idle")' /\ IdOf(h)' = i /\ tx'[h] # "none"
    <3>1. h \in Calls /\ h # j
      BY <1>1, <1>6, <2>1 DEF SentOK, TypeOK
    <3> QED
      BY <1>1, <1>4, <2>1, <3>1 DEF SentOK
  <2>2. ASSUME NEW k \in Calls, tx'[k] # "none"
        PROVE  ~At(k, "idle")' /\ IdOf(k)' \in Ids /\ sent'[IdOf(k)'] = {k}
    BY <1>1, <1>4, <1>6, <2>2 DEF SentOK
  <2> QED
    BY <1>1, <2>1, <2>2 DEF SentOK
<1>12. StraysOK'
  <2> SUFFICES ASSUME NEW c \in Calls, NEW k \in Calls, c < k, ~At(k, "idle")'
               PROVE  /\ ~At(c, "idle")'
                      /\ PayOf(c)' = PayOf(k)' /\ IdOf(c)' # IdOf(k)'
                         /\ PayOf(k)' \notin strayed'
                           => told'[c].code \in Definite
    BY DEF StraysOK
  <2>1. c # k
    BY CallsAreOrdered
  <2>2. CASE k = j
    <3>1. ~At(c, "idle") /\ c # j
      BY <1>1, <2>1, <2>2
    <3> QED
      BY <1>2, <1>3, <1>4, <1>7, <2>2, <3>1
  <2>3. CASE k # j
    <3>1. ~At(k, "idle")
      BY <1>4, <2>3
    <3>2. ~At(c, "idle") /\ c # j
      BY <1>1, <3>1 DEF StraysOK
    <3> QED
      BY <1>1, <1>4, <1>7, <2>3, <3>1, <3>2 DEF StraysOK
  <2> QED
    BY <2>2, <2>3
<1>13. OkOK'
  <2>1. \A h \in Calls : ~At(h, "idle") =>
          /\ h # j /\ ~At(h, "idle")' /\ PayOf(h)' = PayOf(h)
    BY <1>1, <1>4
  <2>2. Truthful(ledger)' /\ Truthful(disk)'
    BY <1>1, <2>1 DEF OkOK, Truthful, Settles, TypeOK, Entry
  <2>3. ASSUME NEW k \in Calls
        PROVE  TruthTold(k)'
    <3>1. CASE k # j
      <4>1. TruthTold(k) /\ told'[k] = told[k]
        BY <1>7, <3>1 DEF OkOK
      <4> QED
        BY <1>1, <1>4, <2>1, <3>1, <4>1 DEF TruthTold, Settles
    <3>2. CASE k = j
      <4>1. reply'[j].code # "ok"
        BY <1>1, <1>6 DEF NoAnswer
      <4>2. told'[j].code \notin Shaking
        BY <1>6, <1>7 DEF Shaking
      <4>3. ASSUME told'[j].code = "ok", ask.id \notin shaky'
            PROVE  /\ ask.id \in DOMAIN ledger'
                   /\ told'[j].tx \in Calls /\ Settles(told[j].tx, PayOf(j))'
        <5>1. /\ ask.id \in DOMAIN ledger /\ told'[j].tx = ledger[ask.id].tx
              /\ ledger[ask.id].pay = ask.pay
          BY <1>6, <1>7, <4>3
        <5>2. /\ ledger[ask.id].tx \in Calls
              /\ Settles(ledger[ask.id].tx, ledger[ask.id].pay)
          BY <1>1, <4>3, <5>1 DEF OkOK, Truthful, TypeOK, Entry
        <5> QED
          BY <1>1, <1>3, <2>1, <5>1, <5>2 DEF Settles
      <4> QED
        BY <1>3, <3>2, <4>1, <4>2, <4>3 DEF TruthTold
    <3> QED
      BY <3>1, <3>2
  <2>4. ASSUME NEW k \in Calls
        PROVE  Alone(k)'
    <3> SUFFICES ASSUME Running(k)', IdOf(k)' \notin shaky',
                        NEW c \in Calls \ {k}, ~At(c, "idle")', IdOf(c)' = IdOf(k)'
                 PROVE  told'[c].code \in NothingSent
      BY DEF Alone
    <3>1. CASE k = j
      <4>1. /\ pc # "done" /\ ask.id \notin DOMAIN ledger /\ ask.id \notin shaky'
            /\ c # j /\ ~At(c, "idle") /\ IdOf(c) = ask.id
        BY <1>3, <1>4, <1>5, <1>7, <3>1
      <4>2. ~Running(c)
        BY <1>2, <4>1
      <4>3. told[c].code # "none"
        BY <4>1, <4>2 DEF Running, PlacesOK, Place
      <4>4. told[c].code \notin Shaking /\ told[c].code # "ok"
        BY <1>1, <4>1 DEF OkOK, TruthTold
      <4>5. told[c].code \in Codes
        BY DEF TypeOK, Answer
      <4>6. told[c].code \in NothingSent
        BY <4>3, <4>4, <4>5 DEF Codes, Definite, Shaking, NothingSent
      <4> QED
        BY <1>7, <4>1, <4>6
    <3>2. CASE k # j
      <4>1. Running(k) /\ ~At(k, "idle") /\ IdOf(k) \notin shaky
        BY <1>1, <1>4, <3>2 DEF Running
      <4>2. c # j
        BY <1>2, <1>3, <1>4, <3>2, <4>1
      <4>3. ~At(c, "idle") /\ IdOf(c) = IdOf(k)
        BY <1>4, <3>2, <4>2
      <4>4. told[c].code \in NothingSent
        BY <4>1, <4>3 DEF OkOK, Alone
      <4> QED
        BY <1>7, <4>2, <4>4
    <3> QED
      BY <3>1, <3>2
  <2> QED
    BY <2>2, <2>3, <2>4 DEF OkOK
<1> QED
  BY <1>9, <1>10, <1>11, <1>12, <1>13

(* The invariant holds at first, and every step keeps it.                  *)
LEMMA InvAtFirst == Init => Inv
<1> SUFFICES ASSUME Init PROVE Inv
  OBVIOUS
<1>1. /\ job = [j \in Calls |-> Idle] /\ told = [j \in Calls |-> NoAnswer]
      /\ ledger = <<>> /\ disk = <<>> /\ post = [j \in Calls |-> "none"]
      /\ reply = [j \in Calls |-> NoAnswer] /\ tx = [j \in Calls |-> "none"]
      /\ sent = [i \in Ids |-> {}] /\ known = [i \in Ids |-> {}]
  BY DEF Init, Svc!Init
<1>2. Idle \in JobType /\ Idle.pc = "idle"
  BY DEF JobType, Idle
<1>3. NoAnswer \in Answer /\ NoAnswer.code = "none"
  BY DEF NoAnswer, Answer, Codes
<1>4. \A j \in Calls : /\ At(j, "idle") /\ ~At(j, "done") /\ ~Running(j)
                       /\ told[j].code = "none" /\ reply[j] = NoAnswer
  BY <1>1, <1>2, <1>3 DEF At, Running
<1>5. <<>> \in [DOMAIN <<>> -> Entry] /\ DOMAIN <<>> = {}
  <2>1. DOMAIN <<>> = {} /\ <<>> = [x \in {} |-> x]
    OBVIOUS
  <2> QED
    BY <2>1
<1>6. TypeOK
  BY <1>1, <1>2, <1>3, <1>5 DEF TypeOK
<1>7. PlacesOK
  BY <1>1, <1>3, <1>4 DEF PlacesOK, Place, NothingSent, Definite
<1>8. SentOK
  BY <1>1 DEF SentOK
<1>9. StraysOK
  BY <1>4 DEF StraysOK
<1>10. OkOK
  BY <1>1, <1>3, <1>4, <1>5 DEF OkOK, Truthful, TruthTold, Alone, Shaking
<1> QED
  BY <1>6, <1>7, <1>8, <1>9, <1>10 DEF Inv

LEMMA NextKeepsInv ==
  ASSUME Inv, [Next]_vars
  PROVE  Inv'
<1>1. AnyKind
  BY StepIsAKind DEF Inv
<1> QED
  BY <1>1, BeginsKeeps, ProceedsKeeps, HandlesKeeps, EndsEmptyKeeps, EndsPaidKeeps,
     RepliesKeeps, ChainKeeps, ServiceStopsKeeps, ToolStopsKeeps DEF AnyKind

LEMMA InvHolds == Spec => []Inv
<1>1. Inv /\ [Next]_vars => Inv'
  BY NextKeepsInv
<1> QED
  BY <1>1, InvAtFirst, PTL DEF Spec

(* Whatever times out, dies, is lost or asked twice at once, for any number*)
(* of calls and any faults: a payment the persona did not take to a new id *)
(* while the old one might have made it is made once.                      *)
THEOREM PaymentIsMadeOnce == Spec => []PaidOnce
<1>1. ASSUME Inv, NEW j \in Calls, NEW k \in Calls, j < k,
             tx[j] = "mined", tx[k] = "mined", PayOf(j) = PayOf(k)
      PROVE  PayOf(k) \in strayed
  <2>1. /\ ~At(j, "idle") /\ IdOf(j) \in Ids /\ sent[IdOf(j)] = {j}
        /\ ~At(k, "idle") /\ IdOf(k) \in Ids /\ sent[IdOf(k)] = {k}
    BY <1>1 DEF Inv, SentOK
  <2>2. IdOf(j) # IdOf(k)
    BY <1>1, <2>1, CallsAreOrdered
  <2>3. told[j].code \notin Definite
    BY <1>1 DEF Inv, PlacesOK, Place, Definite, NothingSent
  <2> QED
    BY <1>1, <2>1, <2>2, <2>3 DEF Inv, StraysOK
<1>2. Inv => PaidOnce
  BY <1>1, CallsAreOrdered DEF PaidOnce
<1> QED
  BY <1>2, InvHolds, PTL

(* An ok under an id whose answers all arrived, were kept and came one at a*)
(* time is about the payment that was asked for, for any number of calls,  *)
(* ids and faults.                                                         *)
THEOREM OkIsAboutTheRequest == Spec => []OkIsForWhatWasAsked
<1>1. Inv => OkIsForWhatWasAsked
  BY DEF Inv, OkOK, TruthTold, Settles, OkIsForWhatWasAsked
<1> QED
  BY <1>1, InvHolds, PTL
=============================================================================
