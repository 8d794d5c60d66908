------------------------------- MODULE Agent -------------------------------
(***************************************************************************)
(* An agent's wallet tool (wallet-mcp/src/wallet.ts, client.ts, store.ts)  *)
(* between a persona, which may ask and retry as it likes, and chain-svc.  *)
(*                                                                         *)
(* The tool keeps a file of the payments it was told went out, asks the    *)
(* service for the others, and tells the persona one of:                   *)
(*                                                                         *)
(*   ok, revert, duplicate_intent   what became of the payment             *)
(*   refused, not_sent              it did not happen                      *)
(*   unknown, intent_unresolved     it may have: only this id may be tried *)
(*   error                          a code the persona is not to know      *)
(*   thrown                         nothing: the tool threw, or is gone    *)
(*                                                                         *)
(* The service is what Intent.tla promises, which Treasury.tla implements: *)
(* its handler is here from the reservation on, in the steps a client can  *)
(* tell apart, and judges with PolicyRules.  A call of the tool makes at   *)
(* most one request, so the call stands for the transaction of it.         *)
(***************************************************************************)
EXTENDS PolicyRules, Functions

CONSTANTS
  Ids,            \* the intent ids
  Asks,           \* what a persona asks for: [id, pay]
  Files,          \* what the policy file may hold
  KindDefault, Lookup, CanonicalOf,  \* what the service knows besides
  MaxCalls,       \* bound: how often the tool is called
  MaxFaults       \* bound: crashes, lost files, failed writes, edits

(* The tool calls, in the order they come.                                 *)
Calls == 1..MaxCalls

ASSUME AgentAssumption == MaxCalls \in Nat /\ \A ask \in Asks : ask.id \in Ids

(* A payment is [kind |-> "send", to, amount, token], or a contract call   *)
(* [kind |-> "call", what].                                                *)

VARIABLES
  job,       \* a tool call: where it is, and what it was asked
  told,      \* what it told the persona: [code, tx]
  ledger,    \* the tool's memory: intent id -> [pay, tx]
  disk,      \* its file
  policy,    \* the wallet's policy file
  post,      \* where the request of a tool call is
  reply,     \* what the service answered to it: [code, tx]
  taken, sent, known,  \* the service's intents, as in Intent.tla
  holder,    \* intent id -> what it was reserved for
  tx,        \* the transaction of a tool call
  faults,
  strayed,   \* payments asked for under a new id when an old one might do it
  shaky      \* ids with an answer that was lost, or calls that overlapped

toolVars == <<job, told, ledger, disk>>
svcVars  == <<post, reply, taken, sent, known, holder, tx>>
ghosts   == <<strayed, shaky>>
vars == <<toolVars, svcVars, ghosts, policy, faults>>

Svc == INSTANCE Intent WITH Keys <- Ids, Hashes <- Calls

Idle == [pc |-> "idle"]
NoTx == 0
NoAnswer == [code |-> "none", tx |-> NoTx]

Init ==
  /\ Svc!Init
  /\ job = [j \in Calls |-> Idle]
  /\ told = [j \in Calls |-> NoAnswer]
  /\ ledger = <<>> /\ disk = <<>>
  /\ policy \in Files
  /\ post = [j \in Calls |-> "none"]
  /\ reply = [j \in Calls |-> NoAnswer]
  /\ holder = <<>>
  /\ tx = [j \in Calls |-> "none"]
  /\ faults = 0 /\ strayed = {} /\ shaky = {}

-----------------------------------------------------------------------------
(* The tool, from await to await *)

At(j, pc) == job[j].pc = pc
Goto(j, pc) == job' = [job EXCEPT ![j].pc = pc]
Running(j) == ~At(j, "idle") /\ ~At(j, "done")
IdOf(j) == job[j].id
PayOf(j) == job[j].pay

(* Answers after which the persona knows that nothing happened             *)
Definite == {"refused", "not_sent", "revert", "duplicate_intent"}
(* Answers that leave nothing in the ledger, while the service may have the*)
(* id: after a revert, too.                                                *)
Shaking  == {"unknown", "intent_unresolved", "error", "thrown", "revert"}

Tell(j, code, hash) ==
  /\ Goto(j, "done")
  /\ told' = [told EXCEPT ![j] = [code |-> code, tx |-> hash]]
  /\ shaky' = IF code \in Shaking THEN shaky \cup {IdOf(j)} ELSE shaky
Say(j, code) == Tell(j, code, NoTx) /\ UNCHANGED <<ledger, disk, strayed>>

Post(j) == post' = [post EXCEPT ![j] = "coming"]
unposted == <<reply, taken, sent, known, holder, tx>>

(* What a mistaken version would do: compare the recipient only            *)
SameRecipient(entry, pay) ==
  /\ entry.pay.kind = pay.kind
  /\ pay.kind = "send" => entry.pay.to = pay.to

(* A replay is the same send in every part, or the same call.              *)
SameRequest(entry, pay) == entry.pay = pay

(* The tool looks into its own ledger before anything else.  A call goes to*)
(* the service at once, a send after its recipient was looked up.          *)
Begin(j, ask) ==
  LET asked == [pc |-> "resolving", id |-> ask.id, pay |-> ask.pay]
      others == {k \in Calls \ {j} : ~At(k, "idle")}
      elsewhere == {k \in others : /\ PayOf(k) = ask.pay /\ IdOf(k) # ask.id
                                   /\ told[k].code \notin Definite}
      overlap == \E k \in others : Running(k) /\ IdOf(k) = ask.id
      loose == IF overlap THEN shaky \cup {ask.id} ELSE shaky
      finish(code, hash) ==
        /\ job' = [job EXCEPT ![j] = [asked EXCEPT !.pc = "done"]]
        /\ told' = [told EXCEPT ![j] = [code |-> code, tx |-> hash]]
        /\ UNCHANGED post
  IN  /\ At(j, "idle") /\ \A k \in 1..(j - 1) : k \in others
      /\ strayed' = IF elsewhere = {} THEN strayed
                    ELSE strayed \cup {ask.pay}
      /\ shaky' = loose
      /\ IF ask.id \in DOMAIN ledger
         THEN IF SameRequest(ledger[ask.id], ask.pay)
              THEN finish("ok", ledger[ask.id].tx)
              ELSE finish("duplicate_intent", NoTx)
         ELSE IF ask.pay.kind = "call"
         THEN /\ job' = [job EXCEPT ![j] = [asked EXCEPT !.pc = "asking"]]
              /\ Post(j) /\ UNCHANGED told
         ELSE /\ job' = [job EXCEPT ![j] = asked]
              /\ UNCHANGED <<told, post>>
      /\ UNCHANGED <<ledger, disk, unposted, policy, faults>>

(* The name is unknown or ambiguous, or the service is out of reach.       *)
ResolveFails(j) ==
  /\ At(j, "resolving")
  /\ Say(j, "refused")
  /\ UNCHANGED <<svcVars, policy, faults>>

(* The file is read again for every send; what passes is sent off.         *)
ChecksLocally(j) ==
  /\ At(j, "resolving")
  /\ LET pay == PayOf(j) IN
     IF CheckLocally(LocalRead(policy), pay.to, pay.amount, pay.token) # "ok"
     THEN Say(j, "refused") /\ UNCHANGED post
     ELSE Goto(j, "asking") /\ Post(j) /\ UNCHANGED <<told, ledger, disk, ghosts>>
  /\ UNCHANGED <<unposted, policy, faults>>

(* What a mistaken version would do: take a timeout for a refusal          *)
ClassifyTimeouts(failure) ==
  IF failure = "reset" THEN "unknown" ELSE "not_sent"

(* A request is known not to have left only when no connection was made.   *)
Classify(failure) ==
  IF failure = "no_connection" THEN "not_sent" ELSE "unknown"

NotSent(j) ==
  /\ At(j, "asking") /\ post[j] = "coming"
  /\ post' = [post EXCEPT ![j] = "none"]
  /\ Say(j, Classify("no_connection"))
  /\ UNCHANGED <<unposted, policy, faults>>

ConnectionReset(j) ==
  /\ At(j, "asking") /\ post[j] = "dead"
  /\ Say(j, Classify("reset"))
  /\ UNCHANGED <<svcVars, policy, faults>>

(* What a mistaken version would do: wait as long as the service takes     *)
TimesOutNever(j) ==
  /\ At(j, "asking") /\ post[j] = "dead"
  /\ Say(j, Classify("timeout"))
  /\ UNCHANGED <<svcVars, policy, faults>>

(* After fifteen seconds, whatever the service is about to do.             *)
TimesOut(j) ==
  /\ At(j, "asking")
  /\ Say(j, Classify("timeout"))
  /\ UNCHANGED <<svcVars, policy, faults>>

(* The file is replaced as a whole; if that fails the tool throws, with the*)
(* payment in its memory.                                                  *)
Remembers(j, hash) ==
  LET new == [i \in DOMAIN ledger \cup {IdOf(j)} |->
                IF i = IdOf(j) THEN [pay |-> PayOf(j), tx |-> hash]
                ELSE ledger[i]]
  IN  /\ ledger' = new
      /\ \/ disk' = new /\ Tell(j, "ok", hash) /\ UNCHANGED faults
         \/ /\ faults < MaxFaults /\ faults' = faults + 1
            /\ Tell(j, "thrown", NoTx) /\ UNCHANGED disk
      /\ UNCHANGED strayed

(* The answer arrives.  One whose body does not is an answer without a     *)
(* code.                                                                   *)
Hears(j) ==
  /\ At(j, "asking") /\ reply[j] # NoAnswer
  /\ \/ reply[j].code = "ok" /\ Remembers(j, reply[j].tx)
     \/ /\ reply[j].code = "intent_unresolved"
        /\ Goto(j, "polling")
        /\ UNCHANGED <<told, ledger, disk, ghosts, faults>>
     \/ /\ reply[j].code \notin {"ok", "intent_unresolved"}
        /\ Say(j, reply[j].code) /\ UNCHANGED faults
     \/ Say(j, "error") /\ UNCHANGED faults
  /\ UNCHANGED <<svcVars, policy>>

(* GET /intents says "confirmed" once the row has a hash.                  *)
Reconciles(j) ==
  /\ At(j, "polling")
  /\ \E h \in known[IdOf(j)] : Remembers(j, h)
  /\ UNCHANGED <<svcVars, policy>>

(* After ten seconds of asking.                                            *)
GivesUp(j) ==
  /\ At(j, "polling")
  /\ Say(j, "intent_unresolved")
  /\ UNCHANGED <<svcVars, policy, faults>>

-----------------------------------------------------------------------------
(* The service's handler of a request *)

Aside == UNCHANGED <<toolVars, ghosts, policy, faults>>
Answers(j, code, hash) ==
  /\ post' = [post EXCEPT ![j] = "answered"]
  /\ reply' = [reply EXCEPT ![j] = [code |-> code, tx |-> hash]]
At2(j, place) == post[j] = place /\ IdOf(j) \in Ids

(* Whoever may be asked before the reservation says no, with a code for the*)
(* persona or one that is not.                                             *)
SvcRefuses(j) ==
  /\ At2(j, "coming")
  /\ \E code \in {"refused", "error"} : Answers(j, code, NoTx)
  /\ UNCHANGED <<taken, sent, known, holder, tx>> /\ Aside

Permitted(pay) ==
  pay.kind = "send" =>
    ServiceVerdict(policy, KindDefault, pay.to, CanonicalOf[pay.to], Lookup,
                   pay.amount, pay.token) = "ok"

SvcReserves(j) ==
  /\ At2(j, "coming") /\ Permitted(PayOf(j))
  /\ Svc!Take(IdOf(j))
  /\ holder' = [i \in DOMAIN holder \cup {IdOf(j)} |->
                  IF i = IdOf(j) THEN PayOf(j) ELSE holder[i]]
  /\ post' = [post EXCEPT ![j] = "reserved"]
  /\ UNCHANGED <<reply, tx>> /\ Aside

(* A taken id answers with its hash.  Only two calls are compared: a send  *)
(* under a taken id is not, whatever it asks for.                          *)
SvcReplays(j) ==
  LET i == IdOf(j) IN
  /\ At2(j, "coming") /\ Permitted(PayOf(j)) /\ i \in taken
  /\ IF /\ PayOf(j).kind = "call" /\ holder[i].kind = "call"
        /\ holder[i] # PayOf(j)
     THEN Answers(j, "error", NoTx)
     ELSE IF known[i] # {} THEN \E h \in known[i] : Answers(j, "ok", h)
     ELSE Answers(j, "intent_unresolved", NoTx)
  /\ UNCHANGED <<taken, sent, known, holder, tx>> /\ Aside

SvcReleases(j) ==
  /\ At2(j, "reserved")
  /\ Svc!GiveBack(IdOf(j))
  /\ holder' = Restrict(holder, DOMAIN holder \ {IdOf(j)})
  /\ \E code \in {"revert", "error"} : Answers(j, code, NoTx)
  /\ UNCHANGED tx /\ Aside

SvcSends(j) ==
  /\ At2(j, "reserved")
  /\ Svc!SendOut(IdOf(j)) /\ sent'[IdOf(j)] = {j}
  /\ tx' = [tx EXCEPT ![j] = "pending"]
  /\ post' = [post EXCEPT ![j] = "sent"]
  /\ UNCHANGED <<reply, holder>> /\ Aside

(* The node did not take it, its hash never came, or the receipt did not:  *)
(* chain_error, and the row stays.                                         *)
SvcLosesTrack(j) ==
  /\ \E place \in {"reserved", "sent", "hashed"} : At2(j, place)
  /\ Answers(j, "error", NoTx)
  /\ UNCHANGED <<taken, sent, known, holder, tx>> /\ Aside

SvcLearns(j) ==
  /\ At2(j, "sent")
  /\ Svc!Learn(IdOf(j))
  /\ post' = [post EXCEPT ![j] = "hashed"]
  /\ UNCHANGED <<reply, holder, tx>> /\ Aside

(* A call looks at the receipt's status, a send does not.                  *)
SvcHasReceipt(j) ==
  /\ At2(j, "hashed") /\ tx[j] \in {"mined", "reverted"}
  /\ IF PayOf(j).kind = "call" /\ tx[j] = "reverted"
     THEN Answers(j, "revert", NoTx) ELSE Answers(j, "ok", j)
  /\ UNCHANGED <<taken, sent, known, holder, tx>> /\ Aside

(* The sweep finds the emission of a transaction whose hash was lost.      *)
SweepLearns(i) ==
  /\ Svc!Learn(i) /\ \A j \in sent[i] : tx[j] = "mined" /\ post[j] # "sent"
  /\ UNCHANGED <<post, reply, holder, tx>> /\ Aside

Mine(j) ==
  /\ tx[j] = "pending"
  /\ \E end \in {"mined", "reverted"} : tx' = [tx EXCEPT ![j] = end]
  /\ UNCHANGED <<post, reply, taken, sent, known, holder>> /\ Aside

-----------------------------------------------------------------------------
(* Faults *)

Fault == faults < MaxFaults /\ faults' = faults + 1

SvcCrashes ==
  /\ Fault
  /\ post' = [j \in Calls |-> IF post[j] \in {"none", "coming", "answered"}
                              THEN post[j] ELSE "dead"]
  /\ UNCHANGED <<unposted, toolVars, ghosts, policy>>

(* The tool dies and starts again from its file, or from nothing when the  *)
(* file is missing or cannot be read.                                      *)
ToolDies ==
  /\ Fault
  /\ LET lost == {j \in Calls : Running(j)} IN
       /\ job' = [j \in Calls |-> IF j \in lost
                                  THEN [job[j] EXCEPT !.pc = "done"] ELSE job[j]]
       /\ told' = [j \in Calls |-> IF j \in lost
                     THEN [code |-> "thrown", tx |-> NoTx] ELSE told[j]]
       /\ \E read \in {disk, <<>>} :
            /\ ledger' = read /\ disk' = read
            /\ shaky' = shaky \cup {IdOf(j) : j \in lost}
                              \cup (DOMAIN ledger \ DOMAIN read)
  /\ UNCHANGED <<svcVars, strayed, policy>>

OperatorEdits ==
  /\ Fault
  /\ policy' \in Files \ {policy}
  /\ UNCHANGED <<toolVars, svcVars, ghosts>>

ToolSteps(j) ==
  \/ ResolveFails(j) \/ ChecksLocally(j) \/ TimesOut(j) \/ Hears(j)
  \/ Reconciles(j) \/ GivesUp(j)

SvcSteps(j) ==
  \/ SvcRefuses(j) \/ SvcReserves(j) \/ SvcReplays(j) \/ SvcReleases(j)
  \/ SvcSends(j) \/ SvcLosesTrack(j) \/ SvcLearns(j) \/ SvcHasReceipt(j)

Next ==
  \/ \E j \in Calls :
       \/ \E ask \in Asks : Begin(j, ask)
       \/ ToolSteps(j) \/ NotSent(j) \/ ConnectionReset(j)
       \/ SvcSteps(j) \/ Mine(j)
  \/ \E i \in Ids : SweepLearns(i)
  \/ SvcCrashes \/ ToolDies \/ OperatorEdits

(* The tool's own timers are all the fairness there is: nothing is promised*)
(* of the service, the chain or the network.                               *)
Spec == Init /\ [][Next]_vars /\ \A j \in Calls : WF_vars(ToolSteps(j))

-----------------------------------------------------------------------------
(* Properties *)

Paid(pay) == {j \in Calls : tx[j] = "mined" /\ PayOf(j) = pay}

(* Whatever times out, dies, is lost or asked twice at once, a payment is  *)
(* made once, unless the persona took it to a new id although the old one  *)
(* had not been said to have failed.                                       *)
PaidOnce ==
  \A j, k \in Calls :
    j # k /\ tx[j] = "mined" /\ tx[k] = "mined" /\ PayOf(j) = PayOf(k)
    => PayOf(j) \in strayed

(* An ok is about the payment that was asked for, and not about another    *)
(* one made under the same id: unless an answer under that id was lost,    *)
(* forgotten or a revert, or two calls of it overlapped.                   *)
OkIsForWhatWasAsked ==
  \A j \in Calls :
    told[j].code = "ok" /\ IdOf(j) \notin shaky
    => PayOf(told[j].tx) = PayOf(j)

(* Every call of the tool returns, even when the service hangs for ever.   *)
EveryCallReturns == \A j \in Calls : Running(j) ~> At(j, "done")

(* Who asks again under an id it has used before meets the original        *)
(* outcome: a transaction that was told to have reverted is not told to be *)
(* ok later.                                                               *)
OriginalOutcome ==
  \A j, k \in Calls :
    told[j].code = "revert" /\ tx[j] = "reverted" => told[k].tx # j
=============================================================================
