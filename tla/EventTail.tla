----------------------------- MODULE EventTail -----------------------------
(***************************************************************************)
(* The chain event tail of chain-svc: poll and sweepOnce of                *)
(* svc/src/events.ts over recordEmission and unresolvedIntents of          *)
(* svc/src/store.ts.                                                       *)
(*                                                                         *)
(* A poll reads the logs behind the stored cursor, puts them in the outbox *)
(* in four passes (transfers, intent emissions, names, and the events of   *)
(* every registered contract), counts the emissions against the intents    *)
(* they name, and moves the cursor last.  A sweep completes the intents    *)
(* whose emission the polls have recorded.                                 *)
(*                                                                         *)
(* The chain is a sequence of logs, one to a block and to a transaction,   *)
(* so that a position in it stands for both.  The passes run without an    *)
(* await: between them only the chain can move, or the process die.        *)
(* Delivery to the hub is Outbox.tla.                                      *)
(***************************************************************************)
EXTENDS Naturals, Sequences, FiniteSets

CONSTANTS
  SendIntents,  \* intents of wallets: a transfer, emitted from the wallet
  CallIntents,  \* intents of wallets: a call, whose event names no sender
  FundIntents,  \* top-ups, kept under the recipient, sent by the treasury
  OtherLogs,    \* what else may appear on the chain
  NoIntent, NoAnomaly,
  MaxBlocks,    \* bound: the length of the chain
  MaxCrashes    \* bound: how often the service dies

Intents == SendIntents \cup CallIntents \cup FundIntents

(* `from` is what the log names as sender, `expected` whether the emitting *)
(* contract is the one the intent was reserved for, and `own` whether it is*)
(* the transaction this service sent for the intent.                       *)
Log == [kind : {"transfer", "emission", "name", "event"},
        topic : Intents \cup {NoIntent},
        from : {"wallet", "treasury", "stranger", "unnamed"},
        expected : BOOLEAN, own : BOOLEAN]

Blocks  == 1..MaxBlocks
Reasons == {"foreign_token", "foreign_sender", "repeat_emission"}

ASSUME TailAssumption ==
  /\ NoIntent \notin Intents /\ NoAnomaly \notin Intents \X Blocks \X Reasons
  /\ OtherLogs \subseteq {l \in Log : ~l.own}
  /\ MaxBlocks \in Nat /\ MaxCrashes \in Nat

VARIABLES
  chain,      \* the logs
  cursor,     \* cursors['chain-log-tail']: how many of them are done with
  phase,      \* where the poll is
  to,         \* the head it read
  todo,       \* the logs it has yet to look at
  due,        \* the anomaly it has recorded and is about to enqueue
  reserved,   \* the intents with a row
  stale,      \* those of another stage than the store's
  hash,       \* intents.tx_hash, 0 for NULL
  emissions, firstTx, firstFrom,  \* intents.emissions, first_tx, first_from
  anomalies,  \* intent_anomalies
  told,       \* the logs that have been put in the outbox
  raised,     \* and the anomalies
  crashes

rowVars  == <<reserved, stale, hash>>
seenVars == <<emissions, firstTx, firstFrom, anomalies>>
pollVars == <<cursor, phase, to, todo, due>>
outVars  == <<told, raised>>
vars == <<chain, pollVars, rowVars, seenVars, outVars, crashes>>

Passes  == {"transfer", "emission", "name", "event"}
Waiting == {"head", "logs", "events"}

(* The type invariant.  A log still to be looked at lies between the cursor *)
(* and the head that was read, which the chain has reached.                *)
TypeOK ==
  /\ chain \in Seq(Log) /\ Len(chain) <= MaxBlocks
  /\ cursor \in 0..Len(chain) /\ to \in 0..Len(chain)
  /\ phase \in {"idle"} \cup Waiting \cup Passes
  /\ todo \subseteq (cursor + 1)..to
  /\ due \in {NoAnomaly} \cup (Intents \X Blocks \X Reasons)
  /\ stale \subseteq reserved /\ reserved \subseteq Intents
  /\ hash \in [Intents -> 0..MaxBlocks]
  /\ emissions \in [Intents -> 0..MaxBlocks]
  /\ firstTx \in [Intents -> 0..MaxBlocks]
  /\ firstFrom \in [Intents -> {"wallet", "treasury", "stranger", "unnamed"}]
  /\ anomalies \subseteq Intents \X Blocks
  /\ told \subseteq Blocks
  /\ raised \subseteq Intents \X Blocks \X Reasons
  /\ crashes \in 0..MaxCrashes

Init ==
  /\ chain = <<>>
  /\ cursor = 0 /\ phase = "idle" /\ to = 0 /\ todo = {} /\ due = NoAnomaly
  /\ reserved = {} /\ stale = {} /\ hash = [i \in Intents |-> 0]
  /\ emissions = [i \in Intents |-> 0]
  /\ firstTx = [i \in Intents |-> 0]
  /\ firstFrom = [i \in Intents |-> "unnamed"]
  /\ anomalies = {} /\ told = {} /\ raised = {} /\ crashes = 0

-----------------------------------------------------------------------------
(* The chain, and the requests (Treasury.tla) *)

Append1(log) == Len(chain) < MaxBlocks /\ chain' = Append(chain, log)

OwnLog(i) ==
  [kind |-> IF i \in CallIntents THEN "event" ELSE "emission", topic |-> i,
   from |-> IF i \in SendIntents THEN "wallet"
            ELSE IF i \in FundIntents THEN "treasury" ELSE "unnamed",
   expected |-> TRUE, own |-> TRUE]

Landed(i) == {b \in 1..Len(chain) : chain[b].topic = i /\ chain[b].own}

Land(i) ==
  /\ i \in reserved /\ Landed(i) = {}
  /\ Append1(OwnLog(i))
  /\ UNCHANGED <<pollVars, rowVars, seenVars, outVars, crashes>>

Emit ==
  /\ \E log \in OtherLogs : Append1(log)
  /\ UNCHANGED <<pollVars, rowVars, seenVars, outVars, crashes>>

(* A handler runs only where the poll awaits. *)
Free == phase \notin Passes

(* The stage of the row may be the hub's, and the sweep asks the store.    *)
Reserve(i) ==
  /\ Free /\ i \notin reserved
  /\ reserved' = reserved \cup {i}
  /\ stale' \in {stale, stale \cup {i}}
  /\ UNCHANGED <<chain, pollVars, hash, seenVars, outVars, crashes>>

(* The transaction was never broadcast: the row and its counts are gone,   *)
(* what intent_anomalies holds under its topic is not.                     *)
Release(i) ==
  /\ Free /\ i \in reserved /\ hash[i] = 0 /\ Landed(i) = {}
  /\ reserved' = reserved \ {i} /\ stale' = stale \ {i}
  /\ emissions' = [emissions EXCEPT ![i] = 0]
  /\ firstTx' = [firstTx EXCEPT ![i] = 0]
  /\ firstFrom' = [firstFrom EXCEPT ![i] = "unnamed"]
  /\ UNCHANGED <<chain, pollVars, hash, anomalies, outVars, crashes>>

LearnHash(i) ==
  /\ Free /\ Landed(i) # {}
  /\ hash' = [hash EXCEPT ![i] = CHOOSE b \in Landed(i) : TRUE]
  /\ UNCHANGED <<chain, pollVars, reserved, stale, seenVars, outVars, crashes>>

(* To a new stage, or back to one that was left.                           *)
MoveStage ==
  /\ Free
  /\ \E back \in SUBSET stale : stale' = reserved \ back
  /\ UNCHANGED <<chain, pollVars, reserved, hash, seenVars, outVars, crashes>>

-----------------------------------------------------------------------------
(* poll(), up to the logs *)

StartPoll ==
  /\ phase = "idle"
  /\ phase' = "head"
  /\ UNCHANGED <<chain, cursor, to, todo, due, rowVars, seenVars, outVars,
                 crashes>>

HeadReturns ==
  /\ phase = "head"
  /\ to' = Len(chain)
  /\ phase' = IF cursor + 1 > to' THEN "idle" ELSE "logs"
  /\ UNCHANGED <<chain, cursor, todo, due, rowVars, seenVars, outVars,
                 crashes>>

LogsReturn ==
  /\ phase = "logs"
  /\ todo' = (cursor + 1)..to
  /\ phase' = "transfer"
  /\ UNCHANGED <<chain, cursor, to, due, rowVars, seenVars, outVars,
                 crashes>>

EventsReturn ==
  /\ phase = "events"
  /\ phase' = "event"
  /\ UNCHANGED <<chain, cursor, to, todo, due, rowVars, seenVars, outVars,
                 crashes>>

(* A read of the node fails: the pass is over, the cursor has not moved.   *)
PollFails ==
  /\ phase \in Waiting
  /\ phase' = "idle" /\ todo' = {}
  /\ UNCHANGED <<chain, cursor, to, due, rowVars, seenVars, outVars,
                 crashes>>

-----------------------------------------------------------------------------
(* recordEmission() *)

(* Mutants of Ignored: the second and later emissions are not looked up;   *)
(* an intent that has its hash is done with.                               *)
IgnoredByFirstOnly(i, b) == i \notin reserved \/ firstTx[i] = b
IgnoredOnceComplete(i, b) ==
  i \notin reserved \/ firstTx[i] = b \/ <<i, b>> \in anomalies \/ hash[i] # 0

(* Nobody here reserved it, or this very transaction is counted already.   *)
Ignored(i, b) ==
  i \notin reserved \/ firstTx[i] = b \/ <<i, b>> \in anomalies

Foreign(b) == chain[b].from \in {"treasury", "stranger"}

RecordEmission(i, b) ==
  IF Ignored(i, b) THEN UNCHANGED <<seenVars, due>>
  ELSE IF ~chain[b].expected
  THEN /\ anomalies' = anomalies \cup {<<i, b>>}
       /\ due' = <<i, b, "foreign_token">>
       /\ UNCHANGED <<emissions, firstTx, firstFrom>>
  ELSE IF emissions[i] = 0
  THEN /\ emissions' = [emissions EXCEPT ![i] = 1]
       /\ firstTx' = [firstTx EXCEPT ![i] = b]
       /\ firstFrom' = [firstFrom EXCEPT ![i] = chain[b].from]
       /\ due' = IF Foreign(b) THEN <<i, b, "foreign_sender">> ELSE NoAnomaly
       /\ UNCHANGED anomalies
  ELSE /\ anomalies' = anomalies \cup {<<i, b>>}
       /\ emissions' = [emissions EXCEPT ![i] = @ + 1]
       /\ due' = <<i, b, "repeat_emission">>
       /\ UNCHANGED <<firstTx, firstFrom>>

-----------------------------------------------------------------------------
(* The four passes *)

(* Contract by contract, and the logs of one contract in their order.      *)
Ready(b) ==
  /\ phase \in Passes /\ due = NoAnomaly
  /\ b \in todo /\ chain[b].kind = phase
  /\ \A c \in todo :
       (chain[c].kind = phase /\ chain[c].expected = chain[b].expected)
         => b <= c

(* An emission is recorded, every other log is put in the outbox, and an   *)
(* event that names an intent is both.                                     *)
TakeLog(b) ==
  /\ Ready(b)
  /\ todo' = todo \ {b}
  /\ told' = IF phase = "emission" THEN told ELSE told \cup {b}
  /\ IF phase \in {"emission", "event"} /\ chain[b].topic # NoIntent
     THEN RecordEmission(chain[b].topic, b) ELSE UNCHANGED <<seenVars, due>>
  /\ UNCHANGED <<chain, cursor, phase, to, rowVars, raised, crashes>>

(* Mutant of RaiseAnomaly: recorded, and the result discarded.             *)
DropAnomaly ==
  /\ due # NoAnomaly
  /\ due' = NoAnomaly
  /\ UNCHANGED <<chain, cursor, phase, to, todo, rowVars, seenVars, outVars,
                 crashes>>

(* A transaction of its own, after the one that recorded it.               *)
RaiseAnomaly ==
  /\ due # NoAnomaly
  /\ raised' = raised \cup {due}
  /\ due' = NoAnomaly
  /\ UNCHANGED <<chain, cursor, phase, to, todo, rowVars, seenVars, told,
                 crashes>>

PassDone == /\ phase \in Passes /\ due = NoAnomaly
            /\ \A b \in todo : chain[b].kind # phase

NextPass ==
  /\ PassDone /\ phase # "event"
  /\ phase' = IF phase = "transfer" THEN "emission"
              ELSE IF phase = "emission" THEN "name" ELSE "events"
  /\ UNCHANGED <<chain, cursor, to, todo, due, rowVars, seenVars, outVars,
                 crashes>>

(* Mutants of MoveCursor: one block too far; to the head as it is now, not *)
(* as it was when the logs were asked for.                                 *)
MoveCursorPast ==
  /\ PassDone /\ phase = "event"
  /\ cursor' = to + 1 /\ phase' = "idle"
  /\ UNCHANGED <<chain, to, todo, due, rowVars, seenVars, outVars, crashes>>

MoveCursorToHead ==
  /\ PassDone /\ phase = "event"
  /\ cursor' = Len(chain) /\ phase' = "idle"
  /\ UNCHANGED <<chain, to, todo, due, rowVars, seenVars, outVars, crashes>>

MoveCursor ==
  /\ PassDone /\ phase = "event"
  /\ cursor' = to /\ phase' = "idle"
  /\ UNCHANGED <<chain, to, todo, due, rowVars, seenVars, outVars,
                 crashes>>

-----------------------------------------------------------------------------
(* sweepOnce(), and a crash *)

(* Mutants of Confirmed: whoever sent it; only if nobody sent another.     *)
ConfirmedByAnyone(i) ==
  i \in reserved \ stale /\ hash[i] = 0 /\ emissions[i] > 0
ConfirmedIfAlone(i) ==
  /\ i \in reserved \ stale /\ hash[i] = 0
  /\ emissions[i] = 1 /\ firstFrom[i] = "wallet"

(* An intent of this stage without a hash whose first emission came from   *)
(* the wallet that reserved it.                                            *)
Confirmed(i) ==
  /\ i \in reserved \ stale /\ hash[i] = 0
  /\ emissions[i] > 0 /\ firstFrom[i] = "wallet"

Sweep ==
  /\ Free /\ \E i \in Intents : Confirmed(i)
  /\ hash' = [i \in Intents |-> IF Confirmed(i) THEN firstTx[i] ELSE hash[i]]
  /\ UNCHANGED <<chain, pollVars, reserved, stale, seenVars, outVars, crashes>>

Crash ==
  /\ crashes < MaxCrashes /\ phase # "idle"
  /\ crashes' = crashes + 1
  /\ phase' = "idle" /\ todo' = {} /\ due' = NoAnomaly
  /\ UNCHANGED <<chain, cursor, to, rowVars, seenVars, outVars>>

Poll == \/ StartPoll \/ HeadReturns \/ LogsReturn \/ EventsReturn
        \/ (\E b \in Blocks : TakeLog(b))
        \/ RaiseAnomaly \/ NextPass \/ MoveCursor

Next ==
  \/ \E i \in Intents : \/ Reserve(i) \/ Release(i)
                       \/ Land(i) \/ LearnHash(i)
  \/ Emit \/ MoveStage
  \/ Poll \/ PollFails \/ Sweep \/ Crash

Spec == Init /\ [][Next]_vars

(* The timers fire, the passes run to their end, and a node that fails a   *)
(* read answers it some other time.                                        *)
FairSpec ==
  /\ Spec /\ WF_vars(Poll) /\ WF_vars(Sweep)
  /\ SF_vars(LogsReturn) /\ SF_vars(EventsReturn) /\ SF_vars(HeadReturns)

-----------------------------------------------------------------------------
(* Properties *)

(* Whatever the cursor has passed is in the outbox: a failed read or a     *)
(* crash between any two steps of a poll repeats logs and never skips one. *)
BehindCursorTold ==
  \A b \in 1..cursor : chain[b].kind # "emission" => b \in told

(* However often a range is read again, an emission of an intent counts    *)
(* once, and only if the contract it was reserved for emitted it.          *)
EmissionsCountedOnce ==
  \A i \in Intents :
    emissions[i] <=
      Cardinality({b \in 1..Len(chain) :
        chain[b].expected /\ (firstTx[i] = b \/ <<i, b>> \in anomalies)})

(* An intent's own transaction does not get past the cursor unrecorded.    *)
OwnEmissionSeen ==
  \A i \in Intents : \A b \in Landed(i) :
    b <= cursor => firstTx[i] = b \/ <<i, b>> \in anomalies

(* A hash in the ledger is a transaction of that intent, sent by the wallet*)
(* that reserved it or by the treasury for it: no stranger's emission, and *)
(* no other contract's, resolves a reservation.                            *)
HashIsNoStrangers ==
  \A i \in Intents :
    hash[i] # 0 => /\ chain[hash[i]].topic = i /\ chain[hash[i]].expected
                   /\ chain[hash[i]].from = "wallet" \/ chain[hash[i]].own

(* As long as the service has not died, every anomaly the store holds is   *)
(* in the outbox or about to be.                                           *)
AnomaliesTold ==
  crashes = 0 => \A i \in Intents : \A b \in 1..Len(chain) :
    <<i, b>> \in anomalies \/ (firstTx[i] = b /\ Foreign(b)) =>
      \E why \in Reasons : <<i, b, why>> \in raised \cup {due}

(* A transfer whose emission was the first under its intent is completed,  *)
(* whatever happened to the handler, unless the stage has moved on.        *)
LandedFirst(i) == \E b \in Landed(i) : firstTx[i] = b
LandedFirstIsConfirmed ==
  \A i \in SendIntents : LandedFirst(i) ~> (hash[i] # 0 \/ i \in stale)
=============================================================================
