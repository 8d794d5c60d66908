-------------------------- MODULE EventTailProofs --------------------------
(***************************************************************************)
(* Proofs about EventTail.tla, for any intents, any strangers' logs, any   *)
(* length of the chain and any number of crashes.                          *)
(*                                                                         *)
(* That nothing gets past the cursor is inductive only together with what  *)
(* a poll has done so far: every log of its range is still to be looked at *)
(* or has been handled, and the passes that are over left none of theirs.  *)
(***************************************************************************)
EXTENDS EventTail, FiniteSetTheorems, TLAPS

Senders == {"wallet", "treasury", "stranger", "unnamed"}

(* The types, without the bound on the counts.                             *)
Types ==
  /\ chain \in Seq(Log) /\ Len(chain) <= MaxBlocks
  /\ cursor \in 0..Len(chain) /\ to \in 0..Len(chain)
  /\ phase \in {"idle"} \cup Waiting \cup Passes
  /\ todo \subseteq (cursor + 1)..to
  /\ due \in {NoAnomaly} \cup (Intents \X Blocks \X Reasons)
  /\ stale \subseteq reserved /\ reserved \subseteq Intents
  /\ hash \in [Intents -> 0..MaxBlocks]
  /\ emissions \in [Intents -> Nat]
  /\ firstTx \in [Intents -> 0..MaxBlocks]
  /\ firstFrom \in [Intents -> Senders]
  /\ anomalies \subseteq Intents \X Blocks
  /\ told \subseteq Blocks
  /\ raised \subseteq Intents \X Blocks \X Reasons
  /\ crashes \in 0..MaxCrashes

(* The transaction this service sent for an intent is what the intent      *)
(* asked for, and its row is not released while it is on the chain.        *)
OwnIsOwn ==
  \A b \in 1..Len(chain) :
    chain[b].own => /\ chain[b].topic \in reserved
                    /\ chain[b] = OwnLog(chain[b].topic)

(* What the row says of its first emission, the chain says too.            *)
FirstIsReal ==
  \A i \in Intents :
    /\ emissions[i] = 0 => firstTx[i] = 0
    /\ emissions[i] # 0 => /\ firstTx[i] \in 1..Len(chain)
                           /\ chain[firstTx[i]].topic = i
                           /\ chain[firstTx[i]].expected
                           /\ chain[firstTx[i]].from = firstFrom[i]

HashOnChain == \A i \in Intents : hash[i] # 0 => hash[i] \in 1..Len(chain)

AnomaliesReal ==
  \A i \in Intents : \A b \in Blocks :
    <<i, b>> \in anomalies => b \in 1..Len(chain)

(* What a poll owes a log.                                                 *)
Recorded(i, b) == firstTx[i] = b \/ <<i, b>> \in anomalies
Handled(b) ==
  /\ chain[b].kind # "emission" => b \in told
  /\ chain[b].own => Recorded(chain[b].topic, b)

Past == \A b \in 1..cursor : Handled(b)

(* The kinds of log no longer in todo.                                     *)
DoneIn(p) ==
  IF p = "emission" THEN {"transfer"}
  ELSE IF p = "name" THEN {"transfer", "emission"}
  ELSE IF p \in {"events", "event"} THEN {"transfer", "emission", "name"}
  ELSE {}

Progress ==
  phase \in Passes \cup {"events"} =>
    \A b \in (cursor + 1)..to :
      /\ b \in todo \/ Handled(b)
      /\ chain[b].kind \in DoneIn(phase) => b \notin todo

(* The emissions counted for an intent.                                    *)
CountedOf(i) ==
  {b \in 1..Len(chain) :
     chain[b].expected /\ (firstTx[i] = b \/ <<i, b>> \in anomalies)}

IInv ==
  /\ Types /\ OwnIsOwn /\ FirstIsReal /\ AnomaliesReal
  /\ HashOnChain /\ Past /\ Progress
  /\ EmissionsCountedOnce /\ HashIsNoStrangers /\ AnomaliesTold

-----------------------------------------------------------------------------
(* The chain *)

LEMMA OwnLogs ==
  ASSUME NEW i \in Intents
  PROVE  /\ OwnLog(i) \in Log
         /\ OwnLog(i).topic = i /\ OwnLog(i).own /\ OwnLog(i).expected
BY DEF OwnLog, Log

(* The chain only grows.                                                   *)
LEMMA Grows ==
  ASSUME chain \in Seq(Log), NEW log \in Log, Append1(log)
  PROVE  /\ chain' \in Seq(Log) /\ Len(chain') = Len(chain) + 1
         /\ Len(chain) \in Nat /\ Len(chain') <= MaxBlocks
         /\ chain'[Len(chain) + 1] = log
         /\ \A b \in 1..Len(chain) : chain'[b] = chain[b]
BY TailAssumption DEF Append1

(* The steps that change the chain, and those that change nothing a log is *)
(* told or recorded by.                                                    *)
GrowsBy(log) ==
  /\ log \in Log /\ Append1(log)
  /\ log.own => log.topic \in reserved /\ log = OwnLog(log.topic)
  /\ UNCHANGED <<pollVars, rowVars, seenVars, outVars, crashes>>

Quiet == UNCHANGED <<chain, reserved, seenVars, told>>

LEMMA Kinds ==
  ASSUME Next, Types
  PROVE  \/ \E i \in Intents : Reserve(i) \/ Release(i)
         \/ \E log : GrowsBy(log)
         \/ \E b \in Blocks : TakeLog(b)
         \/ Quiet
<1>1. ASSUME NEW i \in Intents, Land(i) PROVE GrowsBy(OwnLog(i))
  BY <1>1, OwnLogs DEF Land, GrowsBy
<1>2. ASSUME Emit PROVE \E log : GrowsBy(log)
  <2>1. PICK log \in OtherLogs : Append1(log)
    BY <1>2 DEF Emit
  <2>2. log \in Log /\ ~log.own
    BY <2>1, TailAssumption
  <2>3. GrowsBy(log)
    BY <1>2, <2>1, <2>2 DEF Emit, GrowsBy
  <2> QED BY <2>3
<1>3. ASSUME NEW i \in Intents, LearnHash(i) PROVE Quiet
  BY <1>3 DEF LearnHash, Quiet, outVars
<1>4. CASE \/ MoveStage \/ StartPoll \/ HeadReturns \/ LogsReturn
           \/ EventsReturn \/ RaiseAnomaly \/ NextPass \/ MoveCursor
           \/ PollFails \/ Sweep \/ Crash
  BY <1>4 DEF MoveStage, StartPoll, HeadReturns, LogsReturn, EventsReturn,
              RaiseAnomaly, NextPass, MoveCursor, PollFails, Sweep, Crash,
              Quiet, rowVars, outVars
<1> QED
  BY <1>1, <1>2, <1>3, <1>4 DEF Next, Poll

-----------------------------------------------------------------------------
LEMMA InitIInv == Init => IInv
<1> SUFFICES ASSUME Init PROVE IInv
  OBVIOUS
<1>1. Types
  BY TailAssumption DEF Init, Types, Senders, Log
<1>2. Len(chain) = 0
  BY DEF Init
<1>3. /\ OwnIsOwn /\ FirstIsReal /\ AnomaliesReal /\ HashOnChain
      /\ Past /\ Progress
  BY <1>2 DEF Init, OwnIsOwn, FirstIsReal, AnomaliesReal, HashOnChain, Past,
              Progress, Passes
<1>4. HashIsNoStrangers /\ AnomaliesTold
  BY <1>2 DEF Init, HashIsNoStrangers, AnomaliesTold
<1>5. EmissionsCountedOnce
  <2> SUFFICES ASSUME NEW i \in Intents
               PROVE  emissions[i] <= Cardinality(CountedOf(i))
    BY DEF EmissionsCountedOnce, CountedOf
  <2>1. CountedOf(i) = {}
    BY <1>2 DEF CountedOf
  <2>2. emissions[i] = 0
    BY DEF Init
  <2> QED BY <2>1, <2>2, FS_EmptySet
<1> QED BY <1>1, <1>3, <1>4, <1>5 DEF IInv

-----------------------------------------------------------------------------
(* The log a poll takes lies in its range; one that names an intent names  *)
(* one of this service.                                                    *)
LEMMA Taken ==
  ASSUME Types, NEW b \in Blocks, TakeLog(b)
  PROVE  /\ b \in (cursor + 1)..to
         /\ b \in 1..Len(chain) /\ b \in Nat \ {0} /\ chain' = chain
         /\ chain[b] \in Log /\ chain[b].kind = phase /\ phase \in Passes
         /\ chain[b].topic # NoIntent => chain[b].topic \in Intents
         /\ due = NoAnomaly
<1>1. b \in (cursor + 1)..to
  BY DEF Types, TakeLog, Ready
<1>2. cursor \in Nat /\ to \in Nat /\ Len(chain) \in Nat /\ to <= Len(chain)
  BY DEF Types
<1>3. b \in 1..Len(chain)
  BY <1>1, <1>2
<1>4. chain[b] \in Log
  BY <1>3 DEF Types
<1>5. b \in Nat \ {0}
  BY <1>1, <1>2
<1> QED BY <1>1, <1>3, <1>4, <1>5 DEF TakeLog, Ready, Log

(* recordEmission leaves the types of what it writes.                      *)
LEMMA RecordTypes ==
  ASSUME Types, NEW i \in Intents, NEW b \in Blocks,
         chain[b] \in Log, due = NoAnomaly, RecordEmission(i, b)
  PROVE  /\ emissions' \in [Intents -> Nat]
         /\ firstTx' \in [Intents -> 0..MaxBlocks]
         /\ firstFrom' \in [Intents -> Senders]
         /\ anomalies' \subseteq Intents \X Blocks
         /\ due' \in {NoAnomaly} \cup (Intents \X Blocks \X Reasons)
<1>1. chain[b].from \in Senders
  BY DEF Log, Senders
<1>2. b \in 0..MaxBlocks
  BY TailAssumption DEF Blocks
<1>3. CASE Ignored(i, b)
  BY <1>3 DEF RecordEmission, seenVars, Types
<1>4. CASE ~Ignored(i, b) /\ ~chain[b].expected
  BY <1>4 DEF RecordEmission, Types, Reasons
<1>5. CASE ~Ignored(i, b) /\ chain[b].expected /\ emissions[i] = 0
  <2>1. /\ emissions' = [emissions EXCEPT ![i] = 1]
        /\ firstTx' = [firstTx EXCEPT ![i] = b]
        /\ firstFrom' = [firstFrom EXCEPT ![i] = chain[b].from]
        /\ due' \in {<<i, b, "foreign_sender">>, NoAnomaly}
        /\ UNCHANGED anomalies
    BY <1>5 DEF RecordEmission
  <2> QED BY <1>1, <1>2, <2>1 DEF Types, Reasons
<1>6. CASE ~Ignored(i, b) /\ chain[b].expected /\ emissions[i] # 0
  <2>1. /\ anomalies' = anomalies \cup {<<i, b>>}
        /\ emissions' = [emissions EXCEPT ![i] = @ + 1]
        /\ due' = <<i, b, "repeat_emission">>
        /\ UNCHANGED <<firstTx, firstFrom>>
    BY <1>6 DEF RecordEmission
  <2> QED BY <2>1 DEF Types, Reasons
<1> QED BY <1>3, <1>4, <1>5, <1>6

LEMMA TypesStep ==
  ASSUME Types, Progress, Next
  PROVE  Types'
<1>1. ASSUME NEW i \in Intents, Reserve(i) PROVE Types'
  BY <1>1 DEF Reserve, Types, pollVars, seenVars, outVars
<1>2. ASSUME NEW i \in Intents, Release(i) PROVE Types'
  BY <1>2, TailAssumption
     DEF Release, Types, pollVars, outVars, Senders
<1>3. ASSUME NEW log \in Log, Append1(log),
             UNCHANGED <<pollVars, rowVars, seenVars, outVars, crashes>>
      PROVE  Types'
  <2>1. /\ chain' \in Seq(Log) /\ Len(chain') = Len(chain) + 1
        /\ Len(chain) \in Nat /\ Len(chain') <= MaxBlocks
    BY <1>3, Grows DEF Types
  <2> QED
    BY <1>3, <2>1 DEF Types, pollVars, rowVars, seenVars, outVars
<1>4. ASSUME NEW i \in Intents, LearnHash(i) PROVE Types'
  <2>1. PICK b \in Landed(i) : hash' = [hash EXCEPT ![i] = b]
    BY <1>4 DEF LearnHash
  <2>2. b \in 0..MaxBlocks
    BY <2>1, TailAssumption DEF Landed, Types
  <2> QED
    BY <1>4, <2>1, <2>2 DEF LearnHash, Types, pollVars, seenVars, outVars
<1>5. CASE MoveStage
  BY <1>5 DEF MoveStage, Types, pollVars, seenVars, outVars
<1>6. CASE StartPoll \/ LogsReturn \/ EventsReturn \/ PollFails \/ NextPass
  BY <1>6 DEF StartPoll, LogsReturn, EventsReturn, PollFails, NextPass, Types,
              rowVars, seenVars, outVars, Waiting, Passes
<1>7. CASE HeadReturns
  <2>1. Len(chain) \in Nat /\ to' = Len(chain)
    BY <1>7 DEF HeadReturns, Types
  <2> QED
    BY <1>7, <2>1 DEF HeadReturns, Types, rowVars, seenVars, outVars, Waiting
<1>8. ASSUME NEW b \in Blocks, TakeLog(b) PROVE Types'
  <2>1. /\ emissions' \in [Intents -> Nat]
        /\ firstTx' \in [Intents -> 0..MaxBlocks]
        /\ firstFrom' \in [Intents -> Senders]
        /\ anomalies' \subseteq Intents \X Blocks
        /\ due' \in {NoAnomaly} \cup (Intents \X Blocks \X Reasons)
    <3>1. CASE phase \in {"emission", "event"} /\ chain[b].topic # NoIntent
      BY <1>8, <3>1, Taken, RecordTypes DEF TakeLog
    <3>2. CASE ~(phase \in {"emission", "event"} /\ chain[b].topic # NoIntent)
      BY <1>8, <3>2 DEF TakeLog, seenVars, Types
    <3> QED BY <3>1, <3>2
  <2>2. told' \subseteq Blocks
    BY <1>8 DEF TakeLog, Types
  <2>3. todo' \subseteq (cursor + 1)..to
    BY <1>8 DEF TakeLog, Types
  <2> QED BY <1>8, <2>1, <2>2, <2>3 DEF TakeLog, Types, rowVars
<1>9. CASE RaiseAnomaly
  BY <1>9 DEF RaiseAnomaly, Types, rowVars, seenVars
<1>10. CASE MoveCursor
  <2>1. todo = {}
    <3> SUFFICES ASSUME NEW b \in todo PROVE FALSE
      OBVIOUS
    <3>1. b \in (cursor + 1)..to /\ cursor \in Nat /\ to <= Len(chain)
          /\ to \in Nat /\ Len(chain) \in Nat
      BY DEF Types
    <3>2. b \in 1..Len(chain)
      BY <3>1
    <3>3. chain[b].kind \in Passes
      <4>1. chain[b] \in Log
        BY <3>2 DEF Types
      <4> QED BY <4>1 DEF Log, Passes
    <3>4. chain[b].kind \in DoneIn(phase) \cup {"event"}
      BY <1>10, <3>3 DEF MoveCursor, DoneIn, Passes
    <3> QED
      BY <1>10, <3>1, <3>4 DEF MoveCursor, PassDone, Progress, Passes
  <2> QED
    BY <1>10, <2>1 DEF MoveCursor, Types, rowVars, seenVars, outVars
<1>11. CASE Sweep
  BY <1>11 DEF Sweep, Types, pollVars, seenVars, outVars
<1>12. CASE Crash
  BY <1>12, TailAssumption DEF Crash, Types, rowVars, seenVars, outVars
<1>13. ASSUME NEW i \in Intents, Land(i) PROVE Types'
  BY <1>13, <1>3, OwnLogs DEF Land
<1>14. CASE Emit
  BY <1>14, <1>3, TailAssumption DEF Emit
<1> QED
  BY <1>1, <1>2, <1>4, <1>5, <1>6, <1>7, <1>8, <1>9, <1>10, <1>11, <1>12,
     <1>13, <1>14 DEF Next, Poll

-----------------------------------------------------------------------------
LEMMA OwnStep ==
  ASSUME Types, OwnIsOwn, Next
  PROVE  OwnIsOwn'
<1>1. ASSUME NEW i \in Intents, Reserve(i) PROVE OwnIsOwn'
  BY <1>1 DEF Reserve, OwnIsOwn
<1>2. ASSUME NEW i \in Intents, Release(i) PROVE OwnIsOwn'
  BY <1>2 DEF Release, OwnIsOwn, Landed
<1>3. ASSUME NEW log, GrowsBy(log) PROVE OwnIsOwn'
  <2> SUFFICES ASSUME NEW b \in 1..Len(chain'), chain'[b].own
               PROVE  /\ chain'[b].topic \in reserved'
                      /\ chain'[b] = OwnLog(chain'[b].topic)
    BY DEF OwnIsOwn, OwnLog
  <2>1. /\ Len(chain') = Len(chain) + 1 /\ Len(chain) \in Nat
        /\ chain'[Len(chain) + 1] = log
        /\ \A c \in 1..Len(chain) : chain'[c] = chain[c]
    BY <1>3, Grows DEF GrowsBy, Types
  <2>2. CASE b = Len(chain) + 1
    BY <1>3, <2>1, <2>2 DEF GrowsBy, rowVars
  <2>3. CASE b # Len(chain) + 1
    <3>1. b \in 1..Len(chain) /\ chain'[b] = chain[b]
      BY <2>1, <2>3
    <3> QED BY <1>3, <3>1 DEF GrowsBy, rowVars, OwnIsOwn
  <2> QED BY <2>2, <2>3
<1>4. ASSUME NEW b \in Blocks, TakeLog(b) PROVE OwnIsOwn'
  BY <1>4 DEF TakeLog, rowVars, OwnIsOwn, OwnLog
<1>5. CASE Quiet
  BY <1>5 DEF Quiet, OwnIsOwn, OwnLog
<1> QED BY <1>1, <1>2, <1>3, <1>4, <1>5, Kinds

-----------------------------------------------------------------------------
(* recordEmission *)

(* The five things a call can do.  (The counts are those of Types.)        *)
Ignores(i, b) ==
  (i \notin reserved \/ Recorded(i, b)) /\ UNCHANGED <<seenVars, due>>
Disowns(i, b) ==
  /\ ~Recorded(i, b) /\ ~chain[b].expected
  /\ anomalies' = anomalies \cup {<<i, b>>}
  /\ due' = <<i, b, "foreign_token">>
  /\ UNCHANGED <<emissions, firstTx, firstFrom>>
Counts(i, b) ==
  /\ ~Recorded(i, b) /\ chain[b].expected /\ emissions[i] = 0
  /\ emissions' = [emissions EXCEPT ![i] = 1]
  /\ firstTx' = [firstTx EXCEPT ![i] = b]
  /\ firstFrom' = [firstFrom EXCEPT ![i] = chain[b].from]
  /\ Foreign(b) => due' = <<i, b, "foreign_sender">>
  /\ UNCHANGED anomalies
Repeats(i, b) ==
  /\ ~Recorded(i, b) /\ chain[b].expected /\ emissions[i] # 0
  /\ anomalies' = anomalies \cup {<<i, b>>}
  /\ emissions' = [emissions EXCEPT ![i] = emissions[i] + 1]
  /\ due' = <<i, b, "repeat_emission">>
  /\ UNCHANGED <<firstTx, firstFrom>>

LEMMA RecordCases ==
  ASSUME NEW i, NEW b, RecordEmission(i, b)
  PROVE  Ignores(i, b) \/ Disowns(i, b) \/ Counts(i, b) \/ Repeats(i, b)
BY DEF RecordEmission, Ignored, Recorded, Ignores, Disowns, Counts, Repeats

(* A log that is taken is recorded, or the rows do not change.             *)
LEMMA TakenCases ==
  ASSUME NEW b, TakeLog(b)
  PROVE  \/ /\ phase \in {"emission", "event"} /\ chain[b].topic # NoIntent
            /\ RecordEmission(chain[b].topic, b)
         \/ /\ ~(phase \in {"emission", "event"} /\ chain[b].topic # NoIntent)
            /\ UNCHANGED <<seenVars, due>>
BY DEF TakeLog

(* Nothing that is recorded is forgotten, and an intent that has its row is*)
(* recorded.                                                               *)
LEMMA RecordKeeps ==
  ASSUME Types, FirstIsReal, NEW i \in Intents, NEW b \in Nat \ {0},
         RecordEmission(i, b)
  PROVE  /\ \A j \in Intents : \A c \in Nat \ {0} :
              Recorded(j, c) => Recorded(j, c)'
         /\ i \in reserved => Recorded(i, b)'
<1>1. CASE Ignores(i, b)
  BY <1>1 DEF Ignores, Recorded, seenVars
<1>2. CASE Disowns(i, b) \/ Repeats(i, b)
  BY <1>2 DEF Disowns, Repeats, Recorded
<1>3. CASE Counts(i, b)
  <2>1. firstTx[i] = 0
    BY <1>3 DEF Counts, FirstIsReal
  <2>2. firstTx' = [firstTx EXCEPT ![i] = b] /\ anomalies' = anomalies
    BY <1>3 DEF Counts
  <2> QED BY <2>1, <2>2 DEF Recorded, Types
<1> QED BY <1>1, <1>2, <1>3, RecordCases

-----------------------------------------------------------------------------
LEMMA FirstStep ==
  ASSUME Types, FirstIsReal, Next
  PROVE  FirstIsReal'
<1>1. ASSUME NEW i \in Intents, Reserve(i) PROVE FirstIsReal'
  BY <1>1 DEF Reserve, FirstIsReal, seenVars
<1>2. ASSUME NEW i \in Intents, Release(i) PROVE FirstIsReal'
  <2>1. /\ emissions' = [emissions EXCEPT ![i] = 0]
        /\ firstTx' = [firstTx EXCEPT ![i] = 0]
        /\ firstFrom' = [firstFrom EXCEPT ![i] = "unnamed"]
        /\ chain' = chain
    BY <1>2 DEF Release
  <2> QED BY <2>1 DEF Types, FirstIsReal
<1>3. ASSUME NEW log, GrowsBy(log) PROVE FirstIsReal'
  <2>1. /\ Len(chain') = Len(chain) + 1 /\ Len(chain) \in Nat
        /\ \A c \in 1..Len(chain) : chain'[c] = chain[c]
    BY <1>3, Grows DEF GrowsBy, Types
  <2> QED BY <1>3, <2>1 DEF GrowsBy, seenVars, FirstIsReal
<1>4. ASSUME NEW b \in Blocks, TakeLog(b) PROVE FirstIsReal'
  <2>1. chain' = chain /\ b \in 1..Len(chain)
    BY <1>4, Taken
  <2>2. CASE UNCHANGED <<seenVars, due>>
    BY <2>1, <2>2 DEF seenVars, FirstIsReal
  <2>3. CASE chain[b].topic # NoIntent /\ RecordEmission(chain[b].topic, b)
    <3> DEFINE i == chain[b].topic
    <3>1. i \in Intents
      BY <1>4, <2>3, Taken
    <3>2. CASE Ignores(i, b) \/ Disowns(i, b)
      BY <2>1, <3>2 DEF Ignores, Disowns, seenVars, FirstIsReal
    <3>3. CASE Counts(i, b)
      <4>1. /\ emissions' = [emissions EXCEPT ![i] = 1]
            /\ firstTx' = [firstTx EXCEPT ![i] = b]
            /\ firstFrom' = [firstFrom EXCEPT ![i] = chain[b].from]
            /\ chain[b].expected /\ chain[b].topic = i
        BY <3>3 DEF Counts
      <4> HIDE DEF i
      <4> QED BY <2>1, <3>1, <4>1 DEF Types, FirstIsReal
    <3>4. CASE Repeats(i, b)
      <4>1. /\ emissions' = [emissions EXCEPT ![i] = emissions[i] + 1]
            /\ emissions[i] # 0 /\ UNCHANGED <<firstTx, firstFrom>>
        BY <3>4 DEF Repeats
      <4>2. \A j \in Intents : emissions'[j] # 0 => emissions[j] # 0
        BY <3>1, <4>1 DEF Types
      <4>3. \A j \in Intents : emissions'[j] = 0 => emissions[j] = 0
        BY <3>1, <4>1 DEF Types
      <4> QED BY <2>1, <4>1, <4>2, <4>3 DEF FirstIsReal
    <3> QED BY <2>3, <3>2, <3>3, <3>4, RecordCases
  <2> QED BY <1>4, <2>2, <2>3, TakenCases
<1>5. CASE Quiet
  BY <1>5 DEF Quiet, seenVars, FirstIsReal
<1> QED BY <1>1, <1>2, <1>3, <1>4, <1>5, Kinds

LEMMA AnomaliesStep ==
  ASSUME Types, AnomaliesReal, Next
  PROVE  AnomaliesReal'
<1>1. ASSUME NEW i \in Intents, Reserve(i) \/ Release(i) PROVE AnomaliesReal'
  BY <1>1 DEF Reserve, Release, AnomaliesReal, seenVars
<1>2. ASSUME NEW log, GrowsBy(log) PROVE AnomaliesReal'
  <2>1. Len(chain') = Len(chain) + 1 /\ Len(chain) \in Nat
    BY <1>2, Grows DEF GrowsBy, Types
  <2> QED BY <1>2, <2>1 DEF GrowsBy, seenVars, AnomaliesReal
<1>3. ASSUME NEW b \in Blocks, TakeLog(b) PROVE AnomaliesReal'
  <2>1. chain' = chain /\ b \in 1..Len(chain)
    BY <1>3, Taken
  <2>2. \/ anomalies' = anomalies
        \/ anomalies' = anomalies \cup {<<chain[b].topic, b>>}
    BY <1>3, TakenCases, RecordCases
       DEF Ignores, Disowns, Counts, Repeats, seenVars
  <2> QED BY <2>1, <2>2 DEF AnomaliesReal
<1>4. CASE Quiet
  BY <1>4 DEF Quiet, seenVars, AnomaliesReal
<1> QED BY <1>1, <1>2, <1>3, <1>4, Kinds

-----------------------------------------------------------------------------
(* What a log is owed, once given, is kept.                                *)
LEMMA HandledKept ==
  ASSUME Types, OwnIsOwn, FirstIsReal, Next,
         NEW b \in 1..Len(chain), Handled(b)
  PROVE  Handled(b)' /\ chain'[b] = chain[b]
<1>1. ASSUME NEW i \in Intents, Reserve(i)
      PROVE  Handled(b)' /\ chain'[b] = chain[b]
  BY <1>1 DEF Reserve, Handled, Recorded, seenVars, outVars
<1>2. ASSUME NEW i \in Intents, Release(i)
      PROVE  Handled(b)' /\ chain'[b] = chain[b]
  <2>1. chain[b].own => chain[b].topic # i
    BY <1>2 DEF Release, Landed
  <2>2. /\ chain' = chain /\ told' = told /\ anomalies' = anomalies
        /\ firstTx' = [firstTx EXCEPT ![i] = 0]
    BY <1>2 DEF Release, outVars
  <2>3. chain[b].own => firstTx'[chain[b].topic] = firstTx[chain[b].topic]
    <3>1. chain[b].own => chain[b].topic \in Intents
      BY DEF OwnIsOwn, Types
    <3> QED BY <2>1, <2>2, <3>1 DEF Types
  <2> QED BY <2>2, <2>3 DEF Handled, Recorded
<1>3. ASSUME NEW log, GrowsBy(log)
      PROVE  Handled(b)' /\ chain'[b] = chain[b]
  <2>1. chain'[b] = chain[b]
    BY <1>3, Grows DEF GrowsBy, Types
  <2> QED
    BY <1>3, <2>1 DEF GrowsBy, Handled, Recorded, seenVars, outVars
<1>4. ASSUME NEW c \in Blocks, TakeLog(c)
      PROVE  Handled(b)' /\ chain'[b] = chain[b]
  <2>1. chain' = chain /\ told \subseteq told'
    BY <1>4 DEF TakeLog
  <2>2. CASE UNCHANGED <<seenVars, due>>
    BY <2>1, <2>2 DEF Handled, Recorded, seenVars
  <2>3. CASE chain[c].topic # NoIntent /\ RecordEmission(chain[c].topic, c)
    <3>1. chain[c].topic \in Intents /\ c \in Nat \ {0}
      BY <1>4, <2>3, Taken
    <3>2. chain[b].own => chain[b].topic \in Intents
      BY DEF OwnIsOwn, Types
    <3>3. b \in Nat \ {0}
      OBVIOUS
    <3>4. chain[b].own => Recorded(chain[b].topic, b)'
      <4> SUFFICES ASSUME chain[b].own PROVE Recorded(chain[b].topic, b)'
        OBVIOUS
      <4>1. \A j \in Intents : \A d \in Nat \ {0} :
              Recorded(j, d) => (firstTx'[j] = d \/ <<j, d>> \in anomalies')
        BY <2>3, <3>1, RecordKeeps DEF Recorded
      <4>2. Recorded(chain[b].topic, b)
        BY DEF Handled
      <4>3. \/ firstTx'[chain[b].topic] = b
            \/ <<chain[b].topic, b>> \in anomalies'
        BY <3>2, <3>3, <4>1, <4>2
      <4> QED BY <2>1, <4>3 DEF Recorded
    <3> QED BY <2>1, <3>4 DEF Handled, Recorded
  <2> QED BY <1>4, <2>2, <2>3, TakenCases
<1>5. CASE Quiet
  BY <1>5 DEF Quiet, Handled, Recorded, seenVars
<1> QED BY <1>1, <1>2, <1>3, <1>4, <1>5, Kinds

(* A poll gives the log it takes what it owes it.                          *)
LEMMA TakenHandled ==
  ASSUME Types, OwnIsOwn, FirstIsReal, NEW b \in Blocks, TakeLog(b)
  PROVE  Handled(b)'
<1>1. /\ chain' = chain /\ b \in 1..Len(chain) /\ b \in Nat \ {0}
      /\ chain[b].kind = phase
  BY Taken
<1>2. chain[b].kind # "emission" => b \in told'
  BY <1>1 DEF TakeLog
<1>3. ASSUME chain[b].own PROVE Recorded(chain[b].topic, b)'
  <2> DEFINE i == chain[b].topic
  <2>1. i \in reserved /\ i \in Intents /\ chain[b] = OwnLog(i)
    BY <1>1, <1>3 DEF OwnIsOwn, Types
  <2>2. chain[b].kind \in {"emission", "event"}
    BY <2>1 DEF OwnLog
  <2>3. RecordEmission(i, b)
    BY <1>1, <2>1, <2>2, TailAssumption DEF TakeLog
  <2>4. Recorded(i, b)'
    BY <1>1, <2>1, <2>3, RecordKeeps DEF Recorded
  <2> QED BY <1>1, <2>4 DEF Recorded
<1> QED BY <1>1, <1>2, <1>3 DEF Handled, Recorded

-----------------------------------------------------------------------------
(* When the last pass is over, no log of the range is left.                *)
LEMMA AllHandled ==
  ASSUME Types, Progress, MoveCursor, NEW b \in (cursor + 1)..to
  PROVE  Handled(b)
<1>1. b \in 1..Len(chain)
  BY DEF Types
<1>2. chain[b].kind \in DoneIn(phase) \cup {phase}
  <2>1. chain[b] \in Log
    BY <1>1 DEF Types
  <2> QED BY <2>1 DEF MoveCursor, DoneIn, Log
<1> QED BY <1>2 DEF MoveCursor, PassDone, Progress, Passes

LEMMA PastStep ==
  ASSUME Types, OwnIsOwn, FirstIsReal, Past, Progress, Next
  PROVE  Past'
<1>1. ASSUME NEW b \in 1..Len(chain), Handled(b) PROVE Handled(b)'
  BY <1>1, HandledKept
<1>2. cursor \in Nat /\ cursor <= Len(chain) /\ Len(chain) \in Nat
      /\ to \in Nat /\ to <= Len(chain)
  BY DEF Types
<1>3. CASE MoveCursor
  <2> SUFFICES ASSUME NEW b \in 1..to PROVE Handled(b)'
    BY <1>3 DEF MoveCursor, Past
  <2>1. b \in 1..Len(chain)
    BY <1>2
  <2>2. CASE b <= cursor
    BY <1>1, <1>2, <2>1, <2>2 DEF Past
  <2>3. CASE ~(b <= cursor)
    <3>1. b \in (cursor + 1)..to
      BY <1>2, <2>3
    <3> QED BY <1>1, <1>3, <2>1, <3>1, AllHandled
  <2> QED BY <2>2, <2>3
<1>4. CASE ~MoveCursor
  <2>1. cursor' = cursor
    BY <1>4 DEF Next, Poll, Reserve, Release, Land, LearnHash, Emit,
       MoveStage, StartPoll, HeadReturns, LogsReturn, EventsReturn, TakeLog,
       RaiseAnomaly, NextPass, PollFails, Sweep, Crash, pollVars
  <2> SUFFICES ASSUME NEW b \in 1..cursor PROVE Handled(b)'
    BY <2>1 DEF Past
  <2>2. b \in 1..Len(chain) /\ Handled(b)
    BY <1>2 DEF Past
  <2> QED BY <1>1, <2>2
<1> QED BY <1>3, <1>4

LEMMA ProgressStep ==
  ASSUME Types, OwnIsOwn, FirstIsReal, Progress, Next
  PROVE  Progress'
<1> SUFFICES ASSUME phase' \in Passes \cup {"events"},
                    NEW b \in (cursor' + 1)..to'
             PROVE  /\ b \in todo' \/ Handled(b)'
                    /\ chain'[b].kind \in DoneIn(phase') => b \notin todo'
  BY DEF Progress, DoneIn, Handled, Recorded
<1>1. ASSUME NEW c \in 1..Len(chain), Handled(c) PROVE Handled(c)'
  BY <1>1, HandledKept
<1>2. cursor \in Nat /\ to \in Nat /\ to <= Len(chain) /\ Len(chain) \in Nat
  BY DEF Types
<1>3. CASE LogsReturn
  <2>1. DoneIn(phase') = {} /\ b \in todo'
    BY <1>3 DEF LogsReturn, DoneIn
  <2> QED BY <2>1
<1>4. CASE NextPass \/ EventsReturn
  <2>1. /\ UNCHANGED <<cursor, to, todo, chain>>
        /\ phase \in Passes \cup {"events"}
    BY <1>4 DEF NextPass, EventsReturn, PassDone
  <2>2. DoneIn(phase') \subseteq DoneIn(phase) \cup {phase}
    BY <1>4 DEF NextPass, EventsReturn, PassDone, DoneIn, Passes
  <2>3. \A c \in todo : phase \in Passes => chain[c].kind # phase
    BY <1>4 DEF NextPass, EventsReturn, PassDone, Passes
  <2>4. b \in 1..Len(chain)
    BY <1>2, <2>1
  <2>5. chain[b].kind # "events"
    <3>1. chain[b] \in Log
      BY <2>4 DEF Types
    <3> QED BY <3>1 DEF Log
  <2>6. b \in todo \/ Handled(b)
    BY <2>1 DEF Progress
  <2>7. chain[b].kind \in DoneIn(phase) => b \notin todo
    BY <2>1 DEF Progress
  <2> QED BY <1>1, <2>1, <2>2, <2>3, <2>4, <2>5, <2>6, <2>7
<1>5. ASSUME NEW c \in Blocks, TakeLog(c)
      PROVE  /\ b \in todo' \/ Handled(b)'
             /\ chain'[b].kind \in DoneIn(phase') => b \notin todo'
  <2>1. /\ UNCHANGED <<cursor, to, chain, phase>> /\ todo' = todo \ {c}
        /\ phase \in Passes
    BY <1>5 DEF TakeLog, Ready
  <2>2. /\ b \in todo \/ Handled(b)
        /\ chain[b].kind \in DoneIn(phase) => b \notin todo
    BY <2>1 DEF Progress
  <2>3. b \in 1..Len(chain)
    BY <1>2, <2>1
  <2>4. b = c => Handled(b)'
    BY <1>5, TakenHandled
  <2>5. Handled(b) => Handled(b)'
    BY <1>1, <2>3
  <2> QED BY <2>1, <2>2, <2>4, <2>5
<1>6. CASE ~(LogsReturn \/ NextPass \/ EventsReturn
             \/ \E c \in Blocks : TakeLog(c))
  <2>1. /\ UNCHANGED <<cursor, to, todo, phase>>
    BY <1>6 DEF Next, Poll, Reserve, Release, Land, LearnHash, Emit,
       MoveStage, StartPoll, HeadReturns, MoveCursor, Passes,
       RaiseAnomaly, PollFails, Sweep, Crash, pollVars
  <2>2. /\ b \in todo \/ Handled(b)
        /\ chain[b].kind \in DoneIn(phase) => b \notin todo
    BY <2>1 DEF Progress
  <2>3. b \in 1..Len(chain)
    BY <1>2, <2>1
  <2>4. chain'[b] = chain[b]
    <3>1. ASSUME NEW log, GrowsBy(log) PROVE chain'[b] = chain[b]
      BY <2>3, <3>1, Grows DEF GrowsBy, Types
    <3> QED BY <1>6, <3>1, Kinds DEF Reserve, Release, Quiet
  <2> QED BY <1>1, <2>1, <2>2, <2>3, <2>4
<1> QED BY <1>3, <1>4, <1>5, <1>6

-----------------------------------------------------------------------------
(* A hash is on the chain; HashIsNoStrangers says what is there.           *)
LEMMA HashStep ==
  ASSUME Types, OwnIsOwn, FirstIsReal, HashOnChain, HashIsNoStrangers, Next
  PROVE  HashOnChain' /\ HashIsNoStrangers'
<1> DEFINE Good(i, b) == /\ b \in 1..Len(chain)
                         /\ chain[b].topic = i /\ chain[b].expected
                         /\ chain[b].from = "wallet" \/ chain[b].own
<1>1. /\ \A b \in 1..Len(chain) : chain'[b] = chain[b]
      /\ 1..Len(chain) \subseteq 1..Len(chain')
  <2>1. ASSUME NEW log, GrowsBy(log)
        PROVE  /\ \A b \in 1..Len(chain) : chain'[b] = chain[b]
               /\ 1..Len(chain) \subseteq 1..Len(chain')
    <3>1. /\ Len(chain') = Len(chain) + 1 /\ Len(chain) \in Nat
          /\ \A b \in 1..Len(chain) : chain'[b] = chain[b]
      BY <2>1, Grows DEF GrowsBy, Types
    <3> QED BY <3>1
  <2>2. chain' = chain
        => /\ \A b \in 1..Len(chain) : chain'[b] = chain[b]
           /\ 1..Len(chain) \subseteq 1..Len(chain')
    OBVIOUS
  <2> QED BY <2>1, <2>2, Kinds DEF Reserve, Release, TakeLog, Quiet
<1>2. ASSUME NEW i \in Intents, hash'[i] # 0
      PROVE  Good(i, hash'[i])
  <2>1. CASE hash' = hash
    BY <1>2, <2>1 DEF HashOnChain, HashIsNoStrangers
  <2>2. ASSUME NEW j \in Intents, LearnHash(j) PROVE Good(i, hash'[i])
    <3>1. PICK b \in Landed(j) : hash' = [hash EXCEPT ![j] = b]
      BY <2>2 DEF LearnHash
    <3>2. Good(j, b)
      <4>1. b \in 1..Len(chain) /\ chain[b].own /\ chain[b].topic = j
        BY <3>1 DEF Landed
      <4>2. chain[b] = OwnLog(j)
        BY <4>1 DEF OwnIsOwn
      <4> QED BY <4>1, <4>2, OwnLogs
    <3>3. CASE i = j
      BY <3>1, <3>2, <3>3 DEF Types
    <3>4. CASE i # j
      <4>1. hash'[i] = hash[i]
        BY <3>1, <3>4 DEF Types
      <4> QED BY <1>2, <4>1 DEF HashOnChain, HashIsNoStrangers
    <3> QED BY <3>3, <3>4
  <2>3. CASE Sweep
    <3>1. hash'[i] = IF Confirmed(i) THEN firstTx[i] ELSE hash[i]
      BY <2>3 DEF Sweep
    <3>2. CASE Confirmed(i)
      <4>1. emissions[i] # 0 /\ firstFrom[i] = "wallet"
        BY <3>2 DEF Confirmed, Types
      <4> QED BY <3>1, <3>2, <4>1 DEF FirstIsReal
    <3>3. CASE ~Confirmed(i)
      BY <1>2, <3>1, <3>3 DEF HashOnChain, HashIsNoStrangers
    <3> QED BY <3>2, <3>3
  <2>4. hash' = hash \/ (\E j \in Intents : LearnHash(j)) \/ Sweep
    BY DEF Next, Poll, Reserve, Release, Land, Emit,
       MoveStage, StartPoll, HeadReturns, LogsReturn, EventsReturn, TakeLog,
       RaiseAnomaly, NextPass, MoveCursor, PollFails, Crash, rowVars
  <2> QED BY <2>1, <2>2, <2>3, <2>4
<1> QED BY <1>1, <1>2 DEF HashOnChain, HashIsNoStrangers

-----------------------------------------------------------------------------
LEMMA ToldStep ==
  ASSUME Types, FirstIsReal, AnomaliesReal, AnomaliesTold, Next
  PROVE  AnomaliesTold'
<1> DEFINE Owed(i, b) ==
             <<i, b>> \in anomalies \/ (firstTx[i] = b /\ Foreign(b))
           Said(i, b) ==
             \E why \in Reasons : <<i, b, why>> \in raised \cup {due}
<1> SUFFICES ASSUME crashes' = 0, NEW i \in Intents, NEW b \in 1..Len(chain'),
                    Owed(i, b)'
             PROVE  Said(i, b)'
  BY DEF AnomaliesTold
<1>1. crashes = 0 /\ ~Crash
  BY DEF Types, Crash, Next, Poll, Reserve, Release, Land, LearnHash, Emit,
     MoveStage, StartPoll, HeadReturns, LogsReturn, EventsReturn, TakeLog,
     RaiseAnomaly, NextPass, MoveCursor, PollFails, Sweep
<1>2. ASSUME b \in 1..Len(chain), Owed(i, b) PROVE Said(i, b)
  BY <1>1, <1>2 DEF AnomaliesTold
<1>3. ASSUME raised \cup {due} \subseteq raised' \cup {due'}, Said(i, b)
      PROVE  Said(i, b)'
  BY <1>3
<1>4. ASSUME NEW c \in Blocks, TakeLog(c) PROVE Said(i, b)'
  <2>1. /\ chain' = chain /\ raised' = raised /\ due = NoAnomaly
        /\ c \in 1..Len(chain) /\ b \in Blocks
    <3>1. b \in Blocks
      <4>1. /\ b \in 1..Len(chain) /\ Len(chain) \in Nat
            /\ Len(chain) <= MaxBlocks
        <5>1. chain' = chain
          BY <1>4, Taken
        <5> QED BY <5>1 DEF Types
      <4> QED BY <4>1, TailAssumption DEF Blocks
    <3> QED BY <1>4, <3>1, Taken DEF TakeLog
  <2>2. CASE UNCHANGED <<seenVars, due>>
    BY <1>2, <1>3, <2>1, <2>2 DEF seenVars, Foreign
  <2>3. CASE chain[c].topic # NoIntent /\ RecordEmission(chain[c].topic, c)
    <3> DEFINE j == chain[c].topic
    <3>1. j \in Intents
      BY <1>4, <2>3, Taken
    <3>2. ASSUME Owed(i, b) PROVE Said(i, b)'
      <4>1. PICK why \in Reasons : <<i, b, why>> \in raised \cup {due}
        BY <1>2, <2>1, <3>2
      <4>2. <<i, b, why>> # NoAnomaly
        BY <2>1, TailAssumption
      <4> QED BY <2>1, <4>1, <4>2
    <3>3. CASE Ignores(j, c)
      BY <2>1, <3>2, <3>3 DEF Ignores, seenVars, Foreign
    <3>4. CASE Disowns(j, c) \/ Repeats(j, c)
      <4>1. /\ anomalies' = anomalies \cup {<<j, c>>} /\ firstTx' = firstTx
            /\ \E why \in Reasons : due' = <<j, c, why>>
        BY <3>4 DEF Disowns, Repeats, Reasons
      <4> HIDE DEF j
      <4>2. CASE <<i, b>> = <<j, c>>
        BY <4>1, <4>2
      <4>3. CASE <<i, b>> # <<j, c>>
        BY <2>1, <3>2, <4>1, <4>3 DEF Foreign
      <4> QED BY <4>2, <4>3
    <3>5. CASE Counts(j, c)
      <4>1. /\ firstTx' = [firstTx EXCEPT ![j] = c] /\ anomalies' = anomalies
            /\ Foreign(c) => due' = <<j, c, "foreign_sender">>
        BY <3>5 DEF Counts
      <4> HIDE DEF j
      <4>2. CASE i = j /\ b = c
        <5>1. CASE Foreign(c)
          BY <4>1, <4>2, <5>1 DEF Reasons
        <5>2. CASE ~Foreign(c)
          BY <2>1, <3>2, <4>1, <4>2, <5>2 DEF Foreign
        <5> QED BY <5>1, <5>2
      <4>3. CASE ~(i = j /\ b = c)
        <5>1. Owed(i, b)
          BY <2>1, <3>1, <4>1, <4>3 DEF Types, Foreign
        <5> QED BY <3>2, <5>1
      <4> QED BY <4>2, <4>3
    <3> QED BY <2>3, <3>3, <3>4, <3>5, RecordCases
  <2> QED BY <1>4, <2>2, <2>3, TakenCases
<1>5. CASE ~\E c \in Blocks : TakeLog(c)
  <2>1. raised \cup {due} \subseteq raised' \cup {due'}
    BY <1>1, <1>5
       DEF Next, Poll, Reserve, Release, Land, LearnHash, Emit, MoveStage,
           StartPoll, HeadReturns, LogsReturn, EventsReturn, RaiseAnomaly,
           NextPass, MoveCursor, PollFails, Sweep, pollVars, outVars
  <2>2. b \in 1..Len(chain) /\ Owed(i, b)
    <3>1. ASSUME NEW k \in Intents, Reserve(k)
          PROVE  b \in 1..Len(chain) /\ Owed(i, b)
      BY <3>1 DEF Reserve, seenVars, Foreign
    <3>2. ASSUME NEW k \in Intents, Release(k)
          PROVE  b \in 1..Len(chain) /\ Owed(i, b)
      <4>1. /\ firstTx' = [firstTx EXCEPT ![k] = 0]
            /\ anomalies' = anomalies /\ chain' = chain
        BY <3>2 DEF Release
      <4>2. b # 0 /\ b \in 1..Len(chain)
        BY <4>1
      <4>3. firstTx'[i] = b => firstTx[i] = b
        BY <4>1, <4>2 DEF Types
      <4> QED BY <4>1, <4>2, <4>3 DEF Foreign
    <3>3. ASSUME NEW log, GrowsBy(log)
          PROVE  b \in 1..Len(chain) /\ Owed(i, b)
      <4>1. /\ Len(chain') = Len(chain) + 1 /\ Len(chain) \in Nat
            /\ Len(chain') <= MaxBlocks
            /\ \A c \in 1..Len(chain) : chain'[c] = chain[c]
        BY <3>3, Grows DEF GrowsBy, Types
      <4>2. /\ UNCHANGED <<firstTx, anomalies, emissions>>
            /\ <<i, b>> \in anomalies \/ firstTx[i] = b
        BY <3>3 DEF GrowsBy, seenVars
      <4>3. b \in 1..Len(chain)
        <5>1. b \in Blocks /\ b # 0
          BY <4>1, TailAssumption DEF Blocks
        <5> QED BY <4>2, <5>1 DEF AnomaliesReal, FirstIsReal
      <4> QED BY <4>1, <4>2, <4>3 DEF Foreign
    <3>4. CASE Quiet
      BY <3>4 DEF Quiet, seenVars, Foreign
    <3> QED BY <1>5, <3>1, <3>2, <3>3, <3>4, Kinds
  <2> QED BY <1>2, <1>3, <2>1, <2>2
<1> QED BY <1>4, <1>5

-----------------------------------------------------------------------------
(* Counting *)

LEMMA CountedFinite ==
  ASSUME Types, NEW i
  PROVE  /\ IsFiniteSet(CountedOf(i)) /\ Cardinality(CountedOf(i)) \in Nat
         /\ Cardinality(CountedOf(i)) <= Len(chain)
<1>1. Len(chain) \in Nat
  BY DEF Types
<1>2. IsFiniteSet(1..Len(chain)) /\ Cardinality(1..Len(chain)) = Len(chain)
  <2>1. 1 \in Int /\ Len(chain) \in Int
    BY <1>1
  <2>2. /\ IsFiniteSet(1..Len(chain))
        /\ Cardinality(1..Len(chain)) =
             IF 1 > Len(chain) THEN 0 ELSE Len(chain) - 1 + 1
    BY <2>1, FS_Interval
  <2> QED BY <1>1, <2>2
<1>3. CountedOf(i) \subseteq 1..Len(chain)
  BY DEF CountedOf
<1> QED BY <1>1, <1>2, <1>3, FS_Subset, FS_CardinalityType

(* A set that keeps its members counts no less, and one more with another. *)
LEMMA Larger ==
  ASSUME NEW S, NEW T, IsFiniteSet(T), S \subseteq T
  PROVE  /\ Cardinality(S) \in Nat /\ Cardinality(T) \in Nat
         /\ Cardinality(S) <= Cardinality(T)
         /\ \A b \in T : b \notin S => Cardinality(S) + 1 <= Cardinality(T)
<1>1. /\ IsFiniteSet(S) /\ Cardinality(S) <= Cardinality(T)
      /\ Cardinality(S) \in Nat /\ Cardinality(T) \in Nat
  BY FS_Subset, FS_CardinalityType
<1>2. ASSUME NEW b \in T, b \notin S
      PROVE  Cardinality(S) + 1 <= Cardinality(T)
  <2>1. Cardinality(S \cup {b}) = Cardinality(S) + 1
    BY <1>1, <1>2, FS_AddElement
  <2>2. S \cup {b} \subseteq T
    BY <1>2
  <2>3. Cardinality(S \cup {b}) <= Cardinality(T)
    BY <2>2, FS_Subset
  <2> QED BY <2>1, <2>3
<1> QED BY <1>1, <1>2

LEMMA CountStep ==
  ASSUME Types, Types', FirstIsReal, EmissionsCountedOnce, Next
  PROVE  EmissionsCountedOnce'
<1> SUFFICES ASSUME NEW i \in Intents
             PROVE  emissions'[i] <= Cardinality(CountedOf(i)')
  BY DEF EmissionsCountedOnce, CountedOf
<1>1. emissions[i] <= Cardinality(CountedOf(i)) /\ emissions[i] \in Nat
  BY DEF EmissionsCountedOnce, CountedOf, Types
<1>2. /\ IsFiniteSet(CountedOf(i)') /\ Cardinality(CountedOf(i)') \in Nat
  <2>1. Len(chain') \in Nat
    BY DEF Types
  <2>2. IsFiniteSet(1..Len(chain'))
    BY <2>1, FS_Interval
  <2>3. CountedOf(i)' \subseteq 1..Len(chain')
    BY DEF CountedOf
  <2> QED BY <2>2, <2>3, FS_Subset, FS_CardinalityType
<1>3. ASSUME emissions'[i] = emissions[i], CountedOf(i) \subseteq CountedOf(i)'
      PROVE  emissions'[i] <= Cardinality(CountedOf(i)')
  <2>1. /\ Cardinality(CountedOf(i)) \in Nat
        /\ Cardinality(CountedOf(i)) <= Cardinality(CountedOf(i)')
    BY <1>2, <1>3, Larger
  <2> QED BY <1>1, <1>2, <1>3, <2>1
<1>4. ASSUME NEW b, emissions'[i] = emissions[i] + 1,
             CountedOf(i) \subseteq CountedOf(i)',
             b \in CountedOf(i)', b \notin CountedOf(i)
      PROVE  emissions'[i] <= Cardinality(CountedOf(i)')
  <2>1. /\ Cardinality(CountedOf(i)) \in Nat
        /\ Cardinality(CountedOf(i)) + 1 <= Cardinality(CountedOf(i)')
    BY <1>2, <1>4, Larger
  <2> QED BY <1>1, <1>2, <1>4, <2>1
<1>5. ASSUME NEW k \in Intents, Reserve(k)
      PROVE  emissions'[i] <= Cardinality(CountedOf(i)')
  BY <1>3, <1>5 DEF Reserve, seenVars, CountedOf
<1>6. ASSUME NEW k \in Intents, Release(k)
      PROVE  emissions'[i] <= Cardinality(CountedOf(i)')
  <2>1. /\ emissions' = [emissions EXCEPT ![k] = 0]
        /\ firstTx' = [firstTx EXCEPT ![k] = 0]
        /\ chain' = chain /\ anomalies' = anomalies
    BY <1>6 DEF Release
  <2>2. CASE i = k
    <3>1. emissions'[i] = 0
      BY <2>1, <2>2 DEF Types
    <3> QED BY <1>2, <3>1
  <2>3. CASE i # k
    <3>1. emissions'[i] = emissions[i] /\ firstTx'[i] = firstTx[i]
      BY <2>1, <2>3 DEF Types
    <3> QED BY <1>3, <2>1, <3>1 DEF CountedOf
  <2> QED BY <2>2, <2>3
<1>7. ASSUME NEW log, GrowsBy(log)
      PROVE  emissions'[i] <= Cardinality(CountedOf(i)')
  <2>1. /\ Len(chain') = Len(chain) + 1 /\ Len(chain) \in Nat
        /\ \A c \in 1..Len(chain) : chain'[c] = chain[c]
    BY <1>7, Grows DEF GrowsBy, Types
  <2>2. UNCHANGED <<firstTx, anomalies, emissions>>
    BY <1>7 DEF GrowsBy, seenVars
  <2>3. CountedOf(i) \subseteq CountedOf(i)'
    BY <2>1, <2>2 DEF CountedOf
  <2> QED BY <1>3, <2>2, <2>3
<1>8. ASSUME NEW b \in Blocks, TakeLog(b)
      PROVE  emissions'[i] <= Cardinality(CountedOf(i)')
  <2>1. chain' = chain /\ b \in 1..Len(chain)
    BY <1>8, Taken
  <2>2. CASE UNCHANGED <<seenVars, due>>
    BY <1>3, <2>1, <2>2 DEF seenVars, CountedOf
  <2>3. CASE chain[b].topic # NoIntent /\ RecordEmission(chain[b].topic, b)
    <3> DEFINE j == chain[b].topic
    <3>1. j \in Intents
      BY <1>8, <2>3, Taken
    <3>2. CASE Ignores(j, b)
      BY <1>3, <2>1, <3>2 DEF Ignores, seenVars, CountedOf
    <3>3. CASE Disowns(j, b)
      BY <1>3, <2>1, <3>3 DEF Disowns, CountedOf
    <3>4. CASE Counts(j, b)
      <4>1. /\ emissions' = [emissions EXCEPT ![j] = 1]
            /\ firstTx' = [firstTx EXCEPT ![j] = b] /\ anomalies' = anomalies
            /\ chain[b].expected /\ emissions[j] = 0 /\ ~Recorded(j, b)
        BY <3>4 DEF Counts
      <4>2. firstTx[j] = 0
        BY <3>1, <4>1 DEF FirstIsReal
      <4> HIDE DEF j
      <4>3. CASE i = j
        <5>1. emissions'[i] = emissions[i] + 1 /\ firstTx'[i] = b
          BY <4>1, <4>3 DEF Types
        <5>2. CountedOf(i) \subseteq CountedOf(i)' /\ b \in CountedOf(i)'
          BY <2>1, <4>1, <4>2, <4>3, <5>1 DEF CountedOf
        <5>3. b \notin CountedOf(i)
          BY <4>1, <4>3 DEF CountedOf, Recorded
        <5> QED BY <1>4, <5>1, <5>2, <5>3
      <4>4. CASE i # j
        <5>1. emissions'[i] = emissions[i] /\ firstTx'[i] = firstTx[i]
          BY <4>1, <4>4 DEF Types
        <5> QED BY <1>3, <2>1, <4>1, <5>1 DEF CountedOf
      <4> QED BY <4>3, <4>4
    <3>5. CASE Repeats(j, b)
      <4>1. /\ emissions' = [emissions EXCEPT ![j] = emissions[j] + 1]
            /\ anomalies' = anomalies \cup {<<j, b>>} /\ firstTx' = firstTx
            /\ chain[b].expected /\ ~Recorded(j, b)
        BY <3>5 DEF Repeats
      <4> HIDE DEF j
      <4>2. CountedOf(i) \subseteq CountedOf(i)'
        BY <2>1, <4>1 DEF CountedOf
      <4>3. CASE i = j
        <5>1. emissions'[i] = emissions[i] + 1
          BY <4>1, <4>3 DEF Types
        <5>2. b \in CountedOf(i)' /\ b \notin CountedOf(i)
          BY <2>1, <4>1, <4>3 DEF CountedOf, Recorded
        <5> QED BY <1>4, <4>2, <5>1, <5>2
      <4>4. CASE i # j
        <5>1. emissions'[i] = emissions[i]
          BY <4>1, <4>4 DEF Types
        <5> QED BY <1>3, <4>2, <5>1
      <4> QED BY <4>3, <4>4
    <3> QED BY <2>3, <3>2, <3>3, <3>4, <3>5, RecordCases
  <2> QED BY <1>8, <2>2, <2>3, TakenCases
<1>9. CASE Quiet
  BY <1>3, <1>9 DEF Quiet, seenVars, CountedOf
<1> QED BY <1>5, <1>6, <1>7, <1>8, <1>9, Kinds

LEMMA NextIInv == IInv /\ [Next]_vars => IInv'
<1>1. ASSUME IInv, Next PROVE IInv'
  <2>1. Types'
    BY <1>1, TypesStep DEF IInv
  <2>2. OwnIsOwn' /\ FirstIsReal' /\ AnomaliesReal'
    BY <1>1, OwnStep, FirstStep, AnomaliesStep DEF IInv
  <2>3. Past' /\ Progress'
    BY <1>1, PastStep, ProgressStep DEF IInv
  <2>4. HashOnChain' /\ HashIsNoStrangers'
    BY <1>1, HashStep DEF IInv
  <2>5. AnomaliesTold'
    BY <1>1, ToldStep DEF IInv
  <2>6. EmissionsCountedOnce'
    BY <1>1, <2>1, CountStep DEF IInv
  <2> QED BY <2>1, <2>2, <2>3, <2>4, <2>5, <2>6 DEF IInv
<1>2. ASSUME IInv, UNCHANGED vars PROVE IInv'
  <2>1. UNCHANGED <<chain, cursor, phase, to, todo, due, reserved, stale, hash,
                    emissions, firstTx, firstFrom, anomalies, told, raised,
                    crashes>>
    BY <1>2 DEF vars, pollVars, rowVars, seenVars, outVars
  <2>2. Types'
    BY <1>2, <2>1 DEF IInv, Types
  <2>3. OwnIsOwn' /\ FirstIsReal' /\ AnomaliesReal'
    BY <1>2, <2>1 DEF IInv, OwnIsOwn, OwnLog, FirstIsReal, AnomaliesReal
  <2>4. Past' /\ Progress'
    BY <1>2, <2>1 DEF IInv, Past, Handled, Recorded, Progress, DoneIn
  <2>5. HashOnChain' /\ HashIsNoStrangers'
    BY <1>2, <2>1 DEF IInv, HashOnChain, HashIsNoStrangers
  <2>6. EmissionsCountedOnce' /\ AnomaliesTold'
    BY <1>2, <2>1 DEF IInv, EmissionsCountedOnce, AnomaliesTold, Foreign
  <2> QED BY <2>2, <2>3, <2>4, <2>5, <2>6 DEF IInv
<1> QED BY <1>1, <1>2

LEMMA Invariance == Spec => []IInv
BY InitIInv, NextIInv, PTL DEF Spec

-----------------------------------------------------------------------------
(* The service never asks for logs beyond the head nor keeps one it has not*)
(* read, and an intent is not counted more often than there are logs.      *)
THEOREM TailTypeOK == Spec => []TypeOK
<1>1. IInv => TypeOK
  <2> SUFFICES ASSUME IInv PROVE TypeOK
    OBVIOUS
  <2>1. Types
    BY DEF IInv
  <2>2. ASSUME NEW i \in Intents PROVE emissions[i] \in 0..MaxBlocks
    <3>1. /\ emissions[i] <= Cardinality(CountedOf(i)) /\ emissions[i] \in Nat
      BY <2>1 DEF IInv, EmissionsCountedOnce, CountedOf, Types
    <3>2. /\ Cardinality(CountedOf(i)) \in Nat /\ Len(chain) \in Nat
          /\ Cardinality(CountedOf(i)) <= Len(chain) /\ Len(chain) <= MaxBlocks
      BY <2>1, CountedFinite DEF Types
    <3> QED BY <3>1, <3>2, TailAssumption
  <2>3. emissions \in [Intents -> 0..MaxBlocks]
    BY <2>1, <2>2 DEF Types
  <2> QED BY <2>1, <2>3 DEF Types, TypeOK, Senders
<1> QED BY <1>1, Invariance, PTL

(* No log the cursor has passed is missing from the outbox, whichever reads*)
(* failed and wherever the service died: poll moves the cursor last.       *)
THEOREM NothingSkipped == Spec => []BehindCursorTold
<1>1. IInv => BehindCursorTold
  BY DEF IInv, Past, Handled, BehindCursorTold
<1> QED BY <1>1, Invariance, PTL

(* A log is counted once for its intent, however often its range is read.  *)
THEOREM CountedOnce == Spec => []EmissionsCountedOnce
<1>1. IInv => EmissionsCountedOnce
  BY DEF IInv
<1> QED BY <1>1, Invariance, PTL

(* The transaction of an intent does not get past the cursor unrecorded,   *)
(* so that the sweep can complete the intent.                              *)
THEOREM OwnSeen == Spec => []OwnEmissionSeen
<1>1. IInv => OwnEmissionSeen
  <2> SUFFICES ASSUME IInv, NEW i \in Intents, NEW b \in Landed(i), b <= cursor
               PROVE  firstTx[i] = b \/ <<i, b>> \in anomalies
    BY DEF OwnEmissionSeen
  <2>1. b \in 1..cursor /\ chain[b].own /\ chain[b].topic = i
    BY DEF Landed, IInv, Types
  <2> QED BY <2>1 DEF IInv, Past, Handled, Recorded
<1> QED BY <1>1, Invariance, PTL

(* No stranger's emission, and no other contract's, resolves an intent.    *)
THEOREM HashIsHonest == Spec => []HashIsNoStrangers
<1>1. IInv => HashIsNoStrangers
  BY DEF IInv
<1> QED BY <1>1, Invariance, PTL

(* Without a crash every anomaly recorded is enqueued.                     *)
THEOREM AnomaliesEnqueued == Spec => []AnomaliesTold
<1>1. IInv => AnomaliesTold
  BY DEF IInv
<1> QED BY <1>1, Invariance, PTL
=============================================================================
