------------------------------- MODULE Outbox -------------------------------
(***************************************************************************)
(* The event outbox of chain-svc: enqueueEvent, dueEvents, eventDelivered  *)
(* and eventFailed of svc/src/store.ts, and the delivery pass of           *)
(* svc/src/events.ts (deliverOnce, deliver) that drains it to hub-core.    *)
(*                                                                         *)
(* An event is its outbox id: AUTOINCREMENT gives each a number above every*)
(* earlier one and never gives it twice, so the order of ids is the order  *)
(* of production.  The pass reads a batch of rows and then posts them one  *)
(* by one; each post is an await, in which the tail goes on enqueueing     *)
(* (and evicting rows the pass still holds), the hub may take the event    *)
(* and its answer be lost, or the process may die.                         *)
(***************************************************************************)
EXTENDS Naturals, FiniteSets

CONSTANTS
  MaxBuffered,  \* MAX_BUFFERED_EVENTS
  Batch,        \* DELIVER_BATCH
  MaxEvents,    \* bound: how many events are produced
  MaxCrashes    \* bound: how often the service dies

ASSUME OutboxAssumption ==
  /\ MaxBuffered \in Nat /\ Batch \in Nat \ {0}
  /\ MaxEvents \in Nat /\ MaxCrashes \in Nat

VARIABLES
  produced,    \* how many events there have been
  anomalous,   \* those whose kind is chain.anomaly
  rows,        \* the outbox
  resting,     \* the rows whose next_attempt_at lies ahead
  delivering,  \* the flag that keeps a second pass out
  batch,       \* the events the pass has yet to post
  posting,     \* the event whose post is out, 0 when none is
  taken,       \* whether the hub has taken that one
  late,        \* posts given up on that may reach the hub all the same
  received,    \* what the hub has
  evicted,     \* what was deleted to stay under the cap
  crashes

passVars == <<delivering, batch, posting, taken>>
vars == <<produced, anomalous, rows, resting, passVars, late, received,
          evicted, crashes>>

Events == 1..MaxEvents

(* The type invariant.  What the pass holds, and what the hub has, was     *)
(* produced; the pass need not hold rows any more.                         *)
TypeOK ==
  /\ produced \in 0..MaxEvents
  /\ anomalous \subseteq 1..produced /\ rows \subseteq 1..produced
  /\ resting \subseteq rows
  /\ delivering \in BOOLEAN /\ taken \in BOOLEAN
  /\ batch \subseteq 1..produced /\ posting \in 0..produced
  /\ late \subseteq 1..produced /\ received \subseteq 1..produced
  /\ evicted \subseteq 1..produced
  /\ crashes \in 0..MaxCrashes

Init ==
  /\ produced = 0 /\ anomalous = {} /\ rows = {} /\ resting = {}
  /\ delivering = FALSE /\ batch = {} /\ posting = 0 /\ taken = FALSE
  /\ late = {} /\ received = {} /\ evicted = {} /\ crashes = 0

-----------------------------------------------------------------------------
(* enqueueEvent(): one transaction, which inserts and evicts               *)

(* The first `limit` members of S.                                         *)
Oldest(S, limit) == {e \in S : Cardinality({d \in S : d <= e}) <= limit}

(* Mutants of Excess: whatever its kind; one row too late; the newest.     *)
ExcessOfAnyKind(S, anomalies) ==
  IF Cardinality(S) <= MaxBuffered THEN {}
  ELSE Oldest(S, Cardinality(S) - MaxBuffered)
ExcessTooLate(S, anomalies) ==
  IF Cardinality(S) <= MaxBuffered + 1 THEN {}
  ELSE Oldest(S \ anomalies, Cardinality(S) - MaxBuffered - 1)
ExcessNewest(S, anomalies) ==
  {e \in S \ anomalies :
     Cardinality({d \in S \ anomalies : d >= e}) + MaxBuffered
       <= Cardinality(S)}

(* The rows to delete for the cap: the oldest, but never an anomaly.       *)
Excess(S, anomalies) ==
  IF Cardinality(S) <= MaxBuffered THEN {}
  ELSE Oldest(S \ anomalies, Cardinality(S) - MaxBuffered)

Enqueue ==
  /\ produced < MaxEvents
  /\ produced' = produced + 1
  /\ anomalous' \in {anomalous, anomalous \cup {produced'}}
  /\ LET held == rows \cup {produced'}
         over == Excess(held, anomalous')
     IN rows' = held \ over /\ evicted' = evicted \cup over
  /\ resting' = resting \cap rows'
  /\ UNCHANGED <<passVars, late, received, crashes>>

-----------------------------------------------------------------------------
(* deliverOnce() and deliver() *)

StartPass ==
  /\ ~delivering
  /\ delivering' = TRUE
  /\ batch' = Oldest(rows \ resting, Batch)
  /\ UNCHANGED <<produced, anomalous, rows, resting, posting, taken, late,
                 received, evicted, crashes>>

(* Mutant of Post: the row is deleted before the hub has answered.         *)
PostDeletes ==
  /\ posting = 0 /\ batch # {}
  /\ posting' \in Oldest(batch, 1)
  /\ batch' = batch \ {posting'} /\ taken' = FALSE
  /\ rows' = rows \ {posting'} /\ resting' = resting \ {posting'}
  /\ UNCHANGED <<produced, anomalous, delivering, late, received, evicted,
                 crashes>>

Post ==
  /\ posting = 0 /\ batch # {}
  /\ posting' \in Oldest(batch, 1)
  /\ batch' = batch \ {posting'} /\ taken' = FALSE
  /\ UNCHANGED <<produced, anomalous, rows, resting, delivering, late,
                 received, evicted, crashes>>

(* The hub takes the event ... *)
HubTakes ==
  /\ posting # 0 /\ ~taken
  /\ taken' = TRUE /\ received' = received \cup {posting}
  /\ UNCHANGED <<produced, anomalous, rows, resting, delivering, batch,
                 posting, late, evicted, crashes>>

(* ... and says so: eventDelivered. *)
Answered ==
  /\ posting # 0 /\ taken
  /\ rows' = rows \ {posting} /\ resting' = resting \ {posting}
  /\ posting' = 0 /\ taken' = FALSE
  /\ UNCHANGED <<produced, anomalous, delivering, batch, late, received,
                 evicted, crashes>>

(* A post given up on before the hub took it may still be on its way.      *)
GivenUp == late' \in IF taken \/ posting = 0 THEN {late}
                     ELSE {late, late \cup {posting}}

(* Mutant of Failed: it puts a backoff on a row that is gone.              *)
FailedBlindly ==
  /\ posting # 0
  /\ resting' = resting \cup {posting}
  /\ GivenUp
  /\ posting' = 0 /\ taken' = FALSE
  /\ UNCHANGED <<produced, anomalous, rows, delivering, batch, received,
                 evicted, crashes>>

(* Refused, failed, timed out, or answered in vain: eventFailed, which     *)
(* finds no row when it has been evicted meanwhile.                        *)
Failed ==
  /\ posting # 0
  /\ resting' = resting \cup ({posting} \cap rows)
  /\ GivenUp
  /\ posting' = 0 /\ taken' = FALSE
  /\ UNCHANGED <<produced, anomalous, rows, delivering, batch, received,
                 evicted, crashes>>

(* Mutant of EndPass: the flag is not cleared when the pass is over.       *)
EndPassKeepsFlag ==
  /\ delivering /\ posting = 0 /\ batch = {}
  /\ taken' = FALSE
  /\ UNCHANGED <<produced, anomalous, rows, resting, delivering, batch,
                 posting, late, received, evicted, crashes>>

EndPass ==
  /\ delivering /\ posting = 0 /\ batch = {}
  /\ delivering' = FALSE
  /\ UNCHANGED <<produced, anomalous, rows, resting, batch, posting, taken,
                 late, received, evicted, crashes>>

BackoffEnds(e) ==
  /\ e \in resting
  /\ resting' = resting \ {e}
  /\ UNCHANGED <<produced, anomalous, rows, passVars, late, received, evicted,
                 crashes>>

HubTakesLate(e) ==
  /\ e \in late
  /\ late' = late \ {e} /\ received' = received \cup {e}
  /\ UNCHANGED <<produced, anomalous, rows, resting, passVars, evicted,
                 crashes>>

Crash ==
  /\ crashes < MaxCrashes /\ delivering
  /\ crashes' = crashes + 1
  /\ delivering' = FALSE /\ batch' = {} /\ posting' = 0 /\ taken' = FALSE
  /\ GivenUp
  /\ UNCHANGED <<produced, anomalous, rows, resting, received, evicted>>

Pass == StartPass \/ Post \/ Failed \/ EndPass

Next ==
  \/ Enqueue \/ Pass \/ HubTakes \/ Answered \/ Crash
  \/ \E e \in Events : BackoffEnds(e) \/ HubTakesLate(e)

Spec == Init /\ [][Next]_vars

(* The timer fires, the timeout ends every post, a backoff ends, and the   *)
(* hub is not down for ever: of the posts without end it answers some.     *)
FairSpec ==
  /\ Spec /\ WF_vars(Pass) /\ \A e \in Events : WF_vars(BackoffEnds(e))
  /\ SF_vars(HubTakes) /\ SF_vars(Answered)

-----------------------------------------------------------------------------
(* Properties *)

(* An event leaves the outbox only when the hub has it or the cap cost it: *)
(* no failed post, lost answer, crash or eviction under a running pass     *)
(* takes another event's row with it.                                      *)
NothingLost == 1..produced \subseteq rows \cup received \cup evicted

(* The detector's findings are never what the cap costs.                   *)
AnomaliesKept == evicted \cap anomalous = {}

(* Above its cap the outbox holds anomalies and nothing else, whatever     *)
(* order rows are delivered and inserted in.                               *)
CapOrAnomalies == Cardinality(rows) <= MaxBuffered \/ rows \subseteq anomalous

(* What is evicted was older than every ordinary event still held.         *)
OldestGoFirst == \A e \in evicted, r \in rows \ anomalous : e < r

(* Every anomaly reaches the hub, and every other event that the cap does  *)
(* not cost.                                                               *)
EverythingArrives ==
  \A e \in Events : e <= produced ~> e \in received \cup evicted
=============================================================================
