---------------------------- MODULE TreasuryLock ----------------------------
(***************************************************************************)
(* The queue of the transactions the treasury key signs: TreasuryLock and  *)
(* sendAsTreasury of svc/src/chain.ts, and the account's nonce at the node.*)
(*                                                                         *)
(* Every send makes a promise of its own and keeps the promise that was    *)
(* the tail before it.  It has its turn when the one ahead is resolved,    *)
(* and resolves its own when it is through.  A send that has waited too    *)
(* long gives up, but resolves its own promise only when the one ahead of  *)
(* it is resolved.                                                         *)
(*                                                                         *)
(* What runs in the queue takes its nonce from the node's count of the     *)
(* account's transactions, then hands the signed transaction over and      *)
(* waits for the hash.  An RPC call may time out with its request still on *)
(* the wire, so that the node takes it later.                              *)
(***************************************************************************)
EXTENDS Naturals, FiniteSets

CONSTANTS Sends,    \* the treasury sends of one behaviour
          Resolved  \* the promise the queue starts with

ASSUME ResolvedAssumption == Resolved \notin Sends

VARIABLES
  place,      \* where a send is
  ahead,      \* the promise it waits for
  tail,       \* the last promise of the queue
  released,   \* the promises that are resolved
  ticket,     \* history: the order of arrival, 0 before it
  nonceRead,  \* the nonce it was prepared with
  count,      \* the node's count of the account's transactions
  late,       \* transactions still on the wire after their call timed out
  outcome     \* how it ended

queueVars == <<ahead, tail, released, ticket>>
nodeVars  == <<count, late>>
vars == <<place, queueVars, nonceRead, nodeVars, outcome>>

Running == {"preparing", "sending", "accepted"}
Places  == {"new", "queued", "gaveUp", "done"} \cup Running
Outcomes == {"none", "treasury_busy", "error", "nonce", "lost", "hash"}

Entered(s) == place[s] # "new"
Holder(s)  == place[s] \in Running

(* The type invariant.  In particular no send is prepared with a nonce     *)
(* below the account's first.                                              *)
TypeOK ==
  /\ place \in [Sends -> Places]
  /\ ahead \in [Sends -> Sends \cup {Resolved}]
  /\ tail \in Sends \cup {Resolved}
  /\ released \subseteq Sends \cup {Resolved}
  /\ ticket \in [Sends -> Nat]
  /\ nonceRead \in [Sends -> Nat]
  /\ count \in Nat
  /\ late \subseteq Sends
  /\ outcome \in [Sends -> Outcomes]

Init ==
  /\ place = [s \in Sends |-> "new"]
  /\ ahead = [s \in Sends |-> Resolved]
  /\ tail = Resolved /\ released = {Resolved}
  /\ ticket = [s \in Sends |-> 0]
  /\ nonceRead = [s \in Sends |-> 0]
  /\ count = 0 /\ late = {}
  /\ outcome = [s \in Sends |-> "none"]

-----------------------------------------------------------------------------
(* run(): the queue *)

NextTicket == IF tail = Resolved THEN 1 ELSE ticket[tail] + 1

(* What reading the tail after replacing it would do *)
EnterBehindItself(s) ==
  /\ place[s] = "new"
  /\ place' = [place EXCEPT ![s] = "queued"]
  /\ ahead' = [ahead EXCEPT ![s] = s]
  /\ tail' = s
  /\ ticket' = [ticket EXCEPT ![s] = NextTicket]
  /\ UNCHANGED <<released, nonceRead, nodeVars, outcome>>

Enter(s) ==
  /\ place[s] = "new"
  /\ place' = [place EXCEPT ![s] = "queued"]
  /\ ahead' = [ahead EXCEPT ![s] = tail]
  /\ tail' = s
  /\ ticket' = [ticket EXCEPT ![s] = NextTicket]
  /\ UNCHANGED <<released, nonceRead, nodeVars, outcome>>

(* What taking the end of the wait for a turn would do *)
TurnAnyway(s) ==
  /\ place[s] = "queued"
  /\ place' = [place EXCEPT ![s] = "preparing"]
  /\ UNCHANGED <<queueVars, nonceRead, nodeVars, outcome>>

Turn(s) ==
  /\ place[s] = "queued" /\ ahead[s] \in released
  /\ place' = [place EXCEPT ![s] = "preparing"]
  /\ UNCHANGED <<queueVars, nonceRead, nodeVars, outcome>>

(* What a waiter that simply leaves would do *)
WaitExpiresLeaves(s) ==
  /\ place[s] = "queued" /\ ahead[s] \notin released
  /\ place' = [place EXCEPT ![s] = "gaveUp"]
  /\ outcome' = [outcome EXCEPT ![s] = "treasury_busy"]
  /\ released' = released \cup {s}
  /\ UNCHANGED <<ahead, tail, ticket, nonceRead, nodeVars>>

(* The timer is a task and the turn a continuation, which runs first: a    *)
(* send whose turn has come does not give up.                              *)
WaitExpires(s) ==
  /\ place[s] = "queued" /\ ahead[s] \notin released
  /\ place' = [place EXCEPT ![s] = "gaveUp"]
  /\ outcome' = [outcome EXCEPT ![s] = "treasury_busy"]
  /\ UNCHANGED <<queueVars, nonceRead, nodeVars>>

HandOn(s) ==
  /\ place[s] = "gaveUp" /\ ahead[s] \in released /\ s \notin released
  /\ released' = released \cup {s}
  /\ UNCHANGED <<place, ahead, tail, ticket, nonceRead, nodeVars, outcome>>

(* Returned or thrown, the finally clause resolves the promise.            *)
Leave(s, how) ==
  /\ place' = [place EXCEPT ![s] = "done"]
  /\ outcome' = [outcome EXCEPT ![s] = how]
  /\ released' = released \cup {s}
  /\ UNCHANGED <<ahead, tail, ticket>>

-----------------------------------------------------------------------------
(* What runs in it: prepare, send, wait for the hash *)

(* What counting the mined transactions only, or holding the queue for     *)
(* the preparation only, would do                                          *)
ReadNonceBehind(s) ==
  /\ place[s] = "preparing"
  /\ nonceRead' = [nonceRead EXCEPT ![s] = count - 1]
  /\ place' = [place EXCEPT ![s] = "sending"]
  /\ UNCHANGED <<queueVars, nodeVars, outcome>>

ReadNonceReleases(s) ==
  /\ place[s] = "preparing"
  /\ nonceRead' = [nonceRead EXCEPT ![s] = count]
  /\ place' = [place EXCEPT ![s] = "sending"]
  /\ released' = released \cup {s}
  /\ UNCHANGED <<ahead, tail, ticket, nodeVars, outcome>>

ReadNonce(s) ==
  /\ place[s] = "preparing"
  /\ nonceRead' = [nonceRead EXCEPT ![s] = count]
  /\ place' = [place EXCEPT ![s] = "sending"]
  /\ UNCHANGED <<queueVars, nodeVars, outcome>>

(* The simulation reverted, or the node did not answer. *)
PreparationFails(s) ==
  /\ place[s] = "preparing"
  /\ Leave(s, "error")
  /\ UNCHANGED <<nonceRead, nodeVars>>

Accept(s) ==
  /\ place[s] = "sending" /\ nonceRead[s] = count
  /\ count' = count + 1
  /\ place' = [place EXCEPT ![s] = "accepted"]
  /\ UNCHANGED <<queueVars, nonceRead, late, outcome>>

RefuseNonce(s) ==
  /\ place[s] = "sending" /\ nonceRead[s] # count
  /\ Leave(s, "nonce")
  /\ UNCHANGED <<nonceRead, nodeVars>>

HashReturns(s) ==
  /\ place[s] = "accepted"
  /\ Leave(s, "hash")
  /\ UNCHANGED <<nonceRead, nodeVars>>

CallTimesOut(s) ==
  /\ place[s] \in {"sending", "accepted"}
  /\ Leave(s, "lost")
  /\ late' = IF place[s] = "sending" THEN late \cup {s} ELSE late
  /\ UNCHANGED <<nonceRead, count>>

(* The node gets a transaction nobody waits for any more: it takes it or   *)
(* finds its nonce used, or the transaction is gone.                       *)
ArriveLate(s) ==
  /\ s \in late
  /\ late' = late \ {s}
  /\ count' \in {count} \cup (IF nonceRead[s] = count THEN {count + 1} ELSE {})
  /\ UNCHANGED <<place, queueVars, nonceRead, outcome>>

Proceed(s) ==
  \/ Turn(s) \/ HandOn(s) \/ ReadNonce(s) \/ PreparationFails(s) \/ Accept(s)
  \/ RefuseNonce(s) \/ HashReturns(s) \/ CallTimesOut(s)

Next ==
  \E s \in Sends : Enter(s) \/ WaitExpires(s) \/ Proceed(s) \/ ArriveLate(s)

Spec == Init /\ [][Next]_vars

(* The event loop runs every continuation, and every RPC call of the body  *)
(* ends (RPC_TIMEOUT_MS).  Nothing is asked of the waiting limit's timer:  *)
(* what follows holds however long the waiters are willing to wait.        *)
FairSpec == Spec /\ \A s \in Sends : WF_vars(Proceed(s))

-----------------------------------------------------------------------------
(* Properties *)

(* Two treasury sends never overlap between preparation and returned hash, *)
(* also when sends in between have given up waiting.                       *)
OneAtATime == \A s, q \in Sends : Holder(s) /\ Holder(q) => s = q

(* A send has its turn only when every send that came before it is through *)
(* or has given up.                                                        *)
NoOvertaking ==
  \A s, q \in Sends :
    /\ Holder(s) \/ outcome[s] \notin {"none", "treasury_busy"}
    /\ Entered(q) /\ ticket[q] < ticket[s]
    => place[q] \in {"gaveUp", "done"}

(* The node refuses a treasury transaction for its nonce only when an      *)
(* earlier send timed out: what the queue exists to prevent.               *)
NonceClashNeedsLostCall ==
  \A s \in Sends :
    outcome[s] = "nonce" =>
      \E q \in Sends : outcome[q] = "lost" /\ ticket[q] < ticket[s]

(* The chain of promises is a lock that is fair to its waiters.            *)
Lock == INSTANCE FifoLock WITH
  waiting <- {s \in Sends : place[s] = "queued"},
  holder  <- {s \in Sends : Holder(s)}
IsFifoLock == Lock!Spec

(* The queue never stops behind a send: each one that enters resolves its  *)
(* promise in the end, so that the one behind it has its turn.             *)
QueueDrains == \A s \in Sends : Entered(s) ~> s \in released
=============================================================================
