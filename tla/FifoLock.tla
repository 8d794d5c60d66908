------------------------------ MODULE FifoLock ------------------------------
(***************************************************************************)
(* A lock that serves its waiters in the order they came, one at a time,   *)
(* and lets a waiter leave.  What TreasuryLock of svc/src/chain.ts         *)
(* promises the sends of the treasury; TreasuryLock.tla implements it.     *)
(***************************************************************************)
EXTENDS Naturals

CONSTANT Sends

VARIABLES ticket,    \* the order of arrival; 0 before it
          waiting,
          holder     \* empty, or the one that has the lock

vars == <<ticket, waiting, holder>>

Init == /\ ticket = [s \in Sends |-> 0]
        /\ waiting = {}
        /\ holder = {}

Join(s) ==
  /\ ticket[s] = 0
  /\ ticket' \in [Sends -> Nat]
  /\ \A q \in Sends : ticket[q] < ticket'[s]
  /\ \A q \in Sends \ {s} : ticket'[q] = ticket[q]
  /\ waiting' = waiting \cup {s}
  /\ UNCHANGED holder

Start(s) ==
  /\ holder = {} /\ s \in waiting
  /\ \A q \in waiting : ticket[s] <= ticket[q]
  /\ waiting' = waiting \ {s}
  /\ holder' = {s}
  /\ UNCHANGED ticket

GiveUp(s) ==
  /\ s \in waiting
  /\ waiting' = waiting \ {s}
  /\ UNCHANGED <<ticket, holder>>

Finish(s) ==
  /\ s \in holder
  /\ holder' = {}
  /\ UNCHANGED <<ticket, waiting>>

Next == \E s \in Sends : Join(s) \/ Start(s) \/ GiveUp(s) \/ Finish(s)

Spec == Init /\ [][Next]_vars
=============================================================================
