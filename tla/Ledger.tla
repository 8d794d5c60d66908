------------------------------- MODULE Ledger -------------------------------
(***************************************************************************)
(* The intent ledger of chain-svc: the SQLite tables of svc/src/store.ts   *)
(* that decide whether a spend may happen and remember that it did.        *)
(*                                                                         *)
(* Every method of the store is one synchronous transaction, so each       *)
(* operator below is one atomic step.  Which step is taken, and between    *)
(* which awaits of which request, is the business of Treasury.tla.         *)
(*                                                                         *)
(*   rows          intents: one row for each (agent_id, intent_id)         *)
(*   spend         stage_spend: (agent, stage, token) -> spent             *)
(*   counts        call_counts: (agent, stage, entry) -> count             *)
(*   reservations  ledger_facts.reservations, which never goes down        *)
(*   stage         stage_state                                             *)
(*   retired       frozen                                                  *)
(*                                                                         *)
(* An amount is a natural number of a token's smallest units; an entry     *)
(* stands for a (contract, function) pair of calls.json; a hash of call    *)
(* arguments is a member of Args.                                          *)
(***************************************************************************)
EXTENDS Naturals, FiniteSets

CONSTANTS
  Agents,       \* the spawned wallets
  Platform,     \* the pseudo-agent that owns the hub's own calls
  Ids,          \* intent ids, as the callers choose them
  Stages,
  Tokens,       \* manifest keys
  Entries,      \* entries of calls.json
  Args,         \* hashes of call arguments
  Hashes,       \* transaction hashes
  NoRow, NoTx, NoCall,
  Unlimited,    \* a stage cap that records and does not bound
  NoStageCap,   \* no stage cap at all: neither records nor bounds
  NoLimit       \* an entry without maxPerStage

ASSUME SentinelAssumption ==
  /\ Platform \notin Agents
  /\ NoTx \notin Hashes
  /\ Unlimited \notin Nat /\ NoStageCap \notin Nat /\ NoLimit \notin Nat
  /\ Unlimited # NoStageCap

VARIABLES rows, spend, counts, reservations, stage, retired

ledgerVars == <<rows, spend, counts, reservations, stage, retired>>

Principals == Agents \cup {Platform}
Keys  == Principals \X Ids
Calls == [entry : Entries, args : Args]

(* `counted` is not a column.  It remembers whether the entry had a limit  *)
(* when the row was written, which is what decides whether call_counts was *)
(* incremented; the code cannot know it later, and Release does not use it.*)
Row == [stage : Stages, amount : Nat, held : Nat, token : Tokens,
        tx : Hashes \cup {NoTx}, call : Calls \cup {NoCall},
        counted : BOOLEAN]

ASSUME RowSentinelAssumption == NoRow \notin Row /\ NoCall \notin Calls

StageCaps == Nat \cup {Unlimited, NoStageCap}
Limits    == (Nat \ {0}) \cup {NoLimit}

LedgerTypeOK ==
  /\ rows \in [Keys -> Row \cup {NoRow}]
  /\ spend \in [Principals \X Stages \X Tokens -> Nat]
  /\ counts \in [Principals \X Stages \X Entries -> Nat]
  /\ reservations \in Nat
  /\ stage \in Stages
  /\ retired \subseteq Agents

LedgerInit ==
  /\ rows = [k \in Keys |-> NoRow]
  /\ spend = [x \in Principals \X Stages \X Tokens |-> 0]
  /\ counts = [x \in Principals \X Stages \X Entries |-> 0]
  /\ reservations = 0
  /\ stage \in Stages
  /\ retired = {}

-----------------------------------------------------------------------------
(* reserve() *)

(* What a bound that forgets what the stage has spent would ask *)
OverAmountAlone(w, s, t, amt, cap) == cap \in Nat /\ amt > cap

OverAmount(w, s, t, amt, cap) == cap \in Nat /\ spend[<<w, s, t>>] + amt > cap

IsCounted(call, limit) == call # NoCall /\ limit # NoLimit

(* What an off-by-one on the count would ask *)
OverCountLate(w, s, call, limit) ==
  IsCounted(call, limit) /\ counts[<<w, s, call.entry>>] > limit

OverCount(w, s, call, limit) ==
  IsCounted(call, limit) /\ counts[<<w, s, call.entry>>] + 1 > limit

(* The outcomes that write nothing are the guards of the caller: a row is  *)
(* there already (duplicate), or one of the two limits is passed.          *)
UncompletedDuplicate(k) == rows[k] # NoRow /\ rows[k].tx = NoTx
Duplicate(k) == rows[k] # NoRow

OverStageCap(k, s, t, amt, cap, call, limit) ==
  \/ OverAmount(k[1], s, t, amt, cap)
  \/ OverCount(k[1], s, call, limit)

(* What a reservation that records only a bounded wallet would do *)
ReserveBoundedOnly(k, s, t, amt, cap, call, limit) ==
  /\ ~Duplicate(k)
  /\ ~OverStageCap(k, s, t, amt, cap, call, limit)
  /\ rows' = [rows EXCEPT ![k] =
                [stage |-> s, amount |-> amt, token |-> t, tx |-> NoTx,
                 held |-> IF cap \in Nat THEN amt ELSE 0,
                 call |-> call, counted |-> IsCounted(call, limit)]]
  /\ reservations' = reservations + 1
  /\ counts' = IF IsCounted(call, limit)
               THEN [counts EXCEPT ![<<k[1], s, call.entry>>] = @ + 1]
               ELSE counts
  /\ spend' = IF cap \in Nat
              THEN [spend EXCEPT ![<<k[1], s, t>>] = @ + amt] ELSE spend
  /\ UNCHANGED <<stage, retired>>

Reserve(k, s, t, amt, cap, call, limit) ==
  /\ ~Duplicate(k)
  /\ ~OverStageCap(k, s, t, amt, cap, call, limit)
  /\ rows' = [rows EXCEPT ![k] =
                [stage |-> s, amount |-> amt, token |-> t, tx |-> NoTx,
                 held |-> IF cap # NoStageCap THEN amt ELSE 0,
                 call |-> call, counted |-> IsCounted(call, limit)]]
  /\ reservations' = reservations + 1
  /\ counts' = IF IsCounted(call, limit)
               THEN [counts EXCEPT ![<<k[1], s, call.entry>>] = @ + 1]
               ELSE counts
  /\ spend' = IF cap # NoStageCap
              THEN [spend EXCEPT ![<<k[1], s, t>>] = @ + amt]
              ELSE spend
  /\ UNCHANGED <<stage, retired>>

-----------------------------------------------------------------------------
(* completeIntent(), release(), setStage(), freeze() *)

(* What a table keyed by the intent id alone would do *)
CompleteAnyWallets(k, h) ==
  /\ rows' = [j \in Keys |-> IF j[2] = k[2] /\ rows[j] # NoRow
                             THEN [rows[j] EXCEPT !.tx = h] ELSE rows[j]]
  /\ UNCHANGED <<spend, counts, reservations, stage, retired>>

CompleteIntent(k, h) ==
  /\ rows' = IF rows[k] = NoRow THEN rows ELSE [rows EXCEPT ![k].tx = h]
  /\ UNCHANGED <<spend, counts, reservations, stage, retired>>

Minus(a, b) == IF a > b THEN a - b ELSE 0

(* Only an uncompleted row goes.  Every coordinate comes from the row, and *)
(* both subtractions are clamped at zero.                                  *)
Releasable(k) == rows[k] # NoRow /\ rows[k].tx = NoTx

(* Releases that forget one of the two things a row holds *)
ReleaseRowAndCount(k) ==
  IF ~Releasable(k) THEN UNCHANGED ledgerVars ELSE
  LET row == rows[k] IN
  /\ rows' = [rows EXCEPT ![k] = NoRow]
  /\ counts' = IF row.call # NoCall
               THEN [counts EXCEPT ![<<k[1], row.stage, row.call.entry>>] =
                       Minus(@, 1)]
               ELSE counts
  /\ UNCHANGED <<spend, reservations, stage, retired>>

ReleaseRowAndSpend(k) ==
  IF ~Releasable(k) THEN UNCHANGED ledgerVars ELSE
  LET row == rows[k] IN
  /\ rows' = [rows EXCEPT ![k] = NoRow]
  /\ spend' = [spend EXCEPT ![<<k[1], row.stage, row.token>>] =
                 Minus(@, row.held)]
  /\ UNCHANGED <<counts, reservations, stage, retired>>

Release(k) ==
  IF ~Releasable(k) THEN UNCHANGED ledgerVars ELSE
  LET row == rows[k] IN
  /\ rows' = [rows EXCEPT ![k] = NoRow]
  /\ spend' = IF row.held > 0
              THEN [spend EXCEPT ![<<k[1], row.stage, row.token>>] =
                      Minus(@, row.held)]
              ELSE spend
  /\ counts' = IF row.call # NoCall
               THEN [counts EXCEPT ![<<k[1], row.stage, row.call.entry>>] =
                       Minus(@, 1)]
               ELSE counts
  /\ UNCHANGED <<reservations, stage, retired>>

SetStage(s) ==
  /\ stage' = s
  /\ UNCHANGED <<rows, spend, counts, reservations, retired>>

Freeze(w) ==
  /\ retired' = retired \cup {w}
  /\ UNCHANGED <<rows, spend, counts, reservations, stage>>
=============================================================================
