------------------------------ MODULE Treasury ------------------------------
(***************************************************************************)
(* The money operations of chain-svc (svc/src/treasury.ts) over the intent *)
(* ledger, as concurrent requests of a service that may crash:             *)
(*                                                                         *)
(*   send   signTransfer   a wallet pays, signed with its own key          *)
(*   call   call           a wallet calls a contract of the allowlist      *)
(*   fund   fund           the treasury tops a wallet up                   *)
(*   set    setBalance     the treasury tops up, or sweeps the excess back *)
(*   admin  adminCall      the hub calls a contract with the treasury key  *)
(*                                                                         *)
(* JavaScript runs one handler until its next await, so an action below is *)
(* the stretch of a handler between two awaits, and two requests interleave*)
(* only there.  A request puts at most one transaction on the chain, so    *)
(* the request stands for the hash of that transaction.                    *)
(*                                                                         *)
(* Not here: the order of the treasury's own sends (TreasuryLock.tla), and *)
(* name resolution, policy files and key loading, which before the         *)
(* reservation can only refuse (Refuse).                                   *)
(***************************************************************************)
EXTENDS Ledger, Functions

CONSTANTS
  Requests,      \* the requests of one behaviour; also the hashes
  Inputs,        \* what a client may ask for
  TreasuryAcct,  \* the account the service's own key controls
  ContractAcct,  \* the account of a called contract
  Cap,           \* (agent, token) -> max_per_stage of the wallet's policy
  Allowlists,    \* the versions of calls.json: entry -> maxPerStage
  Funds,         \* what every account holds of every token at first
  NoReq,
  MaxCrashes     \* bound: how often the service dies

Accounts == Agents \cup {TreasuryAcct, ContractAcct}

Request == [op : {"send", "call", "fund", "set", "admin"},
            wallet : Principals, id : Ids, to : Accounts,
            token : Tokens, amount : Nat, call : Calls \cup {NoCall}]

(* `wallet` is the coordinate the row is kept under: the spender, the      *)
(* recipient of a fund, the subject of a set-balance, the hub's pseudo-    *)
(* agent.  `amount` of a set is the balance aimed at; of an admin call,    *)
(* what it mints to the treasury; a call of amount 0 has no amount rule.   *)
WellFormed(q) ==
  /\ q.op = "admin" <=> q.wallet = Platform
  /\ q.op \in {"call", "admin"} <=> q.call # NoCall

ASSUME TreasuryAssumption ==
  /\ Hashes = Requests
  /\ Inputs \subseteq Request /\ \A q \in Inputs : WellFormed(q)
  /\ NoReq \notin Request
  /\ TreasuryAcct # ContractAcct
  /\ Cap \in [Agents \X Tokens -> Nat \cup {Unlimited}]
  /\ Allowlists \subseteq [Entries -> Limits]
  /\ Funds \in Nat /\ MaxCrashes \in Nat

VARIABLES
  pc,         \* where a request is
  req,        \* what it asks for
  stageRead,  \* the stage it read
  limitRead,  \* the maxPerStage of the entry in its allowlist snapshot
  balRead,    \* the balance a set-balance measured
  reply,      \* what it was answered
  allowlist,  \* the limits calls.json holds now
  chain,      \* the transaction of a request: none, pending, mined, reverted
  bal,        \* token balances
  events,     \* outbox rows the operations enqueue: <<kind, request, status>>
  memos,      \* transactions with a memo row
  crashes

readVars == <<stageRead, limitRead, balRead>>
vars == <<ledgerVars, readVars, pc, req, reply, allowlist, chain, bal, events,
          memos, crashes>>

Codes == {"refused", "wallet_retired", "over_stage_cap", "invalid_request",
          "intent_unresolved", "treasury_insufficient", "error", "revert", "ok"}
NoReply == [code |-> "none", tx |-> NoTx]
Answer(code, tx) == [code |-> code, tx |-> tx]

Places == {"idle", "measuring", "admitted", "staged", "reserved", "funded",
           "signed", "sent", "awaiting", "rereading", "done", "crashed"}
Active == Places \ {"idle", "done", "crashed"}

(* The type invariant: among the rest, no account is ever overdrawn, and a *)
(* set-balance never moves a negative amount.                              *)
TypeOK ==
  /\ LedgerTypeOK
  /\ pc \in [Requests -> Places]
  /\ req \in [Requests -> Inputs \cup {NoReq}]
  /\ stageRead \in [Requests -> Stages]
  /\ limitRead \in [Requests -> Limits]
  /\ balRead \in [Requests -> Nat]
  /\ reply \in [Requests -> [code : Codes \cup {"none"},
                             tx : Hashes \cup {NoTx}]]
  /\ allowlist \in Allowlists
  /\ chain \in [Requests -> {"none", "pending", "mined", "reverted"}]
  /\ bal \in [Accounts \X Tokens -> Nat]
  /\ events \subseteq {"agent.spend", "agent.call", "hub.call"} \X Requests
                       \X {"ok", "reverted", "refused"}
  /\ memos \subseteq Requests
  /\ crashes \in Nat

Init ==
  /\ LedgerInit
  /\ pc = [r \in Requests |-> "idle"]
  /\ req = [r \in Requests |-> NoReq]
  /\ stageRead = [r \in Requests |-> stage]
  /\ limitRead = [r \in Requests |-> NoLimit]
  /\ balRead = [r \in Requests |-> 0]
  /\ reply = [r \in Requests |-> NoReply]
  /\ allowlist \in Allowlists
  /\ chain = [r \in Requests |-> "none"]
  /\ bal = [x \in Accounts \X Tokens |-> Funds]
  /\ events = {} /\ memos = {} /\ crashes = 0

-----------------------------------------------------------------------------
(* What a request would move *)

Op(r)    == req[r].op
KeyOf(r) == <<req[r].wallet, req[r].id>>
Tok(r)   == req[r].token

SweepsBackToo(r) == Op(r) = "set" /\ balRead[r] < req[r].amount
SweepsBack(r) == Op(r) = "set" /\ balRead[r] > req[r].amount
WalletSigned(r) == Op(r) \in {"send", "call"} \/ SweepsBack(r)

Moved(r) ==
  IF Op(r) # "set" THEN req[r].amount
  ELSE IF SweepsBack(r) THEN balRead[r] - req[r].amount
  ELSE req[r].amount - balRead[r]

Sender(r)   == IF WalletSigned(r) THEN req[r].wallet ELSE TreasuryAcct
Receiver(r) ==
  IF Op(r) \in {"send", "call"} THEN req[r].to
  ELSE IF Op(r) = "admin" \/ SweepsBack(r) THEN TreasuryAcct
  ELSE req[r].wallet

(* The token refuses what the sender does not hold; an admin call mints.   *)
Covers(r) == Op(r) = "admin" \/ bal[<<Sender(r), Tok(r)>>] >= Moved(r)

Settled(r) ==
  LET out == IF Op(r) = "admin" THEN bal
             ELSE [bal EXCEPT ![<<Sender(r), Tok(r)>>] = @ - Moved(r)]
  IN  [out EXCEPT ![<<Receiver(r), Tok(r)>>] = @ + Moved(r)]

(* What the reservation is asked for *)
Reserved(r)   == IF Op(r) = "admin" THEN 0 ELSE Moved(r)
StageCap(r) ==
  IF Op(r) = "send" \/ (Op(r) = "call" /\ req[r].amount > 0)
  THEN Cap[<<req[r].wallet, Tok(r)>>] ELSE NoStageCap
EntryLimit(r) == IF Op(r) = "call" THEN limitRead[r] ELSE NoLimit

-----------------------------------------------------------------------------
(* A handler, from await to await *)

Finished(r) == pc[r] \in {"done", "crashed"}
At(r, place) == pc[r] = place
Goto(r, place) == pc' = [pc EXCEPT ![r] = place]
Finish(r, code, tx) ==
  /\ Goto(r, "done")
  /\ reply' = [reply EXCEPT ![r] = Answer(code, tx)]

sideVars == <<allowlist, bal, memos, crashes>>

(* Credentials and shapes are checked; send and call ask whether the       *)
(* wallet is retired; a call takes its snapshot of the allowlist.          *)
Arrive(r) ==
  /\ At(r, "idle")
  /\ \E q \in Inputs :
       /\ req' = [req EXCEPT ![r] = q]
       /\ IF q.op \in {"send", "call"} /\ q.wallet \in retired
          THEN Finish(r, "wallet_retired", NoTx)
          ELSE /\ Goto(r, IF q.op = "set" THEN "measuring" ELSE "admitted")
               /\ UNCHANGED reply
       /\ limitRead' = IF q.op = "call"
                       THEN [limitRead EXCEPT ![r] = allowlist[q.call.entry]]
                       ELSE limitRead
  /\ UNCHANGED <<ledgerVars, stageRead, balRead, chain, events, sideVars>>

(* set-balance reads the balance it will correct; equal needs nothing.     *)
Measure(r) ==
  /\ At(r, "measuring")
  /\ LET now == bal[<<req[r].wallet, Tok(r)>>] IN
       /\ balRead' = [balRead EXCEPT ![r] = now]
       /\ IF now = req[r].amount THEN Finish(r, "ok", NoTx)
          ELSE Goto(r, "admitted") /\ UNCHANGED reply
  /\ UNCHANGED <<ledgerVars, stageRead, limitRead, req, chain, events, sideVars>>

(* The stage of the store, or the hub's as it was up to five seconds ago,  *)
(* which may be any other.                                                 *)
ReadStage(r) ==
  /\ At(r, "admitted")
  /\ \E s \in Stages : stageRead' = [stageRead EXCEPT ![r] = s]
  /\ Goto(r, "staged")
  /\ UNCHANGED <<ledgerVars, limitRead, balRead, req, reply, chain, events,
                 sideVars>>

(* The policy file, the registry, the deny list, the keystore or the node  *)
(* say no: nothing has been written yet.                                   *)
Refuse(r) ==
  /\ pc[r] \in {"measuring", "admitted", "staged"}
  /\ Finish(r, "refused", NoTx)
  /\ UNCHANGED <<ledgerVars, req, readVars, chain, events, sideVars>>

-----------------------------------------------------------------------------
(* reserve(), and the three things it can answer *)

TakeReservation(r) ==
  /\ At(r, "staged")
  /\ Reserve(KeyOf(r), stageRead[r], Tok(r), Reserved(r), StageCap(r),
             req[r].call, EntryLimit(r))
  /\ Goto(r, "reserved")
  /\ UNCHANGED <<req, readVars, reply, chain, events, sideVars>>

RefuseOverCap(r) ==
  /\ At(r, "staged")
  /\ ~Duplicate(KeyOf(r))
  /\ OverStageCap(KeyOf(r), stageRead[r], Tok(r), Reserved(r), StageCap(r),
                  req[r].call, EntryLimit(r))
  /\ Finish(r, "over_stage_cap", NoTx)
  /\ UNCHANGED <<ledgerVars, req, readVars, chain, events, sideVars>>

(* call and admin-call compare the call on the row, when there is one; the *)
(* others compare nothing.                                                 *)
WrongCall(r) ==
  LET first == rows[KeyOf(r)].call IN
  Op(r) \in {"call", "admin"} /\ first # NoCall /\ first # req[r].call

AnswerReplay(r) ==
  /\ At(r, "staged")
  /\ Duplicate(KeyOf(r))
  /\ LET first == rows[KeyOf(r)].tx IN
       IF WrongCall(r) THEN Finish(r, "invalid_request", NoTx)
       ELSE IF first # NoTx THEN Finish(r, "ok", first)
       ELSE Finish(r, "intent_unresolved", NoTx)
  /\ UNCHANGED <<ledgerVars, req, readVars, chain, events, sideVars>>

-----------------------------------------------------------------------------
(* Before the broadcast *)

(* The gas estimate runs the transfer, so it needs the balance.            *)
Prepare(r) ==
  /\ At(r, "reserved") /\ WalletSigned(r) /\ Covers(r)
  /\ Goto(r, "signed")
  /\ UNCHANGED <<ledgerVars, req, readVars, reply, chain, events, sideVars>>

(* The one failure that gives the reservation back.                        *)
PrepareFails(r) ==
  /\ At(r, "reserved") /\ Op(r) \in {"send", "call"}
  /\ Release(KeyOf(r))
  /\ \E code \in {"revert", "error"} : Finish(r, code, NoTx)
  /\ UNCHANGED <<req, readVars, chain, events, sideVars>>

(* A sweep that fails keeps its row, wherever it fails.                    *)
SweepFails(r) ==
  /\ At(r, "reserved") /\ SweepsBack(r)
  /\ \E code \in {"revert", "error"} : Finish(r, code, NoTx)
  /\ UNCHANGED <<ledgerVars, req, readVars, chain, events, sideVars>>

(* fund looks at the treasury's balance after it has reserved, and keeps   *)
(* the row when the treasury is short.                                     *)
CheckFloat(r) ==
  /\ At(r, "reserved") /\ Op(r) = "fund"
  /\ IF bal[<<TreasuryAcct, Tok(r)>>] < req[r].amount
     THEN Finish(r, "treasury_insufficient", NoTx)
     ELSE Goto(r, "funded") /\ UNCHANGED reply
  /\ UNCHANGED <<ledgerVars, req, readVars, chain, events, sideVars>>

TreasuryTurn(r) ==
  \/ At(r, "funded")
  \/ At(r, "reserved") /\ Op(r) = "admin"
  \/ At(r, "reserved") /\ Op(r) = "set" /\ ~SweepsBack(r)

(* sendAsTreasury: the queue was busy, the simulation reverted, the node   *)
(* did not take it.  No release; a refused admin call reaches the feed.    *)
TreasurySendFails(r) ==
  /\ TreasuryTurn(r) \/ (At(r, "reserved") /\ Op(r) = "fund")
  /\ \/ Finish(r, "error", NoTx) /\ UNCHANGED events
     \/ /\ Op(r) = "admin"
        /\ Finish(r, "revert", NoTx)
        /\ events' = events \cup {<<"hub.call", r, "refused">>}
  /\ UNCHANGED <<ledgerVars, req, readVars, chain, sideVars>>

-----------------------------------------------------------------------------
(* At or after the broadcast *)

(* The node holds the transaction; the response is still on its way.  The  *)
(* treasury's writeContract simulates first.                               *)
Broadcast(r) ==
  /\ At(r, "signed") \/ (TreasuryTurn(r) /\ Covers(r))
  /\ chain' = [chain EXCEPT ![r] = "pending"]
  /\ Goto(r, "sent")
  /\ UNCHANGED <<ledgerVars, req, readVars, reply, events, sideVars>>

(* What a handler that takes a lost response for a failure would do *)
BroadcastReleases(r) ==
  /\ pc[r] \in {"signed", "sent"}
  /\ Release(KeyOf(r))
  /\ Finish(r, "error", NoTx)
  /\ UNCHANGED <<req, readVars, chain, events, sideVars>>

(* The node refused it, e.g. for a nonce another send of this wallet took, *)
(* or the response was lost: the handler cannot tell, and keeps the row.   *)
BroadcastFails(r) ==
  /\ pc[r] \in {"signed", "sent"}
  /\ Finish(r, "error", NoTx)
  /\ UNCHANGED <<ledgerVars, req, readVars, chain, events, sideVars>>

(* The hash came back.  send, call and admin-call record it at once; fund  *)
(* and set-balance keep it in memory until the receipt.                    *)
HashReturned(r) ==
  /\ At(r, "sent")
  /\ Goto(r, "awaiting")
  /\ IF Op(r) \in {"send", "call", "admin"}
     THEN CompleteIntent(KeyOf(r), r) ELSE UNCHANGED ledgerVars
  /\ UNCHANGED <<req, readVars, reply, chain, events, sideVars>>

HasReceipt(r) == At(r, "awaiting") /\ chain[r] \in {"mined", "reverted"}

(* signTransfer does not look at the receipt's status.                     *)
SendReceipt(r) ==
  /\ HasReceipt(r) /\ Op(r) = "send"
  /\ memos' = memos \cup {r}
  /\ events' = events \cup {<<"agent.spend", r, "ok">>}
  /\ Finish(r, "ok", r)
  /\ UNCHANGED <<ledgerVars, req, readVars, allowlist, chain, bal, crashes>>

(* What a call that ignores the status of its receipt would report *)
CallReceiptUnread(r) ==
  /\ HasReceipt(r) /\ Op(r) \in {"call", "admin"}
  /\ LET kind == IF Op(r) = "call" THEN "agent.call" ELSE "hub.call" IN
     events' = events \cup {<<kind, r, "ok">>}
  /\ Finish(r, "ok", r)
  /\ UNCHANGED <<ledgerVars, req, readVars, chain, sideVars>>

CallReceipt(r) ==
  /\ HasReceipt(r) /\ Op(r) \in {"call", "admin"}
  /\ LET kind == IF Op(r) = "call" THEN "agent.call" ELSE "hub.call" IN
     IF chain[r] = "reverted"
     THEN /\ events' = events \cup {<<kind, r, "reverted">>}
          /\ Finish(r, "revert", NoTx)
     ELSE /\ events' = events \cup {<<kind, r, "ok">>}
          /\ Finish(r, "ok", r)
  /\ UNCHANGED <<ledgerVars, req, readVars, chain, sideVars>>

(* Neither fund nor set-balance looks at the status either; both record    *)
(* the hash only now, and set-balance measures again.                      *)
PlatformReceipt(r) ==
  /\ HasReceipt(r) /\ Op(r) \in {"fund", "set"}
  /\ memos' = memos \cup {r}
  /\ CompleteIntent(KeyOf(r), r)
  /\ IF Op(r) = "fund" THEN Finish(r, "ok", r)
     ELSE Goto(r, "rereading") /\ UNCHANGED reply
  /\ UNCHANGED <<req, readVars, allowlist, chain, bal, events, crashes>>

Reread(r) ==
  /\ At(r, "rereading")
  /\ Finish(r, "ok", r)
  /\ UNCHANGED <<ledgerVars, req, readVars, chain, events, sideVars>>

(* The receipt never comes in time, or the last read fails.                *)
ReceiptFails(r) ==
  /\ pc[r] \in {"awaiting", "rereading"}
  /\ Finish(r, "error", NoTx)
  /\ UNCHANGED <<ledgerVars, req, readVars, chain, events, sideVars>>

-----------------------------------------------------------------------------
(* The world around the handlers *)

requestVars == <<pc, req, readVars, reply, events, memos>>

(* A transaction is mined: it moves the money, or reverts.                 *)
Mine(r) ==
  /\ chain[r] = "pending"
  /\ \/ /\ Covers(r)
        /\ chain' = [chain EXCEPT ![r] = "mined"]
        /\ bal' = Settled(r)
     \/ /\ chain' = [chain EXCEPT ![r] = "reverted"]
        /\ UNCHANGED bal
  /\ UNCHANGED <<ledgerVars, requestVars, allowlist, crashes>>

MoveStage ==
  /\ \E s \in Stages \ {stage} : SetStage(s)
  /\ UNCHANGED <<requestVars, allowlist, chain, bal, crashes>>

Retire ==
  /\ \E w \in Agents \ retired : Freeze(w)
  /\ UNCHANGED <<requestVars, allowlist, chain, bal, crashes>>

EditAllowlist ==
  /\ allowlist' \in Allowlists \ {allowlist}
  /\ UNCHANGED <<ledgerVars, requestVars, chain, bal, crashes>>

(* The process dies and is started again: what it was doing is forgotten,  *)
(* the store and the chain stay.  It may die between the memo of a receipt *)
(* and the hash or the event that follows it.                              *)
MemoOnly == {r \in Requests : HasReceipt(r) /\ Op(r) \in {"send", "fund", "set"}}

Crash ==
  /\ crashes < MaxCrashes
  /\ crashes' = crashes + 1
  /\ pc' = [r \in Requests |-> IF pc[r] \in Active THEN "crashed" ELSE pc[r]]
  /\ memos' \in {memos} \cup {memos \cup {r} : r \in MemoOnly}
  /\ UNCHANGED <<ledgerVars, req, readVars, reply, allowlist, chain, bal,
                 events>>

Handle(r) ==
  \/ Measure(r) \/ ReadStage(r) \/ Refuse(r)
  \/ TakeReservation(r) \/ RefuseOverCap(r) \/ AnswerReplay(r)
  \/ Prepare(r) \/ PrepareFails(r) \/ SweepFails(r)
  \/ CheckFloat(r) \/ TreasurySendFails(r)
  \/ Broadcast(r) \/ BroadcastFails(r) \/ HashReturned(r)
  \/ SendReceipt(r) \/ CallReceipt(r) \/ PlatformReceipt(r)
  \/ Reread(r) \/ ReceiptFails(r)

Environment == MoveStage \/ Retire \/ EditAllowlist \/ Crash

(* Every request has ended: there is nothing more to do.                   *)
Rest == (\A r \in Requests : Finished(r)) /\ UNCHANGED vars

Next ==
  \/ \E r \in Requests : Arrive(r) \/ Handle(r) \/ Mine(r)
  \/ Environment
  \/ Rest

Spec == Init /\ [][Next]_vars

-----------------------------------------------------------------------------
(* Properties *)

OnChain(r)  == chain[r] # "none"

(* At most one transaction ever goes out for one intent of one wallet,     *)
(* whatever is retried, raced, lost or crashed: the double charge that the *)
(* reservation exists to prevent.                                          *)
OneBroadcastPerIntent ==
  \A r1, r2 \in Requests :
    OnChain(r1) /\ OnChain(r2) /\ KeyOf(r1) = KeyOf(r2) => r1 = r2

(* The hash on a row is a transaction that was sent for that very intent.  *)
RecordedHashIsItsOwn ==
  \A k \in Keys :
    rows[k] # NoRow /\ rows[k].tx # NoTx =>
      OnChain(rows[k].tx) /\ KeyOf(rows[k].tx) = k

(* However a retry is interleaved with the first attempt, every hash a     *)
(* client is given for one intent is the same hash.                        *)
ReplayReturnsOriginalHash ==
  \A r1, r2 \in Requests :
    /\ reply[r1].tx # NoTx /\ reply[r2].tx # NoTx
    /\ KeyOf(r1) = KeyOf(r2)
    => reply[r1].tx = reply[r2].tx

(* The ledger, the handlers and the chain together keep what Intent.tla    *)
(* promises of every id: taken once, given back only when nothing was sent,*)
(* sent once, and its hash never changed or forgotten.                     *)
Promise == INSTANCE Intent WITH
  taken <- {k \in Keys : rows[k] # NoRow},
  sent  <- [k \in Keys |-> {r \in Requests : OnChain(r) /\ KeyOf(r) = k}],
  known <- [k \in Keys |-> IF rows[k] = NoRow THEN {}
                           ELSE {rows[k].tx} \ {NoTx}]
KeepsPromise == Promise!Spec

(* stage_spend is the sum of what the standing rows hold: nothing is       *)
(* refunded twice, to the wrong stage or token, or kept after a release.   *)
LiveRows(w, s) == {k \in Keys : k[1] = w /\ rows[k] # NoRow
                                  /\ rows[k].stage = s}
Held(w, s, t) ==
  SumFunction([k \in {j \in LiveRows(w, s) : rows[j].token = t} |->
                 rows[k].held])
StageSpendExact ==
  \A w \in Principals, s \in Stages, t \in Tokens :
    spend[<<w, s, t>>] = Held(w, s, t)

(* What a wallet's own sends and calls move on the chain in one stage      *)
(* stays within max_per_stage, however many of them run at once.           *)
Landed(w, s, t) ==
  {r \in Requests : /\ chain[r] = "mined"
                    /\ Op(r) \in {"send", "call"} /\ req[r].wallet = w
                    /\ Tok(r) = t /\ stageRead[r] = s}
LandedWithinCap ==
  \A w \in Agents, s \in Stages, t \in Tokens :
    Cap[<<w, t>>] \in Nat =>
      SumFunction([r \in Landed(w, s, t) |-> Moved(r)]) <= Cap[<<w, t>>]

(* call_counts is the number of standing rows that were counted.           *)
Counted(w, s, e) ==
  {k \in LiveRows(w, s) : rows[k].counted /\ rows[k].call.entry = e}
CallCountExact ==
  \A w \in Principals, s \in Stages, e \in Entries :
    counts[<<w, s, e>>] = Cardinality(Counted(w, s, e))

(* A wallet's calls of one entry that reach the chain in one stage stay    *)
(* within the limit in force when they were reserved.                      *)
CallsSent(w, s, e) ==
  {r \in Requests : /\ OnChain(r) /\ Op(r) = "call" /\ req[r].wallet = w
                    /\ req[r].call.entry = e /\ stageRead[r] = s
                    /\ limitRead[r] # NoLimit}
CallsWithinLimit ==
  \A w \in Agents, s \in Stages, e \in Entries :
    \A r \in CallsSent(w, s, e) :
      (\A q \in CallsSent(w, s, e) : limitRead[q] <= limitRead[r])
        => Cardinality(CallsSent(w, s, e)) <= limitRead[r]

(* The feed tells the truth about calls: an ok event is a mined call, a    *)
(* reverted one a reverted call, and a refused one never reached the chain.*)
FeedFollowsChain ==
  \A e \in events :
    /\ e[1] # "agent.spend" =>
         /\ e[3] = "ok" => chain[e[2]] = "mined"
         /\ e[3] = "reverted" => chain[e[2]] = "reverted"
         /\ e[3] = "refused" => ~OnChain(e[2])
    /\ e[1] = "agent.spend" => OnChain(e[2])

(* Nothing that may have moved money gives budget back: while a wallet's   *)
(* send or call is on the chain, the stage it was booked in counts it.     *)
OnChainIsBooked ==
  \A r \in Requests :
    OnChain(r) /\ StageCap(r) # NoStageCap =>
      /\ rows[KeyOf(r)].held = Moved(r)
      /\ rows[KeyOf(r)].stage = stageRead[r]
      /\ rows[KeyOf(r)].token = Tok(r)
=============================================================================
