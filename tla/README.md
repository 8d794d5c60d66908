# A verification development for agent-chain

agent-chain is a private chain for a game of language-model agents: a
settlement service (`svc/`, "chain-svc") holds every wallet key and the
treasury key and signs for them, a tool server (`wallet-mcp/`) stands in front
of it for each agent, and a handful of Solidity contracts (`contracts/`) hold
the tokens, the names and the games.  This directory states in TLA+ what that
system must do right, checks it with TLC on small instances, and proves the
parts that matter most with TLAPS for instances of any size.

Money is the subject.  The service is asked to move it by callers that time
out and ask again, signs on their behalf, hands the transaction to a node that
may take it without saying so, and may die at any moment.  What it must never
do is pay twice for one request, let a wallet past its cap, or tell the game a
story the chain does not.

## 1. Inventory

### Parts, state, operations

| Part | State | Operations | Model |
|---|---|---|---|
| Intent ledger, `svc/src/store.ts` | `intents`, `stage_spend`, `call_counts`, `ledger_facts`, `stage_state`, `frozen` (SQLite) | `reserve`, `completeIntent`, `release`, `setStage`, `freeze` | `Ledger.tla` |
| Treasury operations, `svc/src/treasury.ts` | none that outlives a request but a five-second stage cache | `signTransfer`, `call`, `fund`, `setBalance`, `adminCall`; `history`, `read` | `Treasury.tla` |
| Treasury send queue, `svc/src/chain.ts` | a chain of promises in memory | `TreasuryLock.run`, `sendAsTreasury` | `TreasuryLock.tla` |
| Event tail and sweep, `svc/src/events.ts` with `recordEmission`, `unresolvedIntents` of the store | `cursors`, the emission columns of `intents`, `intent_anomalies` | `pollOnce`, `sweepOnce` | `EventTail.tla` |
| Outbox, `store.ts` and `events.ts` | `outbox`, a `delivering` flag in memory | `enqueueEvent`, `deliverOnce`, `eventDelivered`, `eventFailed` | `Outbox.tla` |
| Spawn, retirement, policies, `svc/src/spawn.ts`, with `keystore.ts` | key files, policy files, `spawns`, `wallet_tokens`, `frozen`, the registry | `spawn`, `retire`, `patchPolicy`, `addAlias`, `rotateToken` | `Wallets.tla` |
| Names, `resolver.ts`, `NameRegistry.sol` | the registry | `resolve`, `lookup`, `aliasesOf`, registration, transfer | `Names.tla` |
| Policy rules, `policy.ts` of both programs | none | reading, merging, enforcing a document | `PolicyRules.tla` |
| Boot, `index.ts`, `activate.ts`, `migrate.ts`, `deployment.ts` | the recorded deployment, the ledger watermark | `assertLedgerNotRestored`, `assertLedgerLifetimeIntact`, `assertDeploymentUnchanged`, `commitActivation` | `Boot.tla` |
| Deployment, `admin-deploy.ts`, `deploy.ts`, `manifest.ts`, `Deploy.s.sol` | manifest and record files, contracts on chain | `adminDeploy` | `Deploy.tla`, `Boot.tla` |
| Agent tools, `wallet-mcp/src/` | a local ledger file, a policy file | `send`, `call`, `reconcile` | `Agent.tla` |
| Token, converter, escrow, judge hook, `contracts/src/` | balances, pairs, escrows | mint, transfer, freeze, `setPair`, `convert`, `create`, `complete`, `refund` | `Contracts.tla` |
| Call allowlist, `svc/src/calls.ts`, `callargs.ts` | a snapshot of `calls.json` | `snapshot`, `validateArgs` | the limit a request reads, in `Treasury.tla` |
| HTTP, credentials, validation, errors, configuration | the holder of the services | routing and parsing | outcomes only |
| Containers and front, `docker/` | files | shell, proxy | no |

### How they meet

A request enters through the HTTP surface, is turned into one of the treasury
operations, and runs as a JavaScript handler: alone until its next `await`,
interleaved with every other handler, poll, sweep and delivery at each of
them.  The store is synchronous SQLite, so each of its methods is one atomic
step of whoever calls it.  Wallets sign with their own keys and go to the node
directly; what the treasury key signs goes through `TreasuryLock`.  The tail
reads the node's logs by timer and writes to the same store: the emission
columns of `intents`, which the sweep reads to complete what a handler could
not, and the outbox, which the delivery pass empties to the hub.

### What is hard

* Two attempts of one request, the second started at any await of the first.
* A transaction the node took while the service saw an error.
* A crash between any two store writes.  All promises are forgotten; the
  store, the chain and what is on the wire are not.
* Values read before an await and used after it: the stage, the allowlist
  snapshot, the measured balance, the rows a delivery pass holds.
* Logs of strangers that quote an intent of ours, in any order with ours.
* A bounded outbox that evicts while a pass posts what it evicts.
* A queue whose waiters may leave.
* A spawn in eight steps over four stores, none of which shares a transaction
  with another, run again after it died or beside a second one, with what it
  sent still on its way.
* Three volumes that must be of one lifetime, with nobody to say so but what is
  written on them; an operator who restores one of them.
* A tool that times out on a service that is still at work, and a persona that
  may ask anything again under any id.
* Conversion rates set pair by pair, with rounding in between.

`PROJECT.json` lists each of these at the line where it bites, with the
properties that would catch it.

### What makes each part correct

* Ledger and treasury: one transaction for an intent, ever; a replay gets the
  first hash; what lands stays within the cap; holds and counts are exactly the
  standing reservations; a reservation goes only when nothing was sent.
* Send queue: one at a time, in order of arrival, always drained.
* Tail: nothing behind the cursor is missed, no emission counted twice, no
  stranger resolves an intent, every anomaly is told.
* Outbox: at least once; the cap costs the oldest ordinary events and nothing
  else.
* Spawn: a marked wallet is whole; a re-run finishes what a crash left, without
  a second grant; no reader sees half a policy, no answered rule is lost.
* Names: no registration turns what pays one wallet into what pays another.
* Boot: an intent the guards have seen is never offered again; a restart is
  refused for a cause.
* Deploy: a token is seeded once whatever failed; what is served is whole.
* Agent tools: a payment is made once; an ok is about what was asked; every
  call returns.
* Contracts: only a mint makes value; a frozen account loses nothing.

## 2. The modules

```
Intent  <--implements--  Treasury  --EXTENDS-->  Ledger
  ^                         ^
  |          MCTreasury ----+---- TreasuryProofs
  +--INSTANCE--  Agent  --EXTENDS-->  PolicyRules
                   ^--- MCAgent, AgentProofs
FifoLock <--implements--  TreasuryLock  <-- TreasuryLockProofs
                          EventTail     <-- MCEventTail, EventTailProofs
                          Outbox        <-- OutboxProofs
Names   <--EXTENDS--  Wallets    <-- MCWallets, WalletsProofs
   ^----EXTENDS-----  Contracts  <-- MCContracts, ContractsProofs
Deploy  <--EXTENDS--  Boot       <-- MCBoot, BootProofs
```

**`Ledger.tla`** has the tables as functions and each store method as an action
operator: `Reserve` is the `reserve` transaction with its three outcomes
(`Duplicate` and `OverStageCap` are the guards of the two that write nothing),
`Release` takes every coordinate from the row and clamps both subtractions, as
the code does.  The three states of `stageCap` are a natural number,
`Unlimited` (recorded, not bounded) and `NoStageCap` (neither).  One field of a
row, `counted`, is not a column: it remembers whether a call count was
incremented for the row.  `Release` does not read it; properties do.

**`Treasury.tla`** is the handlers.  A request has a place (`pc`), and an
action is the stretch between two awaits: `Arrive`, `Measure` (set-balance),
`ReadStage`, then one of `TakeReservation`, `RefuseOverCap`, `AnswerReplay`,
then `Prepare` or `PrepareFails` for what a wallet signs, `CheckFloat` and
`TreasurySendFails` for what the treasury signs, then `Broadcast`,
`HashReturned` and a receipt.  `Broadcast` and `HashReturned` are apart because
the node takes the transaction before the service hears of it: `BroadcastFails`
and `Crash` fall between them.  The five operations share actions where the
code does the same and differ where it differs: who records the hash at once
and who after the receipt, who releases and who does not, who looks at the
receipt's status, who compares the call on a replay.

| pc | in the code |
|---|---|
| `idle` → `admitted`, `measuring` | credential, shapes, `isRetired`, allowlist snapshot |
| `staged` | the stage is read; policy, registry and keystore may still refuse |
| `reserved` | after `store.reserve` answered `reserved` |
| `funded` | fund has seen enough float |
| `signed` | prepared and signed; inside the call to the node |
| `sent` | the node has the transaction; the answer is on its way |
| `awaiting` | the hash is known; waiting for the receipt |
| `rereading` | set-balance measures what came of it |

A request stands for the hash of its transaction, since it sends at most one.
The stage read is any stage: the hub's answer is cached for five seconds and
may differ from the store's.  Mining may revert any transaction, and must
when the sender does not hold the amount.

**`Intent.tla`** is what an intent id promises its wallet: taken once, given
back only while nothing was sent, sent once, its hash never changed. `Treasury`
implements it (`KeepsPromise`) with `taken` the keys that have rows, `sent` the
transactions of that key on the chain, and `known` the recorded hash.

**`TreasuryLock.tla`** is the queue as the promises it is made of: `ahead`,
`tail` and the set of resolved promises.  A waiter that gives up
(`WaitExpires`) leaves its promise behind, resolved by `HandOn` when the one
ahead is.  The body reads the account's nonce, hands the transaction over and
waits; a call that times out (`CallTimesOut`) may leave it on the wire
(`late`).  **`FifoLock.tla`** is a lock with a waiting line; the queue
implements it (`IsFifoLock`).

**`EventTail.tla`** has the poll as a pass over the logs between cursor and
head in the code's four loops, with its three awaits (`head`, `logs`, `events`)
and every store transaction as a step of its own, so that a crash falls between
them.  The requests of `Treasury` appear as the four things they do to the
tables the tail reads: `Reserve`, `Release`, `Land`, `LearnHash`.  A log says
whether it is this service's own, which no code reads.

**`Outbox.tla`** has the rows as ids, `enqueueEvent` with its eviction as one
step, and a pass that reads a batch, posts one after the other, and may be
answered, refused, timed out (with the post still on its way) or killed.

**`Names.tla`** is the registry as a value - the record of each name, the
reverse slot of each address, the events - with the contract's functions as
operators on it, and what the resolver reads off it: the reading of a bare name
in the caller's namespace (`PickReading`, `PaidAs`) and the aliases of an
address. A name is a model value; canonical ids and aliases are told apart as
the service tells them, and the contract does not.

**`Wallets.tla`** has a request as a job in a slot, its place (`pc`) the await
it stands at.

| pc | in the code |
|---|---|
| `key`, `load`, `create`, `seal` | the key file: looked for; loaded, or opened exclusively and written |
| `endow`, `gas`; `fund`, `play` | a measure of the balance, then the transfer of what is missing |
| `name` ... | `registerIfAbsent`: a lookup, then a registration, for the id and the alias |
| `open`, `write`, `rename` | the policy file: beside the target, written, renamed over it |
| `token` | credential and marker, in one stretch |

A patch reads, merges and writes by the same three steps; a retirement freezes,
lists and then clears one name per transaction.  What a job sends as the
treasury is submitted (`Submits`): it lands and is answered, or the request
ends, and its transaction may stay on the `wire`, to land (`LandsLate`) at any
later moment or never.  The process may die (`Crash`), which leaves a key file
that was opened and not written `Empty`, every job gone, and what one of them
was sending (`Outgoing`) on the wire.  A transaction that lands voids what is on
the wire, which has its nonce.

**`PolicyRules.tla`** is operators only: what documents the gate takes, what
they normalise to, how a patch merges, what the defaults file expands to, and
the verdict on a send, of the service (`ServiceVerdict`) and of the tool
(`CheckLocally`).  A document is a function on the keys somebody wrote; `Junk`
is a value of the wrong shape; `TooFine` a cap with more places than the token.

**`Agent.tla`** is the tool between a persona and the service.  A tool call
recalls, resolves, checks, posts and waits; the service's half of it is
`Intent`'s actions (`Svc!Take`, `GiveBack`, `SendOut`, `Learn`), so that what
the tool is checked against is what `Treasury` is shown to implement.  Answers
may be lost, the service may die or never answer, the tool may die with or
without its file, an operator may edit the policy.

**`Deploy.tla`** is operators on a manifest: `Accepted`, the addresses that
CREATE2 derives, the `Script` of transactions, which of them the chain still
needs (`Needed`), the assertions, the record and the identity the store is
bound to. **`Boot.tla`** carries it out: the process boots, activates a record
or serves without one, takes deploys one at a time and send by send, and dies;
an operator with the service down wipes or restores a volume, each once
(`MaxSurgery`).  What `prepareActivation` answers is `Verdict`, in the
code's order, with what each step leaves behind before a later one refuses.
An activation may also end between any two of its steps (`ActivationBreaks`,
`DeployBreaks`), and inside the writing of the watermark
(`BreaksAtWatermark`): the file is truncated before it is filled, and an empty
one reads as no mark.  `torn` remembers for the properties that this happened.

**`Contracts.tla`** has one action for each transaction of the token, the
converter and the escrow, over a registry whose names move.  A revert is no
action.  `minted` says what the last transaction minted for the treasury, so
that a conversion or a payout that credits too much is not taken for a mint.

The operators whose comment says what a mistaken version would do, and which no
action uses, are the mutants the properties are tried against.

## 3. What is checked

Every run that passes explores its whole state space.

| Run | Instance | Shows |
|---|---|---|
| `MCSpends` | 3 requests; two wallets, two currencies, two stages; a cap of 2 | `LandedWithinCap`, `StageSpendExact`, `OnChainIsBooked`, `RecordedHashIsItsOwn` |
| `MCCalls` | 3 requests; limit 1 per stage; two ids, two argument lists; the hub's own call | `CallCountExact`, `CallsWithinLimit`, `FeedFollowsChain` |
| `MCFunds` | 3 requests on one id: fund, set-balance up and down, call; 1 crash; `calls.json` changes | `OneBroadcastPerIntent`, `ReplayReturnsOriginalHash`, `KeepsPromise` |
| `MCTreasuryLock` | 4 sends | `OneAtATime`, `NoOvertaking`, `NonceClashNeedsLostCall`, `IsFifoLock`, `QueueDrains` |
| `MCTail` | a send, a call and a top-up; 2 blocks with strangers' logs; 1 crash | `BehindCursorTold`, `EmissionsCountedOnce`, `OwnEmissionSeen`, `HashIsNoStrangers`, `AnomaliesTold`, `LandedFirstIsConfirmed` |
| `MCOutbox` | 3 events, a cap of 1, a batch of 2; 1 crash | `NothingLost`, `AnomaliesKept`, `CapOrAnomalies`, `OldestGoFirst`, `EverythingArrives` |
| `MCBoot` | 3 manifests, one wallet, one intent, both modes, with and without the acknowledgements; 2 volumes touched; any number of boots, crashes, activations cut short and deploys | `WitnessedIdsStay`, `RefusalHasCause`, `SeededOnce`, `LiveIsWhole` |
| `MCWallets` | two wallets, one of them perhaps a burner, and a bare name that is also the local id of one; 4 requests, two at once; 2 faults, after which a transaction may land late; a name its owner moves | `SpawnedIsWhole`, `FundedOnce`, `PolicyKept`, `RetiredIsUnnamed`, `NeverRedirected` |
| `MCAgent` | 2 tool calls of four kinds; 2 faults; a policy file that comes and goes | `PaidOnce`, `OkIsForWhatWasAsked`, `EveryCallReturns` |
| `MCContracts` | 2 tokens, 2 accounts, rates of 2 and one half, one escrow, up to two units of each | `OnlyMintMakesValue`, `FrozenPaysNothing` |

`MCAgent` also evaluates, as assumptions, `PolicyRules` over every document of
a small vocabulary (both shapes, both bounds, five values, lists of each kind
of pattern, unknown keys): `LocalRefusalsStand`, `GateAgreesWithItsReader`,
`WritesAreReadable`; and one exception, `AliasRefusedLocally`.  `MCBoot`
evaluates that a manifest of every kind of module passes its own assertions,
and that a repeated deploy of it sends nothing.

Why the bounds are enough.  Two requests are needed for a race and a third to
see its result (a replay of a replay, a third spend after a release); the cap
of 2 against spends of 2 and 1 makes every pair exceed it and every one pass.
One crash is enough because the state a crash leaves is the store and the
chain, which the next requests meet as any other state.  Two blocks give every
order of an intent's own log and a stranger's.  A cap of one and three events
make eviction of one and of two rows, with and without anomalies before them.
Four sends let two in the middle of the queue give up.  Four wallet requests
are a spawn, its retry, and two that race for its names; two faults let the
retry fail too, and put two payments on the wire.  The run has the retry that a
late payment overtakes: without `overtaken` in `FundedOnce` it ends in that
trace.  Two surgeries are a volume lost and another put back, or two
lost; three would add a wiped chain and a wiped store with the old store put
back over what came after (section 4), the exception `Overlaid` of two
properties, which this run therefore does not need.  With `MaxSurgery = 3` the
properties hold as well, in a run of four million states; and `BootProofs`
proves them for any number.  Boots are not bounded.  One reservation is enough
for a mark to be torn as it rises from 0 and the restart after it to be refused.
That a torn mark lets go of a witnessed intent takes two (`MaxMade = 2`, two
ids, one manifest and one surgery: 677,108 states, no error; and a violation,
of twelve states, if a torn mark is still taken to witness).  Two calls of
the tool are the first and its retry, and both halves of an overlap.
Two tokens and one pair each way are what the loop guard looks at;
`OnlyMintMakesValue` says of a third token what is true of it, that turning it
into one of the two may make value (section 4).  One name is moved, once: what
a second move can do is covered by the proof.  What does not rest on these
bounds is in section 5.

Deadlock is not checked where requests run out and the system stops:
`MCTreasuryLock`, `MCWallets`, `MCAgent`.  Symmetry (of requests, stages and
slots) is used where the properties are invariants, an action property, or the
refinement of a specification without fairness.

### Fairness

* `TreasuryLock!FairSpec`: what holds the queue goes on.  The event loop runs
  every settled continuation, and each await has a limit (`RPC_TIMEOUT_MS`,
  viem's receipt timeout).  Nothing is asked of the waiting limit's timer.
* `EventTail!FairSpec`: the timers of `start` fire; strong fairness of the
  three reads, because a node that fails some polls answers others.
* `Outbox!FairSpec`: the delivery timer fires, `AbortSignal.timeout` ends every
  post, backoffs end; strong fairness of the hub, because the service retries
  for ever and a hub that never answers gets nothing.
* `Agent!Spec`: a step of a tool call that is possible is taken.  Every request
  has `AbortSignal.timeout`, and `reconcile` a deadline.  Nothing is asked of
  the service, which may hang for ever.

## 4. Where the code and its own words part

Two runs end in a violation, each of a sentence the repository says of itself.

* `MCRestart`, `HonestRestartStarts`.  A store without intents and wallets
  beside a key and contracts is "reachable ONLY by a ledger wipe on a live
  game" (`migrate.ts:731`).  A first spawn writes its key first and its marker
  last; if the process dies in between, the next boot is refused, and asks the
  operator to acknowledge a wipe that never was.
* `MCRevert`, `OriginalOutcome`.  "A persona re-sending under an id it has used
  before must meet the ORIGINAL OUTCOME" (`wallet-mcp/src/store.ts:93`).  A
  call that was mined and reverted is told so; asked again under its id, the
  service answers the row's hash as a success (`treasury.ts:1731`) and the tool
  says ok.

What follows was met in the same way - a trace found while modelling, or a
reading - and is kept here rather than in a run of its own.

Treasury and ledger:

* A fund the treasury cannot cover reserves its row first and keeps it.  The
  retry is told it is "already in flight ... retry once it resolves"
  (`treasury.ts:448`); it never does.
* "A REPLAY IS ONLY A REPLAY IF IT IS THE SAME CALL" (`treasury.ts:1716`) is
  not asked of a row that a transfer left: a call under the id of a send is
  answered with the send's hash.
* The clamp in `releaseCallCount` is called unreachable because "there cannot
  be more releases than reservations" (`store.ts:1415`).  A limit added to an
  entry while a call of it is being prepared makes it so, and the release takes
  another call's slot.
* An id whose handler died before its broadcast is told the attempt "reached
  the broadcast"; `set-balance` is documented as setting a balance "EXACTLY"
  and measures several awaits before it moves; `signTransfer` does not look at
  its receipt's status.

Tail:

* A crash between recording an anomaly and enqueueing it loses the event, which
  `events.ts:185-188` calls the worse of the two outcomes.
* "a call's on-chain proof resolves its intent" (`events.ts:356`): the sweep
  resolves only what names the wallet as sender, and most events name none.
* The treasury's own top-up is reported as "somebody spending THEIR OWN funds"
  (`events.ts:230`); a stranger's emission that comes first under an intent
  keeps the sweep from resolving it, also when the wallet's own follows.

Boot and deploy:

* "clearing it once the game is healthy is what makes the next wipe loud again"
  (`migrate.ts:829`): the watermark is never lowered, so after an acknowledged
  wipe a boot without the flag refuses until the new store has made as many
  reservations as the old.
* "a corrupt byte in it must not be able to lock an operator out of a healthy
  game" (`keystore.ts:87-88`): `recordLedgerWatermark` truncates the file and
  then fills it (`keystore.ts:106`). If the process dies in between, the mark
  reads as absent, and the next boot refuses any store that has made a
  reservation (`migrate.ts:770-787`), blaming a lost keystore volume. Until the
  mark is written again it vouches for nothing, either: a copy of the store
  from before its first reservation, with a wallet in it, passes both controls
  (`migrate.ts:771`, `migrate.ts:840`), as does an empty store where there is
  no key, and ids that have paid are offered again. `RefusalHasCause` names
  this cause (`torn`), and a torn mark witnesses no intent in
  `WitnessedIdsStay`.
* A store of another lifetime that has made as many reservations passes the
  watermark; what was reserved since the last activation is not witnessed at
  all.
* `readManifest` takes a token whose key the service reserves; in container
  mode it is deployed, and the service then refuses to load the record.
* Step 5 is "roles, wiring and seed, read back from the chain"
  (`admin-deploy.ts:14`): `assertDeployment` reads no seed.  A deploy over a
  record that ended halfway can leave a token unseeded, and a boot can go live
  with its names module missing.
* Step (c) reads the tokens and step (e) probes one module.  A record without
  a token is activated over a wiped chain: nothing is read, and the missing
  registry is taken for a chain not yet deployed to.
* A chain wiped and deployed again from the same manifest has the same
  addresses, so that the recorded deployment does not tell the two apart.
  A store put back brings its record with it: over a chain on which a first
  deploy has ended between a token's creation and its seed, the service goes
  live with the token empty, and no later deploy fills it (`Overlaid`).

Wallets and names:

* The reverse slot "is always its canonical id, never a vanity alias"
  (`resolver.ts`), and the registry's "THE CANONICAL HOLDS THE SLOT FROM
  SPAWN": a burner has no canonical name, and its first alias takes the empty
  slot.
* Two spawns of one wallet at once may both fund it, and the later revokes the
  token the earlier was given.
* "a resumed spawn must not double-fund one that did" (`spawn.ts:370`): the
  balance is read (`spawn.ts:346`, `spawn.ts:365`) before the wait for the
  treasury's queue, in which the nonce is taken.  A payment of an earlier
  attempt that timed out, or outlived its process, and lands in between is
  given a second time, with no two spawns at once.  `FundedOnce` leaves such a
  wallet out (`overtaken`), and no other.
* A crash between the exclusive open of a key file and its write leaves an
  empty file that every retry refuses to load.
* The file beside a policy has one fixed name: two writers tear it, or one
  renames what the other has half written.
* `addAlias` does not ask whether the wallet is retired; a name cleared by
  retirement can never be registered again; `registrantOf` names the first
  owner after a transfer.

Agent tools:

* `error` is explained as "it did not happen" (`wallet.ts:178`) and also stands
  for some (`chain_error`, `internal_error`) after which the money may have
  moved.
* "refuses a repeat under the same id with a DIFFERENT `to` or `vee`"
  (`wallet.ts:105`) fails when the first answer or the local file was lost.
* `GET /intents` documents "confirmed - the receipt says success" and "failed"
  (`server.ts:262`); it answers confirmed from a recorded hash alone, and
  failed never, so that `reconcile` has a branch nothing reaches.
* The tool judges a payee as typed, the service by both names: an alias of an
  allowed wallet is refused locally (`AliasRefusedLocally`).
* The gate accepts a legacy pair of caps where no token is deployed, and the
  normaliser behind it throws.

Contracts:

* "no loop can mint value from nothing" (`Converter.sol:18`): the guard
  (`Converter.sol:77-94`) looks at the reverse pair only; three tokens with
  rates above one in a ring mint value.  `OnlyMintMakesValue` therefore leaves
  out a conversion of a third token into one of the two it compares.

## 5. What is proved

Every safety property that a passing run checks is a theorem, for every value
of the constants, under the assumptions named in the modules
(`SentinelAssumption` of `Ledger` and of `Boot`, `RowSentinelAssumption`,
`TreasuryAssumption`, `ResolvedAssumption`, `OutboxAssumption`,
`PolicyAssumption`, `AgentAssumption`, `NamesAssumption`, `WalletsAssumption`,
`NothingElseAssumption`, `ContractsAssumption`, `TailAssumption`,
`BootAssumption`: sentinels differ from values, inputs are well formed, bounds
are numbers, the accounts that hold a token are finitely many, a manifest is
one that `readManifest` accepts and has a token or a registry to probe; the
runs evaluate all of them).  Two theorems have a hypothesis
of their own, `LimitsStable`, explained with them.

**`TreasuryProofs`.**  The invariant is `IInv == Shape /\ PlaceOK /\ Owned /\
RecordedHashIsItsOwn`.  `Shape` is `TypeOK` with the fact that a request that
has arrived asks for something.  `PlaceOK` ties the place of a handler to the
chain: past its broadcast its transaction is there, and a transaction is there
only if its handler is past the broadcast or has ended.  `Owned` is the heart:
a request holds its intent from its reservation on, and for ever once it has
sent; the row of a held intent stands, and nobody else holds it.  It is needed
because `OneBroadcastPerIntent` says nothing of requests that are about to
send; it is kept because a row is taken only when there is none, and `Release`
runs only at `reserved`, by the holder, before anything is sent.  From it
follow `TypeCorrect`, `OneBroadcast`, `RecordedHash`, and step by step
`PromiseKept`: each action is `Take`, `GiveBack`, `SendOut` or `Learn` of
`Intent`, or a stutter.

On top of it, one part for each kind of thing the service says or counts:

* `ToldOK` and `FeedOK`: answers and events are never taken back, so they must
  be about what cannot change.  A hash in an answer is a transaction that was
  sent for that intent; with `OneBroadcast` two answers of one intent agree
  (`ReplayAnswersAgree`).  A refusal is in the feed only of a request that is
  over, so nothing it does later can belie it (`FeedIsTrue`).
* `Booked`: the row of a held intent says of stage, token, amount and call what
  its holder will send (`SpendsStayBooked`).  A stage that changes between the
  reservation and the release does no harm, because the release reads the row.
* `BudgetOK`: `stage_spend` is the sum over the rows, and within the policy cap
  where there is one.  A reservation adds one row and its amount, a release
  takes both away, every other step is `Calm`: it keeps what rows hold.  From
  this `SpendIsExact`, and, since what moved on the chain is booked in rows
  that are different for different transfers, `CapHoldsOnChain`.
* `CountOK`: the same for `call_counts`, with `CallersWithinLimit`: of the calls
  of one entry in one stage, sent or about to be, no more than the largest
  limit among them (`CountsAreExact`, `CallLimitHolds`).  These two assume
  `LimitsStable`: no edit of `calls.json` gives a limit to an entry that had
  none, or takes it away; edits of the number are covered.  Without it they are
  false, for the code too: `Release` takes one off the count of a call that was
  never counted (section 4).

The first section of `TreasuryProofs` is about sums.  A sum is the number of
units it adds up: pairs of an element and a number up to its value.  So a sum
over a union, over a set with one element more, or over a smaller function is a
statement about the cardinality of finite sets, which the library proves.  That
what `FoldFunctionOnSet` computes is that number is by the least finite set on
which it would not be.  `Contracts` counts units to begin with.

**`TreasuryLockProofs`.**  `IInv == TypeOK /\ InLine /\ InOrder /\ NoncesOK`.
`InLine` says the promises form one line from `Resolved` to `tail` with tickets
growing along it; `InOrder`, that a promise is resolved only when every earlier
one is, but for the running send's own; `NoncesOK`, that the one holding the
queue was prepared with the node's count unless a lost call comes before it.
`MutualExclusion`, `FirstComeFirstServed`, `NonceClash` follow, and
`ImplementsFifoLock` maps each step to one of `FifoLock`'s.

**`OutboxProofs`.**  `IInv` is `TypeOK`, that what a pass has had taken is
received, and the four safety properties.  `Capped` needs what `Oldest` does:
that the first n of a set of m numbers are n of them, which is proved by
counting ranks, since the library's induction is not available here.

**`EventTailProofs`.**  The two properties of the cursor are not inductive: that
nothing behind it was skipped rests on what the poll did before it moved the
cursor.  `Past` says that every log behind the cursor has been handled - told,
and recorded if it is this service's own - and `Progress` that every log of the
range under way is in `todo` or has been, and that the passes that are over
left none of theirs; so that when the last pass is done `todo` is empty.  That
a log once handled stays handled (`HandledKept`) needs `OwnIsOwn`, that the row
of an intent is not released while its transaction is on the chain, and
`FirstIsReal`, that an intent not counted yet has no first transaction to
overwrite.  `FirstIsReal` also gives the sweep an honest hash.
`EmissionsCountedOnce` compares a count with the size of a set; each step adds
to both or to neither.  From these follow `TailTypeOK`, `NothingSkipped`,
`CountedOnce`, `OwnSeen`, `HashIsHonest` and `AnomaliesEnqueued`.

**`AgentProofs`.**  About the policy rules there is no state, hence no
invariant: `LocalRefusalIsFinal` splits on how the tool refused - unreadable, a
bad cap, over the cap, the lists - and shows the service's reading of the file
is the same one, or worse (`UnreadableForBoth`, `SameReading`).
`GateAgreesWithReader` is by the same cases.  About the tool the invariant is
`TypeOK /\ PlacesOK /\ SentOK /\ StraysOK /\ OkOK`.  `PlacesOK` ties the tool's
half of a call to the service's: a definite answer means that nothing is on its
way, and an answer that denies everything means that nothing was or ever will
be sent.  `SentOK` is the service's promise seen from the id: one call has sent
for it.  Neither says that a payment is made once, since a persona may ask
again under a second id; `StraysOK` does, for calls in the order they began:
the first was said to have failed, or the persona strayed.  With these,
`PaymentIsMadeOnce`.  `OkIsAboutTheRequest` needs `Truthful`, that a remembered
hash is of the payment it is remembered for - in the tool's memory and in its
file, since a crash swaps one for the other - and `Alone`, that while a call
runs under an id, every earlier call of that id was told that nothing was sent.

**`ContractsProofs`.**  `TypeOK` and `NoPairLoops`, that no pair and its
reverse multiply to more than one, are inductive by themselves (`TypeCorrect`,
`LoopGuard`).  `RoundTripLoses` is the arithmetic behind the guard: two floors
in a row, for every scale.  `FreezeHolds` goes through the transactions one by
one: the only way a balance falls is `Minus`, and each use of it is guarded by
`MayPay` of that account.  `NoValueFromNothing` adds up all balances and all
open escrows of a token.  A transfer keeps the total; an escrow moves value
from the balances to what is owed and back, and only while it is open; a
conversion burns one total and mints the other at a floored rate, and with
`LoopGuard` the worth at the rates of the pair does not rise.  A mint raises it
by what it says it made (`MintMakes`), and nothing else is excused.

**`WalletsProofs`.**  The actions of a request are many and alike, so the first
part shows once that every step is of one of a few kinds (`AKind`), each with
all it changes: a spawn, patch, alias or retirement that begins, a key drawn or
sealed, a transfer, a registration, a name cleared, a write, a marker, a crash,
an owner's move.  The rest goes by kinds.  `Inv` has five parts:

* `Sound`: types, what a request has seen by each place it can be at, and the
  keys: whatever is recorded, paid or named has its key in the key file, and an
  empty file is sealed by the one spawn that opened it.
* `MoneyOK`: what a spawn has seen sent by each point of its way, and that what
  it still means to send with what was sent is a ration and no more - for an
  agent that never had two spawns at once, nor a payment that landed late
  between a measure and its send. A measured balance may be old by the time of
  the transfer, and this says that otherwise it cannot be too old. A payment on
  the wire was short when it was measured, and is still no more than a ration
  with what was sent (`MoneyOnWire`); it stays so, because whatever lands first
  takes its nonce.
* `NamesOK`: an id whose owner has not moved it is either unregistered, and then
  nothing is its address's primary name, or it points at its address and is the
  primary; and a registration on the wire is of a name somebody had the right
  to register (`NameOnWire`), so that late or not it is one more registration.
* `RetireOK`: what an address answers to beside its primary name is still on the
  list of the retirement in hand, or came late, or was moved.
* `PolicyOK`: a wallet with one writer at a time has one writer, and what will
  be moved into place is whole and leaves out nothing that was answered.

From it `SpawnIsWhole`, `MoneyIsGivenOnce`, `PolicyIsKept`,
`RetirementUnnames`.  `NamesNeverRedirect` rests on the registry's operators: a
registration or a clearing turns one name, from nothing to something or back,
and a bare name is read as one of two, so that with one of them turned it pays
as before, or nobody.  The proof corrected the property.  It used to blame a
redirection on a name that had not been `moved` before the step; with two moves
of one name, which the run does not make, that is false, and it now says that
the step is the owner's.

**`BootProofs`.**  The first half says what a deploy computes.  A script is a
concatenation and a chain is a fold over it; the community modules define both
by recursive functions on the length, and what they compute is shown by the
least length at which they would not (`Flattens`, `FoldKeeps`).  Then the
invariants, of which the bounds `MaxMade` and `MaxSurgery` are no part: any
number of volumes may be touched.

* `Steady`: where the process, a deploy and a live record can be, and what disk
  and store say of them then.
* `WitnessOK` is about the watermark.  The guard compares two numbers; that this
  compares two sets of intents (`MarkCovers`) rests on the counter never going
  back within one lifetime of a store, and on a copy that has counted as much
  as the store holding all of its rows.  From it `WitnessedStay`.
* `RestartOK` says what a service that nobody touched leaves behind: a record
  whose contracts have code, the identity of that record, a mark not above the
  count unless its last writing was cut short, a key file with a wallet or a
  spawn that ended in between.  From it `RefusalsHaveCause`.  A torn mark is no
  mark: `BreaksKeepsWitness` and `MarkAfter` say what of both holds behind it.
* `WholeOK` is about a deploy that fails after any transaction and is repeated.
  `UpTo` says what a chain has after the first n of a script's transactions; it
  is kept because the script creates a module before it mints, mints one seed
  to an address, and a later deploy skips the seeds of what it found there.  A
  record is then whole on the chain, or none of its tokens is there
  (`WholeOrNone`), so that step (c), which reads the tokens only, lets none pass
  that is half deployed - unless a repair of a record stopped halfway, or an old
  record lies over a new chain.  From it `TokensSeededOnce` and `ServedIsWhole`.

### Only model-checked

Liveness (`QueueDrains`, `LandedFirstIsConfirmed`, `EverythingArrives`,
`EveryCallReturns`), which the prover does not do.  The two runs that expect a
violation are counterexamples, and nothing to prove.

## 6. What is left out

* The content of names, arguments and messages; in `Treasury` a refusal before
  the reservation is one action, `Refuse`.
* `signTransfer`'s memo text, `history`, `read`, and logging.
* One log to a transaction in `EventTail`, so that two events of one
  transaction that quote the same intent are not told apart.
* Reorganisations: the chain is a single Anvil node that mines on submission.
* Nonces in `Wallets`: what is on the wire carries one nonce, and whatever lands
  voids it.  That a send was prepared with a nonce a late one takes is
  `TreasuryLock`'s matter (`NonceClashNeedsLostCall`).
* Late landings in `Boot`: `DeploySends` reads what a transaction depends on,
  sends it and mines it in one step.  A mint that timed out and lands after the
  next deploy has read the total supply (`deploy.ts:236-244`) would seed a token
  twice; `SeededOnce` and its theorem say nothing of it.
* Of a watermark cut short, only the empty file: the number itself is a few
  bytes and one write.
* Deployment by `forge`, which uses the treasury's account outside the queue;
  in `Boot` it is the same script and the same assertions, run while the service
  is down.
* Allowances and roles of the token beyond those a deployment gives out.
* In `Agent`, a second agent and a second tool process on one ledger file.

### Not modelled

* The HTTP surface, credentials, errors and configuration: stateless routing,
  comparing and formatting.  Its outcomes are the answers in `Treasury` and
  `Agent`.
* Argument validation of calls (`callargs.ts`) and the parsing of `calls.json`:
  refusals before anything happens.
* The column migrations of `migrate.ts`: SQL that rewrites tables once, under a
  store that is not yet open.
* ABI and bytecode: generated data.  Containers, proxy and front page: shell,
  configuration and a page that only reads.

## 7. Plan

1. A second tool process over one ledger file, and the persona's quota.
2. What no property covers yet: the hazards of `PROJECT.json` with a note.
3. The migrations, as a map from the rows of an old store to those of a new
   one.
4. Argument validation against a reference definition.

Runs stay few: a new component brings one run with all of its properties.
