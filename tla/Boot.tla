-------------------------------- MODULE Boot --------------------------------
(***************************************************************************)
(* How chain-svc comes to serve a deployment, and what it refuses to serve:*)
(* svc/src/index.ts (the boot), svc/src/activate.ts (the steps from a      *)
(* record to live services), the guards of svc/src/migrate.ts and          *)
(* svc/src/deployment.ts, the watermark of svc/src/keystore.ts, and        *)
(* POST /admin/deploy (svc/src/admin-deploy.ts).                           *)
(*                                                                         *)
(* Three volumes share one lifetime - the store, the keystore and the chain*)
(* - and an operator may lose, wipe or restore one without the others while*)
(* the service is down.  In admin mode the manifest and the record lie     *)
(* beside the store; in container mode a container wrote the record        *)
(* elsewhere.  The wallets and the ledger are here only as far as the      *)
(* guards look at them.                                                    *)
(***************************************************************************)
EXTENDS Deploy, FiniteSetsExt

CONSTANTS
  Agents, Ids,
  Manifests,     \* what an operator may post
  Flags,         \* the sets of acknowledgement flags a boot may be given
  NoManifest, NoRecord, NoIdentity, NoMark, NoCopy, NoDeploy,
  MaxMade,       \* bound: how many reservations a store makes
  MaxSurgery     \* bound: how many volumes are touched by hand, each once

(* Without a token and without a registry step (e) has nothing to probe,   *)
(* and throws.                                                             *)
ASSUME BootAssumption ==
  /\ Manifests \subseteq ManifestType
  /\ \A M \in Manifests :
       Accepted(M) /\ Of(M.mods, "token") \cup Of(M.mods, "names") # {}
  /\ Flags \subseteq SUBSET {"ledger", "chain"}
  /\ MaxMade \in Nat /\ MaxSurgery \in Nat

Records    == {RecordFor(M) : M \in Manifests}
Identities == {Identity(rec) : rec \in Records}
Stores  == [rows : SUBSET Ids, made : Nat, wallets : SUBSET Agents,
            identity : Identities \cup {NoIdentity}, line : Nat]
Disks   == [manifest : Manifests \cup {NoManifest},
            record : Records \cup {NoRecord}]
Copies  == [store : Stores, disk : Disks]
Deploys == [manifest : Manifests, at : Nat \ {0}, absent : SUBSET Addresses,
            step : {"send", "prepared", "manifest", "record"},
            recordExists : BOOLEAN]

ASSUME SentinelAssumption ==
  /\ NoManifest \notin Manifests /\ NoRecord \notin Records
  /\ NoIdentity \notin Identities /\ NoMark \notin Nat
  /\ NoCopy \notin Copies /\ NoDeploy \notin Deploys

VARIABLES
  mode,     \* DEPLOY_MODE
  store,    \* its intents, reservations ever made, wallets, and identity
  disk,     \* manifest.json and local.json
  keys,     \* the key files, and the ledger watermark beside them
  chain,    \* its contracts, the wallets' names, and the intents it has paid
  backup,   \* a copy of the store (and in admin mode of disk)
  proc,     \* "up" or "down"
  flags,    \* the acknowledgements this process was given
  live,     \* the record the services run on
  deploy,   \* the deploy under way; the promise `tail` admits one
  spawning, \* the wallets with a key and no marker yet
  outcome,  \* what the last boot was refused for
  \* what only the properties look at
  surgery,  \* the volumes touched by hand
  broken,   \* whether a spawn has ended between its key and its marker
  forked,   \* whether the store was replaced by one of another lifetime
  halfway,  \* whether a deploy over a record has ended before its last send
  torn,     \* whether the watermark was emptied and not written since
  witnessed \* the intents the ledger held when the mark that stands rose

volumes == <<store, disk, keys, chain, backup>>
history == <<surgery, broken, forked, halfway, torn, witnessed>>
vars == <<mode, volumes, proc, flags, live, deploy, spawning, outcome,
          history>>

EmptyStore(n) == [rows |-> {}, made |-> 0, wallets |-> {},
                  identity |-> NoIdentity, line |-> n]
EmptyDisk  == [manifest |-> NoManifest, record |-> NoRecord]
EmptyChain == [c |-> NoContracts, named |-> {}, paid |-> {}]

Init ==
  /\ mode \in {"admin", "container"}
  /\ store = EmptyStore(0) /\ disk = EmptyDisk /\ chain = EmptyChain
  /\ keys = [files |-> {}, mark |-> NoMark] /\ backup = NoCopy
  /\ proc = "down" /\ flags = {} /\ live = NoRecord /\ deploy = NoDeploy
  /\ spawning = {} /\ outcome = "none"
  /\ surgery = {} /\ broken = FALSE /\ forked = FALSE
  /\ halfway = FALSE /\ torn = FALSE /\ witnessed = {}

-----------------------------------------------------------------------------
(* Activation, steps (a) to (g) of prepareActivation                       *)

(* (c) every token answers symbol() and decimals()                         *)
(* What a mistaken version would do: take the metadata from the record     *)
TokensReadFromRecord(rec) == Identity(rec) # <<>>

TokensRead(rec) == TokensIn(rec) \subseteq chain.c.code

(* (d) the store was written against this deployment, or against none      *)
DeploymentUnchanged(rec, acked) ==
  store.identity \in {NoIdentity, Identity(rec)} \/ "chain" \in acked

(* (e) the facts of three volumes, and the two controls over them          *)
Probe(rec) == LET ts == SelectSeq(rec.mods, LAMBDA a : a[1] = "token")
                  ns == SelectSeq(rec.mods, LAMBDA a : a[1] = "names")
              IN  Head(ts \o ns)
ContractsDeployed(rec) == Probe(rec) \in chain.c.code

LedgerNotRestored(acked) ==
  \/ "ledger" \in acked
  \/ IF keys.mark = NoMark THEN store.made = 0 ELSE store.made >= keys.mark

(* What a mistaken version would do: not tell a game that has yet to spend *)
(* from a wiped store                                                      *)
LedgerLifetimeIntactByIntents(rec, acked) ==
  \/ "ledger" \in acked
  \/ store.rows # {} \/ keys.files = {} \/ ~ContractsDeployed(rec)

LedgerLifetimeIntact(rec, acked) ==
  \/ "ledger" \in acked
  \/ store.rows # {} \/ store.wallets # {}
  \/ keys.files = {} \/ ~ContractsDeployed(rec)

Verdict(rec, acked) ==
  IF ~TokensRead(rec) THEN "unreadable"
  ELSE IF ~DeploymentUnchanged(rec, acked) THEN "chain_replaced_under_store"
  ELSE IF LedgerNotRestored(acked) /\ LedgerLifetimeIntact(rec, acked)
       THEN "ok" ELSE "ledger_wiped_beneath_live_game"

(* What the steps leave behind: the identity is written at (d), before (e) *)
(* may refuse; the watermark rises only behind both controls, and before   *)
(* (f) may fail over the policy defaults.                                  *)
RememberIdentity(rec, verdict) ==
  store' = [store EXCEPT !.identity =
              IF @ = NoIdentity /\ verdict # "unreadable"
              THEN Identity(rec) ELSE @]

Witnessing(acked) ==
  store.rows \cup (IF "ledger" \in acked THEN {} ELSE witnessed)

(* What a mistaken version would do: keep the first mark                   *)
RaiseWatermarkOnce(verdict, acked) ==
  IF verdict # "ok" THEN UNCHANGED <<keys, torn, witnessed>>
  ELSE /\ keys' = [keys EXCEPT !.mark = IF @ = NoMark THEN store.made ELSE @]
       /\ torn' = FALSE /\ witnessed' = Witnessing(acked)

RaiseWatermark(verdict, acked) ==
  IF verdict # "ok" THEN UNCHANGED <<keys, torn, witnessed>>
  ELSE /\ keys' = [keys EXCEPT !.mark =
                     IF @ = NoMark \/ store.made > @ THEN store.made ELSE @]
       /\ torn' = FALSE /\ witnessed' = Witnessing(acked)

Prepare(rec, acked) ==
  /\ RememberIdentity(rec, Verdict(rec, acked))
  /\ RaiseWatermark(Verdict(rec, acked), acked)

(* An activation that passed both controls and ends before the mark is up: *)
(* the process dies, or the disk fails.  The write truncates the file      *)
(* before it fills it, and what is left of a mark that was to be raised is *)
(* an empty file, which reads as none: it vouches for nothing any more.    *)
BreaksAtWatermark(rec, acked) ==
  /\ Verdict(rec, acked) = "ok" /\ RememberIdentity(rec, "ok")
  /\ \/ UNCHANGED <<keys, torn, witnessed>>
     \/ /\ keys.mark # NoMark /\ store.made > keys.mark
        /\ keys' = [keys EXCEPT !.mark = NoMark]
        /\ torn' = TRUE /\ witnessed' = {}

(* Step (h); only here does anything the server reads change.              *)
GoLive(rec) == live' = rec

RecordFullyOnChain(rec) == Recorded(rec) \subseteq chain.c.code

-----------------------------------------------------------------------------
(* The boot.  A record is activated before anything is served; without one *)
(* (admin mode) the service serves not_deployed.  A refused record ends the*)
(* process, unless its contracts are not all there: that one the deploy    *)
(* route can repair.                                                       *)
Serve(f) == proc' = "up" /\ flags' = f /\ outcome' = "none"

ServeUndeployed(f) ==
  /\ proc = "down" /\ mode = "admin" /\ disk.record = NoRecord
  /\ Serve(f)
  /\ UNCHANGED <<mode, volumes, live, deploy, spawning, history>>

Loads == proc = "down" /\ disk.record # NoRecord /\ ValidRecord(disk.record)

(* A record that loadDeployment refuses ends the process at once.          *)
ExitOverRecord ==
  /\ proc = "down" /\ disk.record # NoRecord /\ ~ValidRecord(disk.record)
  /\ outcome' = "invalid record"
  /\ UNCHANGED <<mode, volumes, proc, flags, live, deploy, spawning, history>>

ServeRecorded(f) ==
  /\ Loads
  /\ Verdict(disk.record, f) = "ok"
  /\ Prepare(disk.record, f) /\ GoLive(disk.record) /\ Serve(f)
  /\ UNCHANGED <<mode, disk, chain, backup, deploy, spawning, surgery,
                 broken, forked, halfway>>

ServeUnrepaired(f) ==
  /\ Loads /\ mode = "admin"
  /\ Verdict(disk.record, f) # "ok" /\ ~RecordFullyOnChain(disk.record)
  /\ Prepare(disk.record, f) /\ Serve(f)
  /\ UNCHANGED <<mode, disk, chain, backup, live, deploy, spawning, surgery,
                 broken, forked, halfway>>

Exit(f) ==
  /\ Loads
  /\ Verdict(disk.record, f) # "ok"
  /\ mode = "container" \/ RecordFullyOnChain(disk.record)
  /\ Prepare(disk.record, f) /\ outcome' = Verdict(disk.record, f)
  /\ UNCHANGED <<mode, disk, chain, backup, proc, flags, live, deploy,
                 spawning, surgery, broken, forked, halfway>>

(* All checks passed, and the activation breaks off: over the watermark,   *)
(* before or inside its write; behind it, where step (f) throws over the   *)
(* policy defaults; or the process dies before (h).  What was thrown is    *)
(* treated as a refusal is.                                                *)
ActivationBreaks(f) ==
  /\ Loads /\ Verdict(disk.record, f) = "ok"
  /\ Prepare(disk.record, f) \/ BreaksAtWatermark(disk.record, f)
  /\ \/ outcome' = "none" /\ UNCHANGED <<proc, flags>>
     \/ mode = "admin" /\ ~RecordFullyOnChain(disk.record) /\ Serve(f)
  /\ UNCHANGED <<mode, disk, chain, backup, live, deploy, spawning, surgery,
                 broken, forked, halfway>>

Crash ==
  /\ proc = "up" /\ proc' = "down"
  /\ live' = NoRecord /\ spawning' = {} /\ deploy' = NoDeploy /\ flags' = {}
  /\ broken' = (broken \/ spawning # {})
  /\ halfway' = (halfway \/ (deploy # NoDeploy /\ deploy.recordExists))
  /\ UNCHANGED <<mode, volumes, outcome, surgery, forked, torn, witnessed>>

-----------------------------------------------------------------------------
(* POST /admin/deploy                                                      *)

(* (ii) the record it would write must be one that loads; (iv) the store's *)
(* identity, here without the flag; (v) the same manifest or none, when a  *)
(* record says that one was deployed.                                      *)
Preflight(M) ==
  /\ ValidRecord(RecordFor(M))
  /\ DeploymentUnchanged(RecordFor(M), {})
  /\ disk.record # NoRecord => disk.manifest = M

DeployStarts(M) ==
  /\ proc = "up" /\ mode = "admin" /\ deploy = NoDeploy
  /\ Preflight(M)
  /\ deploy' = [manifest |-> M, at |-> 1, step |-> "send",
                absent |-> Planned(M) \ chain.c.code,
                recordExists |-> disk.record # NoRecord]
  /\ UNCHANGED <<mode, volumes, proc, flags, live, spawning, outcome,
                 history>>

DeployRest ==
  LET txs == Script(deploy.manifest) IN
  {n \in deploy.at..Len(txs) :
     Needed(chain.c, deploy.absent, deploy.recordExists, txs[n])}

(* One transaction, sent under the treasury's queue and confirmed; what it *)
(* depends on - a supply, a role, a pair - is read in the same step.  A    *)
(* transaction whose deploy gave up on it never lands, or landed at once:  *)
(* one that lands later, behind the next deploy's read, is left out.       *)
DeploySends ==
  /\ deploy # NoDeploy /\ deploy.step = "send" /\ DeployRest # {}
  /\ LET n == Min(DeployRest) IN
     /\ chain' = [chain EXCEPT !.c = Performed(@, Script(deploy.manifest)[n])]
     /\ deploy' = [deploy EXCEPT !.at = n + 1]
  /\ UNCHANGED <<mode, store, disk, keys, backup, proc, flags, live,
                 spawning, outcome, history>>

(* A transaction is refused or its answer lost, a check of the chain's     *)
(* state fails, a file cannot be written: the request ends where it is.    *)
DeployFails ==
  /\ deploy # NoDeploy /\ deploy' = NoDeploy
  /\ halfway' = (halfway \/ deploy.recordExists)
  /\ UNCHANGED <<mode, volumes, proc, flags, live, spawning, outcome,
                 surgery, broken, forked, torn, witnessed>>

Sent == /\ deploy # NoDeploy /\ deploy.step = "send" /\ DeployRest = {}
        /\ Asserted(chain.c, deploy.manifest)

DeployRepeats ==
  /\ Sent /\ live # NoRecord /\ deploy' = NoDeploy
  /\ UNCHANGED <<mode, volumes, proc, flags, live, spawning, outcome,
                 history>>

DeployPrepares ==
  /\ Sent /\ live = NoRecord
  /\ LET rec == RecordFor(deploy.manifest) IN
     /\ Prepare(rec, flags)
     /\ deploy' = IF Verdict(rec, flags) = "ok"
                  THEN [deploy EXCEPT !.step = "prepared"] ELSE NoDeploy
  /\ UNCHANGED <<mode, disk, chain, backup, proc, flags, live, spawning,
                 outcome, surgery, broken, forked, halfway>>

DeployBreaks ==
  /\ Sent /\ live = NoRecord /\ deploy' = NoDeploy
  /\ BreaksAtWatermark(RecordFor(deploy.manifest), flags)
  /\ UNCHANGED <<mode, disk, chain, backup, proc, flags, live, spawning,
                 outcome, surgery, broken, forked, halfway>>

WriteManifest ==
  /\ deploy # NoDeploy /\ deploy.step = "prepared"
  /\ disk' = [disk EXCEPT !.manifest = deploy.manifest]
  /\ deploy' = [deploy EXCEPT !.step = "manifest"]
  /\ UNCHANGED <<mode, store, keys, chain, backup, proc, flags, live,
                 spawning, outcome, history>>

WriteRecord ==
  /\ deploy # NoDeploy /\ deploy.step = "manifest"
  /\ disk' = [disk EXCEPT !.record = RecordFor(deploy.manifest)]
  /\ deploy' = [deploy EXCEPT !.step = "record"]
  /\ UNCHANGED <<mode, store, keys, chain, backup, proc, flags, live,
                 spawning, outcome, history>>

Commit ==
  /\ deploy # NoDeploy /\ deploy.step = "record"
  /\ GoLive(RecordFor(deploy.manifest)) /\ deploy' = NoDeploy
  /\ UNCHANGED <<mode, volumes, proc, flags, spawning, outcome, surgery,
                 broken, forked, halfway, torn, witnessed>>

(* Container mode: another container deploys on an empty chain and promotes*)
(* its record only when all of it went through, the assertions included.   *)
ContainerDeploys(M) ==
  /\ mode = "container" /\ proc = "down" /\ chain.c = NoContracts
  /\ LET c == FoldLeft(Performed, NoContracts, Script(M)) IN
     /\ Asserted(c, M)
     /\ chain' = [chain EXCEPT !.c = c]
  /\ disk' = [manifest |-> M, record |-> RecordFor(M)]
  /\ UNCHANGED <<mode, store, keys, backup, proc, flags, live, deploy,
                 spawning, outcome, history>>

-----------------------------------------------------------------------------
(* The game, as the guards see it: a spawn writes the key first and the    *)
(* marker last (Wallets.tla has what lies between), an id is reserved in   *)
(* the ledger before it pays, and a failed attempt gives its row back.     *)
Game == proc = "up" /\ live # NoRecord

SpawnBegins(a) ==
  /\ Game /\ a \notin store.wallets \cup spawning
  /\ keys' = [keys EXCEPT !.files = @ \cup {a}]
  /\ spawning' = spawning \cup {a}
  /\ UNCHANGED <<mode, store, disk, chain, backup, proc, flags, live,
                 deploy, outcome, history>>

SpawnEnds(a) ==
  /\ a \in spawning /\ RecordFullyOnChain(live)
  /\ spawning' = spawning \ {a}
  /\ store' = [store EXCEPT !.wallets = @ \cup {a}]
  /\ chain' = [chain EXCEPT !.named = @ \cup {a}]
  /\ UNCHANGED <<mode, disk, keys, backup, proc, flags, live, deploy,
                 outcome, history>>

SpawnFails(a) ==
  /\ a \in spawning /\ spawning' = spawning \ {a} /\ broken' = TRUE
  /\ UNCHANGED <<mode, volumes, proc, flags, live, deploy, outcome, surgery,
                 forked, halfway, torn, witnessed>>

Reserve(i) ==
  /\ Game /\ i \notin store.rows /\ store.made < MaxMade
  /\ store' = [store EXCEPT !.rows = @ \cup {i}, !.made = @ + 1]
  /\ UNCHANGED <<mode, disk, keys, chain, backup, proc, flags, live, deploy,
                 spawning, outcome, history>>

Pay(i) ==
  /\ Game /\ i \in store.rows \ chain.paid
  /\ chain' = [chain EXCEPT !.paid = @ \cup {i}]
  /\ UNCHANGED <<mode, store, disk, keys, backup, proc, flags, live, deploy,
                 spawning, outcome, history>>

Release(i) ==
  /\ Game /\ i \in store.rows \ chain.paid
  /\ store' = [store EXCEPT !.rows = @ \ {i}]
  /\ witnessed' = witnessed \ {i}
  /\ UNCHANGED <<mode, disk, keys, chain, backup, proc, flags, live, deploy,
                 spawning, outcome, surgery, broken, forked, halfway, torn>>

-----------------------------------------------------------------------------
(* Volume surgery, with the service down.  A record beside the store goes  *)
(* with it.  (This is what operators do, not code of this repository.)     *)
Operates(what) ==
  /\ proc = "down" /\ what \notin surgery
  /\ Cardinality(surgery) < MaxSurgery
  /\ surgery' = surgery \cup {what}
  /\ outcome' = "none"
  /\ UNCHANGED <<mode, proc, flags, live, deploy, spawning, broken, halfway>>

BesideStore(d) == disk' = IF mode = "admin" THEN d ELSE disk

WipeStore ==
  /\ Operates("store") /\ BesideStore(EmptyDisk)
  /\ store' = EmptyStore(store.line + 1)
  /\ UNCHANGED <<keys, chain, backup, forked, torn, witnessed>>

(* What the old keys could pay they can pay no more.                       *)
WipeKeystore ==
  /\ Operates("keystore") /\ keys' = [files |-> {}, mark |-> NoMark]
  /\ torn' = FALSE /\ witnessed' = {}
  /\ UNCHANGED <<store, disk, chain, backup, forked>>

WipeChain ==
  /\ Operates("chain") /\ chain' = EmptyChain
  /\ UNCHANGED <<store, disk, keys, backup, forked, torn, witnessed>>

(* Only while MaxSurgery lets it be put back.                              *)
BackUp ==
  /\ proc = "down" /\ backup = NoCopy /\ Cardinality(surgery) < MaxSurgery
  /\ backup' = [store |-> store, disk |-> disk]
  /\ UNCHANGED <<mode, store, disk, keys, chain, proc, flags, live, deploy,
                 spawning, outcome, history>>

RestoreStore ==
  /\ backup # NoCopy /\ Operates("restore") /\ BesideStore(backup.disk)
  /\ store' = backup.store
  /\ forked' = (forked \/ backup.store.line # store.line)
  /\ UNCHANGED <<keys, chain, backup, torn, witnessed>>

Next ==
  \/ \E f \in Flags : \/ ServeUndeployed(f) \/ ServeRecorded(f)
                      \/ ServeUnrepaired(f) \/ Exit(f) \/ ActivationBreaks(f)
  \/ ExitOverRecord \/ Crash
  \/ \E M \in Manifests : DeployStarts(M) \/ ContainerDeploys(M)
  \/ DeploySends \/ DeployFails \/ DeployRepeats \/ DeployPrepares
  \/ DeployBreaks
  \/ WriteManifest \/ WriteRecord \/ Commit
  \/ \E a \in Agents : SpawnBegins(a) \/ SpawnEnds(a) \/ SpawnFails(a)
  \/ \E i \in Ids : Reserve(i) \/ Pay(i) \/ Release(i)
  \/ WipeStore \/ WipeKeystore \/ WipeChain \/ BackUp \/ RestoreStore

Spec == Init /\ [][Next]_vars

-----------------------------------------------------------------------------
(* The properties *)

(* An intent the ledger held when the watermark that stands was raised, and*)
(* that has paid, is still in the ledger whenever the service runs         *)
(* unacknowledged: no wipe and no restore of an older copy lets it pay     *)
(* again.  What was reserved after the last activation has no such         *)
(* protection, nor has a keystore given a store of another lifetime - nor  *)
(* what a mark vouched for whose next writing was cut short: it reads as   *)
(* none, and a wiped store, or a copy with wallets from before the first   *)
(* reservation, passes beside it (assertLedgerNotRestored,                 *)
(* assertLedgerLifetimeIntact, recordLedgerWatermark).                     *)
WitnessedIdsStay ==
  live # NoRecord /\ "ledger" \notin flags /\ ~forked
  => witnessed \cap chain.paid \subseteq store.rows

(* The service never refuses a restart for a cause other than these: a     *)
(* volume was touched; a spawn ended after its key was written and before  *)
(* its marker (assertLedgerLifetimeIntact's storeWallets conjunct); or the *)
(* last writing of the watermark was cut short, and the empty file it left *)
(* locks a healthy game out, which ledgerWatermark's comment says a corrupt*)
(* byte in it must not (assertLedgerNotRestored's null case).              *)
LedgerRefused == outcome = "ledger_wiped_beneath_live_game"
RefusalHasCause ==
  outcome \in {"unreadable", "chain_replaced_under_store"} \/ LedgerRefused
  => surgery # {} \/ ((broken \/ torn) /\ LedgerRefused)

(* A token that is served was seeded once: never twice, whatever attempts  *)
(* failed (but see DeploySends), and never left empty - except where a     *)
(* deploy over an existing record ended between its sends, which the next  *)
(* one does not make good (sendDeployment's `unseeded`), or where an       *)
(* operator who wiped chain and store put the old store back: its record   *)
(* may lie over what a deploy without a record left on the new chain.      *)
Overlaid == {"chain", "store", "restore"} \subseteq surgery
SeedsOf(a) == {m.seed : m \in UNION {{x \in Range(M.mods) : Addr(x) = a} :
                                       M \in Manifests}}
SeededOnce ==
  live # NoRecord
  => \A a \in TokensIn(live) :
       Supply(chain.c, a) \in
         SeedsOf(a) \cup (IF halfway \/ Overlaid THEN {0} ELSE {})

(* What is served is on disk and on the chain, whole: the manifest beside  *)
(* the record would be asserted again today, and the store is bound to its *)
(* modules.  Holds across failed and repeated deploys of other manifests;  *)
(* a deploy over a record that ended halfway can leave a live service with *)
(* modules missing, and a record without a token is activated over a wiped *)
(* chain: step (c) has nothing to read, and to (e) a registry that is not  *)
(* there is a chain not deployed to (deployOnce, sendDeployment, activate).*)
LiveIsWhole ==
  live # NoRecord
  => /\ disk.record = live /\ RecordFor(disk.manifest) = live
     /\ store.identity = Identity(live) \/ "chain" \in flags
     /\ halfway \/ Overlaid \/ TokensIn(live) = {}
        \/ Asserted(chain.c, disk.manifest)

(* What migrate.ts says of the wiped-store refusal: it is reachable only by*)
(* a wipe of a volume.                                                     *)
HonestRestartStarts == LedgerRefused => surgery # {}
=============================================================================
