------------------------------ MODULE Wallets ------------------------------
(***************************************************************************)
(* The life of a wallet in chain-svc: svc/src/spawn.ts, with the key files *)
(* of svc/src/keystore.ts, the tables spawns, frozen and wallet_tokens of  *)
(* svc/src/store.ts, the name registry, and the policy files wallet-mcp    *)
(* and the service read.                                                   *)
(*                                                                         *)
(* A request is a job; each of its actions is a stretch between two awaits,*)
(* so requests of one wallet run into each other anywhere.  A transaction  *)
(* may fail, or have its answer lost and land then, later or never; the    *)
(* process may die at any point and take every job with it.                *)
(***************************************************************************)
EXTENDS Names, Naturals, FiniteSets

CONSTANTS
  Jobs,                 \* the requests in hand at one time
  Fields,               \* what a policy has a rule on; "deny" is one
  DenyEntry,            \* the name a deny rule of this instance holds
  Defaults,             \* a kind |-> the fields its defaults set
  Asks,                 \* the requests that may come
  Empty, Mixed,         \* a file opened and not written; or written by two
  NoFile, NoRow, NoDoc, Idle,
  MaxRequests, MaxFaults, MaxMoves   \* bounds

Agents == Canonical
Kinds  == {"agent", "burner"}
Gas    == 1
Unreadable == {Empty, Mixed}

Ops   == {"spawn", "patch", "clear", "alias", "retire"}
Addrs == Agents \X Nat         \* the agent a key was made for, and which one
Docs  == SUBSET Fields \ {{}}

ASSUME WalletsAssumption ==
  /\ \A k \in Asks :
       /\ k \in [op : Ops, agent : Agents, kind : Kinds, fund : Nat,
                alias : Aliases \cup {NoName}, doc : {NoDoc} \cup Docs]
       /\ k.kind = "burner" => k.alias = NoName
       /\ k.op = "alias" => k.alias # NoName
       /\ k.op = "patch" => k.doc # NoDoc
  /\ Defaults \in [Kinds -> SUBSET Fields]
  /\ MaxRequests \in Nat /\ MaxFaults \in Nat /\ MaxMoves \in Nat

Pcs == {"key", "create", "load", "seal", "endow", "gas", "fund", "play", "name",
        "register", "alias", "registerAlias", "open", "write", "rename",
        "token", "read", "rm", "look", "add", "retired", "aliases", "clear"}

Requests ==
  [op : Ops, agent : Agents, pc : Pcs, kind : Kinds, fund : Nat,
   alias : Aliases \cup {NoName}, doc : {NoDoc} \cup SUBSET Fields,
   addr : Addrs \cup {NoAddr}, missing : Nat, todo : SUBSET AllNames,
   fd : {"none", "temp", "target"}]
Rows == [addr : Addrs, kind : Kinds, fund : Nat]
Transactions ==
  [what : {"gas", "play", "register", "clear"}, to : Addrs \cup {NoAddr},
   name : AllNames \cup {NoName}, amount : Nat]

(* What stands for nothing, or for a damaged file, is nothing else.        *)
ASSUME NothingElseAssumption ==
  /\ NoAddr \notin Addrs /\ NoRow \notin Rows /\ Idle \notin Requests
  /\ \A f \in {NoFile, Empty, Mixed} : f \notin Addrs
  /\ \A f \in {NoFile, Empty, Mixed, NoDoc}, d \in SUBSET Fields : f # d
  /\ NoFile \notin Unreadable

VARIABLES
  names,    \* whether the deployment has a registry
  reg,      \* the registry
  held,     \* an address |-> the gas and the tokens it was ever given
  wire,     \* the treasury's transactions nobody waits for that may yet land
  keyfile,  \* an agent |-> its key file: an address, Empty or NoFile
  drawn,    \* an agent |-> how many keys were generated for it
  row,      \* the table spawns
  retired,  \* the table frozen
  token,    \* an agent |-> the number of its live wallet token, 0 for none
  policy,   \* an agent |-> its policy file: the fields it sets
  temp,     \* an agent |-> the file beside it
  job,      \* a slot |-> the request in hand, or Idle
  begun, faults,
  \* what only the properties look at
  asked,    \* an agent |-> the most any of its spawns asked for
  crossed,  \* the agents that had two spawns in hand at once
  overtaken, \* those paid late between a spawn's measure and its send
  clashed,  \* the agents that had two policy writes in hand at once
  owed,     \* an agent |-> the fields that answered writes have set
  late,     \* the names registered for a wallet already retired
  gone,     \* the wallets whose retirement was answered
  moved     \* the names their owners have moved themselves

chain   == <<reg, held, wire>>
disk    == <<keyfile, drawn, policy, temp>>
tables  == <<row, retired, token>>
history == <<asked, crossed, overtaken, clashed, owed, late, gone, moved>>
vars    == <<names, chain, disk, tables, job, begun, faults, history>>

Init ==
  /\ names \in BOOLEAN
  /\ reg = NoRegistry /\ held = <<>> /\ wire = {}
  /\ keyfile = [a \in Agents |-> NoFile] /\ drawn = [a \in Agents |-> 0]
  /\ row = [a \in Agents |-> NoRow] /\ retired = {}
  /\ token = [a \in Agents |-> 0]
  /\ policy = [a \in Agents |-> NoFile] /\ temp = [a \in Agents |-> NoFile]
  /\ job = [j \in Jobs |-> Idle] /\ begun = 0 /\ faults = 0
  /\ asked = [a \in Agents |-> 0] /\ crossed = {} /\ clashed = {}
  /\ overtaken = {}
  /\ owed = [a \in Agents |-> {}] /\ late = {} /\ gone = {} /\ moved = {}

-----------------------------------------------------------------------------
(* Requests as jobs *)

At(j, pc) == job[j] # Idle /\ job[j].pc = pc
Goto(j, pc) == job' = [job EXCEPT ![j].pc = pc]
End(j) == job' = [job EXCEPT ![j] = Idle]
InHand(ops, a) == {j \in Jobs : /\ job[j] # Idle /\ job[j].op \in ops
                                /\ job[j].agent = a}

(* A spawn that brings a policy writes the file too.                       *)
Writing(a) == InHand({"patch", "clear"}, a)
                \cup {j \in InHand({"spawn"}, a) : job[j].doc # NoDoc}

Begin(j, ask, pc) ==
  LET a == ask.agent IN
  /\ begun < MaxRequests /\ job[j] = Idle
  /\ begun' = begun + 1
  /\ job' = [job EXCEPT ![j] =
       [op |-> ask.op, agent |-> a, pc |-> pc, kind |-> ask.kind,
        fund |-> ask.fund, alias |-> ask.alias, doc |-> ask.doc,
        addr |-> NoAddr, missing |-> 0, todo |-> {}, fd |-> "none"]]
  /\ asked' = [asked EXCEPT ![a] = IF ask.fund > @ THEN ask.fund ELSE @]
  /\ crossed' = IF ask.op = "spawn" /\ InHand({"spawn"}, a) # {}
                THEN crossed \cup {a} ELSE crossed
  /\ clashed' = IF (ask.op \in {"patch", "clear"} \/ ask.doc # NoDoc)
                   /\ Writing(a) # {}
                THEN clashed \cup {a} ELSE clashed
  /\ UNCHANGED <<names, chain, disk, row, token, faults, overtaken, owed,
                 late, gone, moved>>

Then(j, pc) == [job EXCEPT ![j].pc = pc]

(* Resolver.lookup, without a registry answered from the table             *)
Lookup(name) ==
  IF names THEN Resolve(reg, name)
  ELSE IF name \in Agents /\ row[name] # NoRow THEN row[name].addr
  ELSE NoAddr

PrimaryOf(addr) ==
  IF names THEN ReverseOf(reg, addr)
  ELSE LET as == {a \in Agents : row[a] # NoRow /\ row[a].addr = addr}
       IN IF as = {} THEN NoName ELSE CHOOSE a \in as : TRUE

(* A deny rule may not hold a name that is another's alias.                *)
DenyRefused(doc) ==
  /\ names /\ "deny" \in doc
  /\ LET to == Lookup(DenyEntry) IN
     to # NoAddr /\ PrimaryOf(to) \notin {NoName, DenyEntry}

-----------------------------------------------------------------------------
(* The treasury's transactions: sendAsTreasury, waitForTransactionReceipt  *)

Payment(what, to, n) ==
  [what |-> what, to |-> to, name |-> NoName, amount |-> n]
Registration(name, to) ==
  [what |-> "register", to |-> to, name |-> name, amount |-> 0]
Clearing(name) ==
  [what |-> "clear", to |-> NoAddr, name |-> name, amount |-> 0]

Balance(addr, what) == IF addr \in DOMAIN held THEN held[addr][what] ELSE 0
Given(addr, what, n) ==
  With(held, addr, [w \in {"gas", "play"} |->
    Balance(addr, w) + IF w = what THEN n ELSE 0])

(* A transaction lands.  registerFor reverts on a name that is taken,      *)
(* pointing anywhere or nowhere.  Those on the wire carry the nonce it     *)
(* used, and none of them will.                                            *)
Lands(tx) ==
  LET new == tx.what = "register" /\ ~Taken(reg, tx.name) IN
  /\ held' = IF tx.what \in {"gas", "play"}
             THEN Given(tx.to, tx.what, tx.amount) ELSE held
  /\ reg' = IF new THEN RegisterFor(reg, tx.name, tx.to, tx.to)
            ELSE IF tx.what = "clear" THEN SetTarget(reg, tx.name, NoAddr)
            ELSE reg
  /\ late' = IF new /\ tx.to[1] \in retired THEN late \cup {tx.name} ELSE late
  /\ wire' = {}

(* It lands and is answered; or it fails, or what became of it is not known*)
(* any more: the request ends.                                             *)
Submits(j, tx, job1) ==
  /\ \/ Lands(tx) /\ job' = job1 /\ UNCHANGED faults
     \/ /\ faults < MaxFaults /\ faults' = faults + 1 /\ End(j)
        /\ wire' \in {wire, wire \cup {tx}}
        /\ UNCHANGED <<held, reg, late>>
  /\ UNCHANGED <<names, disk, tables, begun, asked, crossed, overtaken,
                 clashed, owed, gone, moved>>

(* What is on the wire reaches the node after all.                         *)
LandsLate ==
  /\ \E tx \in wire :
       /\ Lands(tx)
       /\ overtaken' =
            IF \E j \in Jobs : /\ tx.what \in {"gas", "play"}
                              /\ At(j, tx.what) /\ job[j].addr = tx.to
            THEN overtaken \cup {tx.to[1]} ELSE overtaken
  /\ UNCHANGED <<names, disk, tables, job, begun, faults, asked, crossed,
                 clashed, owed, gone, moved>>

-----------------------------------------------------------------------------
(* Spawn.  What depends on the body alone is refused before anything; a    *)
(* wallet with a marker is answered at once, with no token.                *)

SpawnArrives(j, ask) ==
  /\ ask.op = "spawn" /\ row[ask.agent] = NoRow
  /\ ask.alias # NoName => names
  /\ Begin(j, IF ask.doc = NoDoc THEN ask
              ELSE [ask EXCEPT !.doc = @ \cup Defaults[ask.kind]], "key")
  /\ UNCHANGED retired

SpawnFindsKey(j) ==
  /\ At(j, "key")
  /\ IF job[j].doc # NoDoc /\ DenyRefused(job[j].doc) THEN End(j)
     ELSE IF keyfile[job[j].agent] = NoFile THEN Goto(j, "create")
     ELSE Goto(j, "load")
  /\ UNCHANGED <<names, chain, disk, tables, begun, faults, history>>

SpawnLoadsKey(j) ==
  LET file == keyfile[job[j].agent] IN
  /\ At(j, "load")
  /\ IF file = Empty THEN End(j)
     ELSE job' = [job EXCEPT ![j].pc = "endow", ![j].addr = file]
  /\ UNCHANGED <<names, chain, disk, tables, begun, faults, history>>

(* What a mistaken version would do: open the file whether or not it exists*)
KeyOpensAnyway(a) == TRUE

(* The key file is opened exclusively, whatever `has` has answered.        *)
KeyOpens(a) == keyfile[a] = NoFile

SpawnOpensKey(j) ==
  LET a == job[j].agent
      addr == <<a, drawn[a] + 1>> IN
  /\ At(j, "create")
  /\ drawn' = [drawn EXCEPT ![a] = @ + 1]
  /\ IF KeyOpens(a)
     THEN /\ keyfile' = [keyfile EXCEPT ![a] = Empty]
          /\ job' = [job EXCEPT ![j].pc = "seal", ![j].addr = addr]
     ELSE End(j) /\ UNCHANGED keyfile
  /\ UNCHANGED <<names, chain, policy, temp, tables, begun, faults, history>>

SpawnWritesKey(j) ==
  /\ At(j, "seal")
  /\ keyfile' = [keyfile EXCEPT ![job[j].agent] = job[j].addr]
  /\ Goto(j, "endow")
  /\ UNCHANGED <<names, chain, drawn, policy, temp, tables, begun, faults,
                 history>>

(* endowGas and fundToken: what is missing is sent, if anything is.  The   *)
(* measure and the transfer are two awaits.                                *)
Missing(addr, what, wanted) ==
  LET has == Balance(addr, what) IN IF has >= wanted THEN 0 ELSE wanted - has

SpawnMeasures(j, pc, what, wanted, next) ==
  LET n == Missing(job[j].addr, what, wanted) IN
  /\ At(j, pc)
  /\ IF n = 0 THEN Goto(j, next)
     ELSE job' = [job EXCEPT ![j].pc = what, ![j].missing = n]
  /\ UNCHANGED <<names, chain, disk, tables, begun, faults, history>>

SpawnSends(j, what, next) ==
  /\ At(j, what)
  /\ Submits(j, Payment(what, job[j].addr, job[j].missing), Then(j, next))

SpawnFunds(j) ==
  \/ SpawnMeasures(j, "endow", "gas", Gas, "fund")
  \/ SpawnSends(j, "gas", "fund")
  \/ SpawnMeasures(j, "fund", "play", job[j].fund, "name")
  \/ SpawnSends(j, "play", "name")

AfterNames(j) == IF job[j].doc = NoDoc THEN "token" ELSE "open"

(* registerIfAbsent: look, and if nobody has the name register it          *)
SpawnLooks(j, name, pc, send, next) ==
  LET to == Lookup(name) IN
  /\ At(j, pc)
  /\ IF to = NoAddr THEN Goto(j, send)
     ELSE IF to = job[j].addr THEN Goto(j, next) ELSE End(j)
  /\ UNCHANGED <<names, chain, disk, tables, begun, faults, history>>

(* A registration that would revert is refused before it is sent.          *)
Registers(j, pc, name, addr, job1) ==
  /\ At(j, pc)
  /\ \/ /\ Taken(reg, name) /\ End(j)
        /\ UNCHANGED <<names, chain, disk, tables, begun, faults, history>>
     \/ /\ ~Taken(reg, name)
        /\ Submits(j, Registration(name, addr), job1)

SpawnSkipsNames(j) ==
  /\ At(j, "name") /\ (job[j].kind = "burner" \/ ~names)
  /\ Goto(j, AfterNames(j))
  /\ UNCHANGED <<names, chain, disk, tables, begun, faults, history>>

SpawnNames(j) ==
  /\ job[j] # Idle
  /\ LET a == job[j].agent
         alias == job[j].alias
         next == IF alias = NoName THEN AfterNames(j) ELSE "alias" IN
     \/ SpawnSkipsNames(j)
     \/ /\ names /\ job[j].kind # "burner"
        /\ SpawnLooks(j, a, "name", "register", next)
     \/ Registers(j, "register", a, job[j].addr, Then(j, next))
     \/ SpawnLooks(j, alias, "alias", "registerAlias", AfterNames(j))
     \/ Registers(j, "registerAlias", alias, job[j].addr,
                  Then(j, AfterNames(j)))

Credential(a) == [token EXCEPT ![a] = @ + 1]

(* The token, then the marker, with no await between.  A wallet spawned    *)
(* meanwhile keeps its row and loses its token.                            *)
SpawnEnds(j) ==
  LET a == job[j].agent IN
  /\ At(j, "token")
  /\ token' = Credential(a)
  /\ row' = IF row[a] # NoRow THEN row
            ELSE [row EXCEPT ![a] = [addr |-> job[j].addr,
                                     kind |-> job[j].kind,
                                     fund |-> job[j].fund]]
  /\ End(j)
  /\ UNCHANGED <<names, chain, disk, retired, begun, faults, history>>

-----------------------------------------------------------------------------
(* writePolicyFile: write a file of a fixed name beside the policy, then   *)
(* move it over.  A descriptor follows its file; writes of two lengths into*)
(* one file may leave the end of the longer.                               *)

Follow(a, from, to) ==
  [i \in Jobs |-> IF job[i] # Idle /\ job[i].agent = a /\ job[i].fd = from
                  THEN [job[i] EXCEPT !.fd = to] ELSE job[i]]

WriteOpens(j) ==
  /\ At(j, "open")
  /\ temp' = [temp EXCEPT ![job[j].agent] = Empty]
  /\ job' = [job EXCEPT ![j].pc = "write", ![j].fd = "temp"]
  /\ UNCHANGED <<names, chain, keyfile, drawn, policy, tables, begun, faults,
                 history>>

Written(old, doc) == IF old = Empty THEN {doc} ELSE {doc, Mixed}

WriteWrites(j) ==
  LET a == job[j].agent IN
  /\ At(j, "write")
  /\ job' = [job EXCEPT ![j].pc = "rename", ![j].fd = "none"]
  /\ \/ /\ job[j].fd = "temp"
        /\ \E new \in Written(temp[a], job[j].doc) :
             temp' = [temp EXCEPT ![a] = new]
        /\ UNCHANGED policy
     \/ /\ job[j].fd = "target"
        /\ \E new \in Written(policy[a], job[j].doc) :
             policy' = [policy EXCEPT ![a] = new]
        /\ UNCHANGED temp
     \/ job[j].fd = "none" /\ UNCHANGED <<policy, temp>>
  /\ UNCHANGED <<names, chain, keyfile, drawn, tables, begun, faults, history>>

(* A spawn's document stands for itself; a patch's was merged onto the last*)
WriteRenames(j) ==
  LET a == job[j].agent
      follow == Follow(a, "target", "none")
      moving == {i \in Jobs : /\ job[i] # Idle /\ job[i].agent = a
                              /\ job[i].fd = "temp"} IN
  /\ At(j, "rename")
  /\ IF temp[a] = NoFile
     THEN End(j) /\ UNCHANGED <<policy, temp, owed>>
     ELSE /\ policy' = [policy EXCEPT ![a] = temp[a]]
          /\ temp' = [temp EXCEPT ![a] = NoFile]
          /\ owed' = [owed EXCEPT ![a] = IF job[j].op = "spawn"
                                         THEN job[j].doc ELSE @ \cup job[j].doc]
          /\ job' = [i \in Jobs |->
               IF i = j THEN IF job[j].op = "spawn"
                             THEN [job[j] EXCEPT !.pc = "token"] ELSE Idle
               ELSE IF i \in moving THEN [job[i] EXCEPT !.fd = "target"]
               ELSE follow[i]]
  /\ UNCHANGED <<names, chain, keyfile, drawn, tables, begun, faults, asked,
                 crossed, overtaken, clashed, late, gone, moved>>

PatchArrives(j, ask) ==
  /\ ask.op = "patch" /\ row[ask.agent] # NoRow
  /\ Begin(j, ask, "read") /\ UNCHANGED retired

(* What a mistaken version would do: let the patch be the whole document   *)
MergedAlone(base, doc) == doc

(* mergePolicy: a written field replaces, an unwritten one keeps the base  *)
Merged(base, doc) == base \cup doc

(* The wallet's own file, or without one what its kind's defaults set.     *)
Effective(a) ==
  IF policy[a] # NoFile THEN policy[a]
  ELSE IF row[a] = NoRow THEN {} ELSE Defaults[row[a].kind]

(* An unreadable file is not patched.                                      *)
PatchReads(j) ==
  LET a == job[j].agent IN
  /\ At(j, "read")
  /\ IF policy[a] \in Unreadable THEN End(j)
     ELSE LET doc == Merged(Effective(a), job[j].doc) IN
          IF DenyRefused(doc) THEN End(j)
          ELSE job' = [job EXCEPT ![j].pc = "open", ![j].doc = doc]
  /\ UNCHANGED <<names, chain, disk, tables, begun, faults, history>>

ClearArrives(j, ask) ==
  /\ ask.op = "clear" /\ row[ask.agent] # NoRow
  /\ Begin(j, ask, "rm") /\ UNCHANGED retired

ClearRemoves(j) ==
  LET a == job[j].agent IN
  /\ At(j, "rm")
  /\ policy' = [policy EXCEPT ![a] = NoFile]
  /\ owed' = [owed EXCEPT ![a] = {}]
  /\ job' = [Follow(a, "target", "none") EXCEPT ![j] = Idle]
  /\ UNCHANGED <<names, chain, keyfile, drawn, temp, tables, begun, faults,
                 asked, crossed, overtaken, clashed, late, gone, moved>>

-----------------------------------------------------------------------------
(* Aliases, retirement, rotation *)

AliasArrives(j, ask) ==
  /\ ask.op = "alias" /\ row[ask.agent] # NoRow /\ names
  /\ Begin(j, ask, "look") /\ UNCHANGED retired

AliasLooks(j) ==
  /\ At(j, "look")
  /\ IF Lookup(job[j].alias) # NoAddr THEN End(j) ELSE Goto(j, "add")
  /\ UNCHANGED <<names, chain, disk, tables, begun, faults, history>>

AliasRegisters(j) ==
  Registers(j, "add", job[j].alias, row[job[j].agent].addr,
            [job EXCEPT ![j] = Idle])

(* The freeze comes first and with no await.  A wallet with no marker has  *)
(* no aliases to clear, whatever a spawn in hand will register.            *)
RetireArrives(j, ask) ==
  /\ ask.op = "retire"
  /\ Begin(j, ask, IF row[ask.agent] = NoRow THEN "retired" ELSE "aliases")
  /\ retired' = retired \cup {ask.agent}

RetireLists(j) ==
  /\ At(j, "aliases")
  /\ job' = [job EXCEPT ![j].pc = "clear",
       ![j].todo = IF names THEN AliasesOf(reg, row[job[j].agent].addr)
                            ELSE {}]
  /\ UNCHANGED <<names, chain, disk, tables, begun, faults, history>>

RetireClears(j) ==
  /\ At(j, "clear")
  /\ \E name \in job[j].todo :
       Submits(j, Clearing(name), [job EXCEPT ![j].todo = @ \ {name}])

RetireEnds(j) ==
  /\ \/ At(j, "retired") /\ UNCHANGED gone
     \/ /\ At(j, "clear") /\ job[j].todo = {}
        /\ gone' = gone \cup {job[j].agent}
  /\ End(j)
  /\ UNCHANGED <<names, chain, disk, tables, begun, faults, asked, crossed,
                 overtaken, clashed, owed, late, moved>>

RotateToken(a) ==
  /\ begun < MaxRequests /\ row[a] # NoRow
  /\ begun' = begun + 1 /\ token' = Credential(a)
  /\ UNCHANGED <<names, chain, disk, row, retired, job, faults, history>>

(* A wallet may sell or repoint a name it owns, through the contract.      *)
OwnerMoves(a) ==
  /\ row[a] # NoRow /\ Cardinality(moved) < MaxMoves
  /\ \E name \in DOMAIN reg.rec :
       /\ reg.rec[name].owner = row[a].addr
       /\ moved' = moved \cup {name}
       /\ \E b \in Agents \ {a} :
            /\ row[b] # NoRow
            /\ \/ reg' = SetTarget(reg, name, row[b].addr)
               \/ reg' = Transfer(reg, name, row[b].addr)
  /\ UNCHANGED <<names, held, wire, disk, tables, job, begun, faults, asked,
                 crossed, overtaken, clashed, owed, late, gone>>

(* What a request may have on the wire: the queue lets one send at a time. *)
Outgoing(j) ==
  LET r == job[j] IN
  IF r = Idle THEN {}
  ELSE {tx \in {Payment(r.pc, r.addr, r.missing)} : r.pc \in {"gas", "play"}}
       \cup {Registration(r.agent, r.addr) : x \in {r.pc} \cap {"register"}}
       \cup {Registration(r.alias, r.addr) :
               x \in {r.pc} \cap {"registerAlias"}}
       \cup {Registration(r.alias, row[r.agent].addr) :
               x \in {r.pc} \cap {"add"}}
       \cup {Clearing(name) : name \in IF r.pc = "clear" THEN r.todo ELSE {}}

(* The process dies with every request; one that was storing a token may   *)
(* have stored it and not the marker, one that was sending have sent.      *)
Crash ==
  /\ faults < MaxFaults /\ faults' = faults + 1
  /\ \E j \in Jobs : job[j] # Idle
  /\ job' = [j \in Jobs |-> Idle]
  /\ \/ UNCHANGED token
     \/ \E j \in Jobs : At(j, "token") /\ token' = Credential(job[j].agent)
  /\ \/ UNCHANGED wire
     \/ \E j \in Jobs : \E tx \in Outgoing(j) : wire' = wire \cup {tx}
  /\ UNCHANGED <<names, reg, held, disk, row, retired, begun, history>>

Arrives(j) ==
  \E ask \in Asks :
    \/ SpawnArrives(j, ask) \/ PatchArrives(j, ask) \/ ClearArrives(j, ask)
    \/ AliasArrives(j, ask) \/ RetireArrives(j, ask)

Spawns(j) ==
  \/ SpawnFindsKey(j) \/ SpawnLoadsKey(j) \/ SpawnOpensKey(j)
  \/ SpawnWritesKey(j) \/ SpawnFunds(j) \/ SpawnNames(j) \/ SpawnEnds(j)

Proceeds(j) ==
  \/ Spawns(j) \/ AliasLooks(j) \/ AliasRegisters(j)
  \/ RetireLists(j) \/ RetireClears(j) \/ RetireEnds(j)
  \/ PatchReads(j) \/ ClearRemoves(j)
  \/ WriteOpens(j) \/ WriteWrites(j) \/ WriteRenames(j)

Next ==
  \/ \E j \in Jobs : Arrives(j) \/ Proceeds(j)
  \/ \E a \in Agents : RotateToken(a) \/ OwnerMoves(a)
  \/ LandsLate \/ Crash

Spec == Init /\ [][Next]_vars

-----------------------------------------------------------------------------
(* A marker is a promise: under it lie the key, the gas, what the spawn    *)
(* asked for, a credential and - where there is a registry, for all but a  *)
(* burner - the id as the primary name of the address, until its owner     *)
(* moves it.  However often the spawn died, failed or was run again.       *)
Whole(a) ==
  /\ keyfile[a] = row[a].addr
  /\ Balance(row[a].addr, "gas") >= Gas
  /\ Balance(row[a].addr, "play") >= row[a].fund
  /\ token[a] # 0
  /\ names /\ row[a].kind # "burner" /\ a \notin moved =>
       /\ Resolve(reg, a) = row[a].addr
       /\ ReverseOf(reg, row[a].addr) = a

SpawnedIsWhole == \A a \in Agents : row[a] # NoRow => Whole(a)

(* Money is only ever sent to an address whose key is kept, even by two    *)
(* spawns at once; and retries give nothing twice - unless two spawns were *)
(* at once, or a payment that had timed out, or outlived its process, came *)
(* to land after the retry had measured and before it sent, which fundToken*)
(* does not look for: it measures before it waits for the treasury's queue.*)
MoneyHasKey ==
  \A addr \in DOMAIN held : keyfile[addr[1]] = addr

GivenOnce ==
  \A addr \in DOMAIN held : addr[1] \notin crossed \cup overtaken =>
    /\ Balance(addr, "gas") <= Gas
    /\ Balance(addr, "play") <= asked[addr[1]]

FundedOnce == MoneyHasKey /\ GivenOnce

(* Whoever reads a policy reads a whole document, at any moment and after  *)
(* any crash, with every field an answered write has set - unless two      *)
(* writes of that wallet were in hand at once.                             *)
PolicyKept ==
  \A a \in Agents \ clashed :
    Effective(a) \notin Unreadable /\ owed[a] \subseteq Effective(a)

(* A wallet whose retirement was answered is paid under no alias it had    *)
(* when it was retired.  (A burner's first alias is its primary name, and  *)
(* retirement leaves it.)                                                  *)
RetiredIsUnnamed ==
  \A a \in gone : \A name \in Aliases \ (late \cup moved) :
    Resolve(reg, name) = row[a].addr => ReverseOf(reg, row[a].addr) = name

(* No registration and no retirement makes a name that pays one wallet pay *)
(* another in one step: it goes through being refused.  Only the owner of a*)
(* name can.                                                               *)
NamePaysTheSame(name) ==
  LET old == PaidAs(reg, name)
      new == PaidAs(reg', name) IN
  old # NoAddr /\ new # NoAddr /\ old # new => \E a \in Agents : OwnerMoves(a)

NeverRedirected == [][\A name \in AllNames : NamePaysTheSame(name)]_vars
=============================================================================
