---------------------------- MODULE WalletsProofs ----------------------------
(***************************************************************************)
(* Proofs about Wallets.tla and the registry operators of Names.tla, for   *)
(* any agents, aliases, requests and policies, and any number of requests  *)
(* in hand, faults and moves.                                              *)
(***************************************************************************)
EXTENDS Wallets, TLAPS

-----------------------------------------------------------------------------
(* The registry *)

RegistryOK(r) ==
  /\ r = [rec |-> r.rec, back |-> r.back, log |-> r.log]
  /\ DOMAIN r.rec \subseteq AllNames
  /\ r.rec \in [DOMAIN r.rec -> [owner : Addrs, target : Addrs \cup {NoAddr}]]
  /\ DOMAIN r.back \subseteq Addrs
  /\ r.back \in [DOMAIN r.back -> AllNames]
  /\ r.log \subseteq [name : AllNames, owner : Addrs, target : Addrs]

LEMMA EmptyRegistry == RegistryOK(NoRegistry) /\ DOMAIN NoRegistry.rec = {}
                       /\ DOMAIN NoRegistry.back = {}
<1>1. DOMAIN <<>> = {} /\ <<>> = [x \in {} |-> x]
  OBVIOUS
<1>2. <<>> \in [DOMAIN <<>> -> [owner : Addrs, target : Addrs \cup {NoAddr}]]
  BY <1>1
<1>3. <<>> \in [DOMAIN <<>> -> AllNames]
  BY <1>1
<1>4. NoRegistry.rec = <<>> /\ NoRegistry.back = <<>> /\ NoRegistry.log = {}
  BY DEF NoRegistry
<1>5. NoRegistry = [rec |-> NoRegistry.rec, back |-> NoRegistry.back,
                    log |-> NoRegistry.log]
  BY DEF NoRegistry
<1> QED BY <1>1, <1>2, <1>3, <1>4, <1>5 DEF RegistryOK

LEMMA NoNameIsNone == NoName \notin AllNames
BY NamesAssumption DEF AllNames

(* What registration does to a registry where the name is new.             *)
LEMMA AfterRegister ==
  ASSUME NEW r, RegistryOK(r), NEW n \in AllNames, n \notin DOMAIN r.rec,
         NEW x \in Addrs
  PROVE  LET q == RegisterFor(r, n, x, x) IN
         /\ RegistryOK(q)
         /\ DOMAIN q.rec = DOMAIN r.rec \cup {n}
         /\ q.rec[n].owner = x /\ q.rec[n].target = x
         /\ \A m \in DOMAIN r.rec : q.rec[m] = r.rec[m]
         /\ q.log = r.log \cup {[name |-> n, owner |-> x, target |-> x]}
         /\ DOMAIN q.back = DOMAIN r.back \cup {x}
         /\ \A y \in DOMAIN r.back : q.back[y] = r.back[y]
         /\ x \notin DOMAIN r.back => q.back[x] = n
<1> DEFINE q == RegisterFor(r, n, x, x)
           e == [name |-> n, owner |-> x, target |-> x]
<1>1. q.rec = With(r.rec, n, [owner |-> x, target |-> x])
      /\ q.back = PrimaryAfter(r, n, x) /\ q.log = r.log \cup {e}
      /\ q = [rec |-> q.rec, back |-> q.back, log |-> q.log]
  BY DEF RegisterFor
<1> HIDE DEF q
<1>2. /\ DOMAIN q.rec = DOMAIN r.rec \cup {n}
      /\ q.rec[n] = [owner |-> x, target |-> x]
      /\ \A m \in DOMAIN r.rec : q.rec[m] = r.rec[m]
  BY <1>1 DEF With
<1>3. q.rec \in [DOMAIN q.rec -> [owner : Addrs, target : Addrs \cup {NoAddr}]]
  BY <1>1, <1>2 DEF RegistryOK, With
<1>4. /\ DOMAIN q.back = DOMAIN r.back \cup {x}
      /\ \A y \in DOMAIN r.back : q.back[y] = r.back[y]
      /\ x \notin DOMAIN r.back => q.back[x] = n
      /\ q.back \in [DOMAIN q.back -> AllNames]
  <2>1. CASE x \in DOMAIN r.back
    BY <1>1, <2>1 DEF PrimaryAfter, RegistryOK
  <2>2. CASE x \notin DOMAIN r.back
    BY <1>1, <2>2 DEF PrimaryAfter, RegistryOK, With
  <2> QED BY <2>1, <2>2
<1>5. RegistryOK(q)
  BY <1>1, <1>2, <1>3, <1>4 DEF RegistryOK
<1> QED BY <1>1, <1>2, <1>4, <1>5 DEF q

(* What is left of the reverse records when a name loses its primary.      *)
LEMMA AfterUnnamed ==
  ASSUME NEW r, RegistryOK(r), NEW n \in DOMAIN r.rec
  PROVE  LET b == Unnamed(r, n) IN
         /\ DOMAIN b \subseteq DOMAIN r.back
         /\ b \in [DOMAIN b -> AllNames]
         /\ \A y \in DOMAIN b : b[y] = r.back[y]
         /\ \A y \in DOMAIN r.back : r.back[y] # n => y \in DOMAIN b
<1> DEFINE old == r.rec[n].target
<1>1. n # NoName
  BY NoNameIsNone DEF RegistryOK
<1>2. CASE ReverseOf(r, old) = n
  <2>1. old \in DOMAIN r.back /\ r.back[old] = n
    BY <1>1, <1>2 DEF ReverseOf
  <2>2. Unnamed(r, n) = [y \in DOMAIN r.back \ {old} |-> r.back[y]]
    BY <1>2 DEF Unnamed, Without, Restrict
  <2> QED BY <2>1, <2>2 DEF RegistryOK
<1>3. CASE ReverseOf(r, old) # n
  BY <1>3 DEF Unnamed, RegistryOK
<1> QED BY <1>2, <1>3

(* What pointing a name elsewhere, or giving it away, does.                *)
LEMMA AfterSetTarget ==
  ASSUME NEW r, RegistryOK(r), NEW n \in DOMAIN r.rec,
         NEW x \in Addrs \cup {NoAddr}
  PROVE  LET q == SetTarget(r, n, x) IN
         /\ RegistryOK(q)
         /\ DOMAIN q.rec = DOMAIN r.rec /\ q.log = r.log
         /\ q.rec[n].target = x /\ q.rec[n].owner = r.rec[n].owner
         /\ \A m \in DOMAIN r.rec \ {n} : q.rec[m] = r.rec[m]
         /\ DOMAIN q.back \subseteq DOMAIN r.back
         /\ \A y \in DOMAIN q.back : q.back[y] = r.back[y]
         /\ \A y \in DOMAIN r.back : r.back[y] # n => y \in DOMAIN q.back
<1> DEFINE q == SetTarget(r, n, x)
           new == [r.rec EXCEPT ![n].target = x]
<1>1. q.rec = new /\ q.back = Unnamed(r, n) /\ q.log = r.log
      /\ q = [rec |-> q.rec, back |-> q.back, log |-> q.log]
  BY DEF SetTarget, RegistryOK
<1> HIDE DEF q
<1>2. /\ DOMAIN new = DOMAIN r.rec
      /\ new[n].target = x /\ new[n].owner = r.rec[n].owner
      /\ \A m \in DOMAIN r.rec \ {n} : new[m] = r.rec[m]
      /\ new \in [DOMAIN r.rec -> [owner : Addrs, target : Addrs \cup {NoAddr}]]
  BY DEF RegistryOK
<1> HIDE DEF new
<1>3. RegistryOK(q)
  BY <1>1, <1>2, AfterUnnamed DEF RegistryOK
<1>4. /\ DOMAIN q.back \subseteq DOMAIN r.back
      /\ \A y \in DOMAIN q.back : q.back[y] = r.back[y]
      /\ \A y \in DOMAIN r.back : r.back[y] # n => y \in DOMAIN q.back
  BY <1>1, AfterUnnamed
<1> QED BY <1>1, <1>2, <1>3, <1>4 DEF q

LEMMA AfterTransfer ==
  ASSUME NEW r, RegistryOK(r), NEW n \in DOMAIN r.rec, NEW x \in Addrs
  PROVE  LET q == Transfer(r, n, x) IN
         /\ RegistryOK(q)
         /\ DOMAIN q.rec = DOMAIN r.rec /\ q.log = r.log
         /\ q.rec[n].target = r.rec[n].target /\ q.rec[n].owner = x
         /\ \A m \in DOMAIN r.rec \ {n} : q.rec[m] = r.rec[m]
         /\ DOMAIN q.back \subseteq DOMAIN r.back
         /\ \A y \in DOMAIN q.back : q.back[y] = r.back[y]
         /\ \A y \in DOMAIN r.back : r.back[y] # n => y \in DOMAIN q.back
<1> DEFINE q == Transfer(r, n, x)
           new == [r.rec EXCEPT ![n].owner = x]
<1>1. q.rec = new /\ q.back = Unnamed(r, n) /\ q.log = r.log
      /\ q = [rec |-> q.rec, back |-> q.back, log |-> q.log]
  BY DEF Transfer, RegistryOK
<1> HIDE DEF q
<1>2. /\ DOMAIN new = DOMAIN r.rec
      /\ new[n].target = r.rec[n].target /\ new[n].owner = x
      /\ \A m \in DOMAIN r.rec \ {n} : new[m] = r.rec[m]
      /\ new \in [DOMAIN r.rec -> [owner : Addrs, target : Addrs \cup {NoAddr}]]
  BY DEF RegistryOK
<1> HIDE DEF new
<1>3. RegistryOK(q)
  BY <1>1, <1>2, AfterUnnamed DEF RegistryOK
<1>4. /\ DOMAIN q.back \subseteq DOMAIN r.back
      /\ \A y \in DOMAIN q.back : q.back[y] = r.back[y]
      /\ \A y \in DOMAIN r.back : r.back[y] # n => y \in DOMAIN q.back
  BY <1>1, AfterUnnamed
<1> QED BY <1>1, <1>2, <1>3, <1>4 DEF q


-----------------------------------------------------------------------------
(* What every wallet's state looks like *)

Documents == SUBSET Fields
What      == {"gas", "play"}

TypeOK ==
  /\ names \in BOOLEAN
  /\ RegistryOK(reg)
  /\ DOMAIN held \subseteq Addrs
  /\ held \in [DOMAIN held -> [What -> Nat]]
  /\ wire \subseteq Transactions
  /\ keyfile \in [Agents -> Addrs \cup {Empty, NoFile}]
  /\ drawn \in [Agents -> Nat]
  /\ row \in [Agents -> Rows \cup {NoRow}]
  /\ retired \subseteq Agents
  /\ token \in [Agents -> Nat]
  /\ policy \in [Agents -> {Empty, Mixed, NoFile} \cup Documents]
  /\ temp \in [Agents -> {Empty, Mixed, NoFile} \cup Documents]
  /\ job \in [Jobs -> Requests \cup {Idle}]
  /\ begun \in Nat /\ faults \in Nat
  /\ asked \in [Agents -> Nat]
  /\ crossed \subseteq Agents /\ overtaken \subseteq Agents
  /\ clashed \subseteq Agents
  /\ owed \in [Agents -> Documents]
  /\ late \subseteq AllNames /\ gone \subseteq Agents /\ moved \subseteq AllNames

(* Where a request can be, and what it has seen by then.                   *)
WritingPcs == {"open", "write", "rename"}
NamingPcs  == {"register", "alias", "registerAlias"}
KeyedPcs   == {"endow", "gas", "fund", "play", "name", "token"}
                \cup NamingPcs \cup WritingPcs
SpawnPcs   == {"key", "create", "load", "seal"} \cup KeyedPcs

HasKey(q) == q.op = "spawn" /\ q.pc \in KeyedPcs

Place(j) ==
  LET q == job[j] IN
  q # Idle =>
    /\ q.op = "spawn" => q.pc \in SpawnPcs
    /\ q.op = "patch" => q.pc \in {"read"} \cup WritingPcs /\ q.doc # NoDoc
    /\ q.op = "clear" => q.pc = "rm"
    /\ q.op = "alias" => q.pc \in {"look", "add"}
    /\ q.op = "retire" => /\ q.pc \in {"retired", "aliases", "clear"}
                          /\ q.agent \in retired
    /\ q.pc \in WritingPcs => q.doc # NoDoc
    /\ q.pc \in NamingPcs => names /\ q.kind # "burner"
    /\ q.pc \in {"look", "add"} => names
    /\ q.pc \in {"alias", "registerAlias", "look", "add"} => q.alias # NoName
    /\ q.op \in {"patch", "clear", "alias"} => row[q.agent] # NoRow
    /\ q.pc \in {"aliases", "clear"} => row[q.agent] # NoRow
    /\ q.pc = "load" => keyfile[q.agent] # NoFile
    /\ q.pc = "seal" => /\ keyfile[q.agent] = Empty
                        /\ q.addr \in Addrs /\ q.addr[1] = q.agent
    /\ HasKey(q) => /\ keyfile[q.agent] = q.addr
                    /\ q.addr \in Addrs

PlacesOK == \A j \in Jobs : Place(j)

(* A key file holds a key of its agent; one spawn alone seals it; whatever *)
(* is recorded, paid or named, or may yet be, has its key there.           *)
Sealing(j) == job[j] # Idle /\ job[j].pc = "seal"

KeysOK ==
  /\ \A a \in Agents : keyfile[a] \in Addrs => keyfile[a][1] = a
  /\ \A i, j \in Jobs : Sealing(i) /\ Sealing(j) /\ i # j
                          => job[i].agent # job[j].agent
  /\ \A a \in Agents : row[a] # NoRow => keyfile[a] = row[a].addr
  /\ MoneyHasKey
  /\ \A x \in DOMAIN reg.back : keyfile[x[1]] = x
  /\ \A tx \in wire : tx.what # "clear" =>
       tx.to \in Addrs /\ keyfile[tx.to[1]] = tx.to

Sound == TypeOK /\ PlacesOK /\ KeysOK


-----------------------------------------------------------------------------
(* The kinds of step, each with all it changes *)

PutJob(j, q) == job' = [job EXCEPT ![j] = q]

NewJob(ask, doc, pc) ==
  [op |-> ask.op, agent |-> ask.agent, pc |-> pc, kind |-> ask.kind,
   fund |-> ask.fund, alias |-> ask.alias, doc |-> doc,
   addr |-> NoAddr, missing |-> 0, todo |-> {}, fd |-> "none"]

Starts(j, ask, doc, pc) ==
  /\ job[j] = Idle
  /\ PutJob(j, NewJob(ask, doc, pc))
  /\ begun' = begun + 1
  /\ doc \in {NoDoc} \cup Documents
  /\ doc = NoDoc <=> ask.doc = NoDoc
  /\ \/ /\ ask.op = "spawn" /\ pc = "key" /\ row[ask.agent] = NoRow
     \/ ask.op = "patch" /\ pc = "read" /\ row[ask.agent] # NoRow
     \/ ask.op = "clear" /\ pc = "rm" /\ row[ask.agent] # NoRow
     \/ ask.op = "alias" /\ pc = "look" /\ row[ask.agent] # NoRow /\ names
     \/ /\ ask.op = "retire" /\ retired' = retired \cup {ask.agent}
        /\ pc = IF row[ask.agent] = NoRow THEN "retired" ELSE "aliases"
  /\ ask.op # "retire" => retired' = retired
  /\ asked' = [asked EXCEPT ![ask.agent] =
                 IF ask.fund > @ THEN ask.fund ELSE @]
  /\ crossed' = IF ask.op = "spawn" /\ InHand({"spawn"}, ask.agent) # {}
                THEN crossed \cup {ask.agent} ELSE crossed
  /\ clashed' = IF (ask.op \in {"patch", "clear"} \/ ask.doc # NoDoc)
                   /\ Writing(ask.agent) # {}
                THEN clashed \cup {ask.agent} ELSE clashed
  /\ UNCHANGED <<names, reg, held, wire, keyfile, drawn, policy, temp, row,
                 token, faults, overtaken, owed, late, gone, moved>>

(* A request ends, refused or failed or answered.                          *)
Ends(j) ==
  /\ job[j] # Idle
  /\ PutJob(j, Idle)
  /\ wire' = wire \/ \E tx \in Outgoing(j) : wire' = wire \cup {tx}
  /\ drawn' \in [Agents -> Nat] /\ faults' \in Nat
  /\ UNCHANGED <<names, reg, held, keyfile, policy, temp, row, retired, token,
                 begun, asked, crossed, overtaken, clashed, owed, late, gone,
                 moved>>

NextName(q) == IF q.alias # NoName THEN "alias"
               ELSE IF q.doc = NoDoc THEN "token" ELSE "open"

Turn(q, pc) ==
  \/ q.pc = "key" /\ pc = "create"
  \/ q.pc = "key" /\ pc = "load" /\ keyfile[q.agent] # NoFile
  \/ q.pc = "endow" /\ pc = "fund" /\ Balance(q.addr, "gas") >= Gas
  \/ q.pc = "fund" /\ pc = "name" /\ Balance(q.addr, "play") >= q.fund
  \/ /\ q.pc = "name" /\ (q.kind = "burner" \/ ~names)
     /\ pc = IF q.doc = NoDoc THEN "token" ELSE "open"
  \/ q.pc = "name" /\ names /\ q.kind # "burner" /\ pc = "register"
  \/ /\ q.pc = "name" /\ names /\ q.kind # "burner" /\ pc = NextName(q)
     /\ q.agent \in DOMAIN reg.rec
  \/ q.pc = "alias" /\ pc = "registerAlias"
  \/ q.pc = "alias" /\ pc = IF q.doc = NoDoc THEN "token" ELSE "open"
  \/ q.pc = "look" /\ pc = "add"

OnlyJob ==
  UNCHANGED <<names, reg, held, wire, keyfile, drawn, policy, temp, row,
              retired, token, begun, faults, asked, crossed, overtaken, clashed,
              owed, late, gone, moved>>

Turns(j, pc) ==
  /\ job[j] # Idle /\ Turn(job[j], pc)
  /\ PutJob(j, [job[j] EXCEPT !.pc = pc])
  /\ OnlyJob

Loads(j) ==
  /\ job[j] # Idle /\ job[j].pc = "load"
  /\ keyfile[job[j].agent] # Empty
  /\ PutJob(j, [job[j] EXCEPT !.pc = "endow", !.addr = keyfile[job[j].agent]])
  /\ OnlyJob

Measures(j, what, wanted) ==
  /\ job[j] # Idle
  /\ \/ job[j].pc = "endow" /\ what = "gas" /\ wanted = Gas
     \/ job[j].pc = "fund" /\ what = "play" /\ wanted = job[j].fund
  /\ Balance(job[j].addr, what) < wanted
  /\ PutJob(j, [job[j] EXCEPT !.pc = what,
                              !.missing = wanted - Balance(job[j].addr, what)])
  /\ OnlyJob

Merges(j, doc) ==
  /\ job[j] # Idle /\ job[j].pc = "read"
  /\ policy[job[j].agent] \notin Unreadable
  /\ doc = Merged(Effective(job[j].agent), job[j].doc)
  /\ PutJob(j, [job[j] EXCEPT !.pc = "open", !.doc = doc])
  /\ OnlyJob

Lists(j, S) ==
  /\ job[j] # Idle /\ job[j].pc = "aliases"
  /\ S = IF names THEN AliasesOf(reg, row[job[j].agent].addr) ELSE {}
  /\ PutJob(j, [job[j] EXCEPT !.pc = "clear", !.todo = S])
  /\ OnlyJob

Opens(j, x) ==
  /\ job[j] # Idle /\ job[j].pc = "create"
  /\ keyfile[job[j].agent] = NoFile
  /\ x = <<job[j].agent, drawn[job[j].agent] + 1>>
  /\ keyfile' = [keyfile EXCEPT ![job[j].agent] = Empty]
  /\ drawn' \in [Agents -> Nat]
  /\ PutJob(j, [job[j] EXCEPT !.pc = "seal", !.addr = x])
  /\ UNCHANGED <<names, reg, held, wire, policy, temp, row, retired, token,
                 begun, faults, asked, crossed, overtaken, clashed, owed, late,
                 gone, moved>>

Seals(j) ==
  /\ job[j] # Idle /\ job[j].pc = "seal"
  /\ keyfile' = [keyfile EXCEPT ![job[j].agent] = job[j].addr]
  /\ PutJob(j, [job[j] EXCEPT !.pc = "endow"])
  /\ UNCHANGED <<names, reg, held, wire, drawn, policy, temp, row, retired,
                 token, begun, faults, asked, crossed, overtaken, clashed, owed,
                 late, gone, moved>>

(* A transaction that lands and is answered.                               *)
Pays(j, what, q) ==
  /\ job[j] # Idle /\ job[j].pc = what
  /\ \/ what = "gas" /\ q = [job[j] EXCEPT !.pc = "fund"]
     \/ what = "play" /\ q = [job[j] EXCEPT !.pc = "name"]
  /\ held' = Given(job[j].addr, what, job[j].missing) /\ wire' = {}
  /\ faults' \in Nat
  /\ PutJob(j, q)
  /\ UNCHANGED <<names, reg, keyfile, drawn, policy, temp, row, retired, token,
                 begun, asked, crossed, overtaken, clashed, owed, late, gone,
                 moved>>

Registering(q, n, x) ==
  \/ q.pc = "register" /\ n = q.agent /\ x = q.addr
  \/ q.pc = "registerAlias" /\ n = q.alias /\ x = q.addr
  \/ q.pc = "add" /\ n = q.alias /\ x = row[q.agent].addr

AfterRegistration(q) ==
  IF q.pc = "register" THEN NextName(q)
  ELSE IF q.doc = NoDoc THEN "token" ELSE "open"

NamesIt(j, n, x, q) ==
  /\ job[j] # Idle /\ Registering(job[j], n, x)
  /\ ~Taken(reg, n)
  /\ reg' = RegisterFor(reg, n, x, x) /\ wire' = {}
  /\ late' = IF x[1] \in retired THEN late \cup {n} ELSE late
  /\ \/ job[j].pc = "add" /\ q = Idle
     \/ /\ job[j].pc # "add"
        /\ q = [job[j] EXCEPT !.pc = AfterRegistration(job[j])]
  /\ faults' \in Nat
  /\ PutJob(j, q)
  /\ UNCHANGED <<names, held, keyfile, drawn, policy, temp, row, retired, token,
                 begun, asked, crossed, overtaken, clashed, owed, gone, moved>>

Marks(j) ==
  /\ job[j] # Idle /\ job[j].pc = "token"
  /\ token' = Credential(job[j].agent)
  /\ row' = IF row[job[j].agent] # NoRow THEN row
            ELSE [row EXCEPT ![job[j].agent] =
                   [addr |-> job[j].addr, kind |-> job[j].kind,
                    fund |-> job[j].fund]]
  /\ PutJob(j, Idle)
  /\ UNCHANGED <<names, reg, held, wire, keyfile, drawn, policy, temp, retired,
                 begun, faults, asked, crossed, overtaken, clashed, owed, late,
                 gone, moved>>

(* A step on the policy file: other requests change no more than their     *)
(* descriptor.                                                             *)
FdOnly(i) ==
  \/ job'[i] = job[i]
  \/ /\ job[i] # Idle
     /\ \E fd \in {"none", "temp", "target"} : job'[i] = [job[i] EXCEPT !.fd = fd]

WritesFile(j) ==
  /\ job[j] # Idle
  /\ job' \in [Jobs -> Requests \cup {Idle}]
  /\ \A i \in Jobs \ {j} :
       FdOnly(i) /\ (job[i].agent = job[j].agent \/ job'[i] = job[i])
  /\ \/ /\ job[j].pc = "open"
        /\ job'[j] = [job[j] EXCEPT !.pc = "write", !.fd = "temp"]
        /\ temp' = [temp EXCEPT ![job[j].agent] = Empty]
        /\ policy' = policy /\ owed' = owed
     \/ /\ job[j].pc = "write"
        /\ job'[j] = [job[j] EXCEPT !.pc = "rename", !.fd = "none"]
        /\ owed' = owed
        /\ \A a \in Agents \ {job[j].agent} :
             temp'[a] = temp[a] /\ policy'[a] = policy[a]
        /\ temp' \in [Agents -> {Empty, Mixed, NoFile} \cup Documents]
        /\ policy' \in [Agents -> {Empty, Mixed, NoFile} \cup Documents]
        /\ job[j].fd = "temp" =>
             /\ temp'[job[j].agent] \in Written(temp[job[j].agent], job[j].doc)
             /\ policy' = policy
     \/ /\ job[j].pc = "rename"
        /\ temp[job[j].agent] # NoFile
        /\ job'[j] = IF job[j].op = "spawn"
                     THEN [job[j] EXCEPT !.pc = "token"] ELSE Idle
        /\ policy' = [policy EXCEPT ![job[j].agent] = temp[job[j].agent]]
        /\ temp' = [temp EXCEPT ![job[j].agent] = NoFile]
        /\ owed' = [owed EXCEPT ![job[j].agent] =
             IF job[j].op = "spawn" THEN job[j].doc ELSE @ \cup job[j].doc]
     \/ /\ job[j].pc = "rm"
        /\ job'[j] = Idle
        /\ policy' = [policy EXCEPT ![job[j].agent] = NoFile]
        /\ owed' = [owed EXCEPT ![job[j].agent] = {}]
        /\ temp' = temp
  /\ UNCHANGED <<names, reg, held, wire, keyfile, drawn, row, retired, token,
                 begun, faults, asked, crossed, overtaken, clashed, late, gone,
                 moved>>

Unnames(j, n, q) ==
  /\ job[j] # Idle /\ job[j].pc = "clear" /\ n \in job[j].todo
  /\ reg' = SetTarget(reg, n, NoAddr) /\ wire' = {}
  /\ q = [job[j] EXCEPT !.todo = @ \ {n}]
  /\ faults' \in Nat
  /\ PutJob(j, q)
  /\ UNCHANGED <<names, held, keyfile, drawn, policy, temp, row, retired, token,
                 begun, asked, crossed, overtaken, clashed, owed, late, gone,
                 moved>>

Retires(j) ==
  /\ job[j] # Idle /\ job[j].pc = "clear" /\ job[j].todo = {}
  /\ gone' = gone \cup {job[j].agent}
  /\ PutJob(j, Idle)
  /\ UNCHANGED <<names, reg, held, wire, keyfile, drawn, policy, temp, row,
                 retired, token, begun, faults, asked, crossed, overtaken,
                 clashed, owed, late, moved>>

Rotates(a) ==
  /\ token' = Credential(a) /\ begun' = begun + 1
  /\ UNCHANGED <<names, reg, held, wire, keyfile, drawn, policy, temp, row,
                 retired, job, faults, asked, crossed, overtaken, clashed, owed,
                 late, gone, moved>>

MovesName(a, n, b) ==
  /\ row[a] # NoRow /\ row[b] # NoRow
  /\ n \in DOMAIN reg.rec /\ reg.rec[n].owner = row[a].addr
  /\ moved' = moved \cup {n}
  /\ \/ reg' = SetTarget(reg, n, row[b].addr)
     \/ reg' = Transfer(reg, n, row[b].addr)
  /\ UNCHANGED <<names, held, wire, keyfile, drawn, policy, temp, row, retired,
                 token, job, begun, faults, asked, crossed, overtaken, clashed,
                 owed, late, gone>>

(* What was on the wire lands.                                             *)
Comes(tx) ==
  /\ tx \in wire /\ Lands(tx)
  /\ \/ overtaken' = overtaken
     \/ overtaken' = overtaken \cup {tx.to[1]} /\ tx.what \in What
  /\ \A i \in Jobs : tx.what \in What /\ At(i, tx.what) /\ job[i].addr = tx.to
                     => tx.to[1] \in overtaken'
  /\ UNCHANGED <<names, keyfile, drawn, policy, temp, row, retired, token, job,
                 begun, faults, asked, crossed, clashed, owed, gone, moved>>

Dies ==
  /\ job' = [i \in Jobs |-> Idle]
  /\ \/ wire' = wire
     \/ \E i \in Jobs : \E tx \in Outgoing(i) : wire' = wire \cup {tx}
  /\ faults' = faults + 1
  /\ token' = token \/ \E a \in Agents : token' = Credential(a)
  /\ UNCHANGED <<names, reg, held, keyfile, drawn, policy, temp, row, retired,
                 begun, asked, crossed, overtaken, clashed, owed, late, gone,
                 moved>>

AKind ==
  \/ \E j \in Jobs, ask \in Asks, doc \in {NoDoc} \cup Documents, pc \in Pcs :
       Starts(j, ask, doc, pc)
  \/ \E j \in Jobs : Ends(j)
  \/ \E j \in Jobs, pc \in Pcs : Turns(j, pc)
  \/ \E j \in Jobs : Loads(j)
  \/ \E j \in Jobs, what \in What, wanted \in Nat : Measures(j, what, wanted)
  \/ \E j \in Jobs, doc \in Documents : Merges(j, doc)
  \/ \E j \in Jobs, S \in SUBSET AllNames : Lists(j, S)
  \/ \E j \in Jobs, x \in Addrs : Opens(j, x)
  \/ \E j \in Jobs : Seals(j)
  \/ \E j \in Jobs, what \in What, q \in Requests \cup {Idle} :
       Pays(j, what, q)
  \/ \E j \in Jobs, n \in AllNames, x \in Addrs, q \in Requests \cup {Idle} :
       NamesIt(j, n, x, q)
  \/ \E j \in Jobs : Marks(j)
  \/ \E j \in Jobs : WritesFile(j)
  \/ \E j \in Jobs, n \in AllNames, q \in Requests \cup {Idle} :
       Unnames(j, n, q)
  \/ \E j \in Jobs : Retires(j)
  \/ \E a \in Agents : Rotates(a)
  \/ \E a, b \in Agents, n \in AllNames : MovesName(a, n, b)
  \/ \E tx \in Transactions : Comes(tx)
  \/ Dies
  \/ UNCHANGED vars


LEMMA JobType ==
  ASSUME TypeOK, NEW j \in Jobs, job[j] # Idle
  PROVE  /\ job[j] \in Requests /\ job[j].agent \in Agents
         /\ job[j].kind \in Kinds /\ job[j].fund \in Nat
         /\ job[j].alias \in Aliases \cup {NoName}
         /\ job[j].doc \in {NoDoc} \cup Documents
         /\ job[j].addr \in Addrs \cup {NoAddr} /\ job[j].missing \in Nat
         /\ job[j].todo \subseteq AllNames
         /\ job[j].pc \in Pcs /\ job[j].op \in Ops
BY DEF TypeOK, Requests, Documents

LEMMA AskType ==
  ASSUME NEW ask \in Asks
  PROVE  /\ ask.agent \in Agents /\ ask.kind \in Kinds /\ ask.fund \in Nat
         /\ ask.alias \in Aliases \cup {NoName} /\ ask.op \in Ops
         /\ ask.doc \in {NoDoc} \cup Docs
         /\ Defaults[ask.kind] \in SUBSET Fields
         /\ ask.kind = "burner" => ask.alias = NoName
         /\ ask.op = "alias" => ask.alias # NoName
         /\ ask.op = "patch" => ask.doc # NoDoc
BY WalletsAssumption

LEMMA ArrivalIsStart ==
  ASSUME TypeOK, NEW j \in Jobs, Arrives(j)
  PROVE  \E ask \in Asks, doc \in {NoDoc} \cup Documents, pc \in Pcs :
           Starts(j, ask, doc, pc)
<1> PICK ask \in Asks :
      \/ SpawnArrives(j, ask) \/ PatchArrives(j, ask) \/ ClearArrives(j, ask)
      \/ AliasArrives(j, ask) \/ RetireArrives(j, ask)
  BY DEF Arrives
<1> USE AskType DEF Documents, Docs, Pcs
<1>1. CASE PatchArrives(j, ask)
  <2>1. Starts(j, ask, ask.doc, "read")
    BY <1>1 DEF PatchArrives, Begin, Starts, PutJob, NewJob, chain, disk
  <2> QED BY <2>1
<1>2. CASE ClearArrives(j, ask)
  <2>1. Starts(j, ask, ask.doc, "rm")
    BY <1>2 DEF ClearArrives, Begin, Starts, PutJob, NewJob, chain, disk
  <2> QED BY <2>1
<1>3. CASE AliasArrives(j, ask)
  <2>1. Starts(j, ask, ask.doc, "look")
    BY <1>3 DEF AliasArrives, Begin, Starts, PutJob, NewJob, chain, disk
  <2> QED BY <2>1
<1>4. CASE RetireArrives(j, ask)
  <2> DEFINE pc == IF row[ask.agent] = NoRow THEN "retired" ELSE "aliases"
  <2>1. Starts(j, ask, ask.doc, pc)
    BY <1>4 DEF RetireArrives, Begin, Starts, PutJob, NewJob, chain, disk
  <2>2. pc \in Pcs
    BY DEF Pcs
  <2> HIDE DEF pc
  <2> QED BY <2>1, <2>2
<1>5. CASE SpawnArrives(j, ask)
  <2>1. CASE ask.doc = NoDoc
    <3>1. Starts(j, ask, ask.doc, "key")
      BY <1>5, <2>1
      DEF SpawnArrives, Begin, Starts, PutJob, NewJob, chain, disk
    <3> QED BY <3>1
  <2>2. CASE ask.doc # NoDoc
    <3> DEFINE doc == ask.doc \cup Defaults[ask.kind]
               ask1 == [ask EXCEPT !.doc = doc]
    <3>1. doc \in Documents /\ doc # NoDoc
      BY <2>2, NothingElseAssumption
    <3>2. /\ ask1.op = ask.op /\ ask1.agent = ask.agent /\ ask1.kind = ask.kind
          /\ ask1.fund = ask.fund /\ ask1.alias = ask.alias /\ ask1.doc = doc
      BY WalletsAssumption
    <3>3. ask.op = "spawn" /\ row[ask.agent] = NoRow /\ Begin(j, ask1, "key")
          /\ retired' = retired
      BY <1>5, <2>2 DEF SpawnArrives
    <3> HIDE DEF ask1, doc
    <3>4. Starts(j, ask, doc, "key")
      BY <2>2, <3>1, <3>2, <3>3 DEF Begin, Starts, PutJob, NewJob, chain, disk
    <3> QED BY <3>1, <3>4
  <2> QED BY <2>1, <2>2
<1> QED BY <1>1, <1>2, <1>3, <1>4, <1>5


(* What Submits comes to: the request ends, or its transaction lands.      *)
LEMMA SubmitsIsOneOf ==
  ASSUME TypeOK, NEW j \in Jobs, job[j] # Idle, NEW tx \in Outgoing(j), NEW q,
         Submits(j, tx, [job EXCEPT ![j] = q])
  PROVE  \/ Ends(j)
         \/ /\ Lands(tx) /\ PutJob(j, q) /\ faults' \in Nat
            /\ UNCHANGED <<names, keyfile, drawn, policy, temp, row, retired,
                           token, begun, asked, crossed, overtaken, clashed,
                           owed, gone, moved>>
<1>1. UNCHANGED <<names, keyfile, drawn, policy, temp, row, retired, token,
                  begun, asked, crossed, overtaken, clashed, owed, gone, moved>>
  BY DEF Submits, disk, tables
<1>2. CASE Lands(tx) /\ PutJob(j, q) /\ UNCHANGED faults
  BY <1>1, <1>2 DEF TypeOK
<1>3. CASE /\ faults' = faults + 1 /\ End(j)
           /\ wire' \in {wire, wire \cup {tx}}
           /\ UNCHANGED <<held, reg, late>>
  BY <1>1, <1>3 DEF Ends, End, PutJob, TypeOK
<1> QED BY <1>2, <1>3 DEF Submits, PutJob

LEMMA SpawnIsAKind ==
  ASSUME TypeOK, PlacesOK, NEW j \in Jobs, Spawns(j)
  PROVE  AKind
<1> DEFINE q == job[j]
           a == q.agent
<1>1. q # Idle
  BY DEF Spawns, SpawnFindsKey, SpawnLoadsKey, SpawnOpensKey, SpawnWritesKey,
         SpawnFunds, SpawnMeasures, SpawnSends, SpawnNames, SpawnEnds, At
<1>2. /\ Place(j) /\ q \in Requests /\ a \in Agents /\ q.fund \in Nat
      /\ q.addr \in Addrs \cup {NoAddr} /\ q.missing \in Nat
      /\ q.alias \in Aliases \cup {NoName}
  BY <1>1, JobType DEF PlacesOK
<1>3. ASSUME At(j, "key"), SpawnFindsKey(j)
      PROVE  AKind
  <2>1. \/ job' = [job EXCEPT ![j] = Idle]
        \/ Goto(j, "create")
        \/ Goto(j, "load") /\ keyfile[a] # NoFile
    BY <1>3 DEF SpawnFindsKey, End
  <2>2. UNCHANGED <<names, chain, disk, tables, begun, faults, history>>
    BY <1>3 DEF SpawnFindsKey
  <2>3. Ends(j) \/ Turns(j, "create") \/ Turns(j, "load")
    BY <1>1, <1>3, <2>1, <2>2
    DEF Ends, Turns, Turn, PutJob, OnlyJob, Goto, At, chain, disk, tables,
        history, TypeOK
  <2>4. "create" \in Pcs /\ "load" \in Pcs
    BY DEF Pcs
  <2> QED BY <2>3, <2>4 DEF AKind
<1>4. ASSUME SpawnLoadsKey(j)
      PROVE  AKind
  <2>1. Ends(j) \/ Loads(j)
    BY <1>1, <1>4
    DEF SpawnLoadsKey, Ends, Loads, PutJob, OnlyJob, End, At, chain, disk,
        tables, history, TypeOK
  <2> QED BY <2>1 DEF AKind
<1>5. ASSUME SpawnOpensKey(j)
      PROVE  AKind
  <2> DEFINE x == <<a, drawn[a] + 1>>
  <2>1. x \in Addrs
    BY <1>2 DEF Addrs, TypeOK
  <2>2. drawn' \in [Agents -> Nat]
    BY <1>2, <1>5 DEF SpawnOpensKey, TypeOK
  <2>3. UNCHANGED <<names, reg, held, wire, policy, temp, row, retired, token,
                    begun, faults, asked, crossed, overtaken, clashed, owed,
                    late, gone, moved>>
    BY <1>5 DEF SpawnOpensKey, chain, tables, history
  <2>4. CASE KeyOpens(a)
    <3>1. Opens(j, x)
      BY <1>1, <1>5, <2>2, <2>3, <2>4
      DEF SpawnOpensKey, KeyOpens, Opens, PutJob, At
    <3> QED BY <2>1, <3>1 DEF AKind
  <2>5. CASE ~KeyOpens(a)
    <3>1. Ends(j)
      BY <1>1, <1>5, <2>2, <2>3, <2>5
      DEF SpawnOpensKey, Ends, PutJob, End, TypeOK
    <3> QED BY <3>1 DEF AKind
  <2> QED BY <2>4, <2>5
<1>6. ASSUME SpawnWritesKey(j)
      PROVE  AKind
  <2>1. Seals(j)
    BY <1>1, <1>6
    DEF SpawnWritesKey, Seals, PutJob, Goto, At, chain, tables, history
  <2> QED BY <2>1 DEF AKind
<1>7. ASSUME SpawnFunds(j)
      PROVE  AKind
  <2>1. ASSUME NEW what \in What, NEW pc, NEW wanted \in Nat, NEW next \in Pcs,
               SpawnMeasures(j, pc, what, wanted, next),
               \/ pc = "endow" /\ what = "gas" /\ wanted = Gas /\ next = "fund"
               \/ pc = "fund" /\ what = "play" /\ wanted = q.fund /\ next = "name"
        PROVE  AKind
    <3>1. Balance(q.addr, what) \in Nat
      BY DEF Balance, TypeOK
    <3>2. CASE Balance(q.addr, what) >= wanted
      <4>1. Turns(j, next)
        BY <1>1, <2>1, <3>2
        DEF SpawnMeasures, Missing, Turns, Turn, PutJob, OnlyJob, Goto, At,
            chain, disk, tables, history
      <4> QED BY <4>1 DEF AKind
    <3>3. CASE ~(Balance(q.addr, what) >= wanted)
      <4>1. Missing(q.addr, what, wanted) = wanted - Balance(q.addr, what)
            /\ wanted - Balance(q.addr, what) # 0
        BY <3>1, <3>3 DEF Missing
      <4>2. /\ q.pc = pc
            /\ job' = [job EXCEPT ![j].pc = what,
                        ![j].missing = wanted - Balance(q.addr, what)]
            /\ UNCHANGED <<names, chain, disk, tables, begun, faults, history>>
        BY <2>1, <4>1 DEF SpawnMeasures, At
      <4>3. Balance(q.addr, what) < wanted
        BY <3>1, <3>3
      <4>4. PutJob(j, [q EXCEPT !.pc = what,
                              !.missing = wanted - Balance(q.addr, what)])
        BY <4>2 DEF PutJob
      <4>5. Measures(j, what, wanted)
        BY <1>1, <2>1, <4>2, <4>3, <4>4
        DEF Measures, OnlyJob, chain, disk, tables, history
      <4> QED BY <4>5 DEF AKind
    <3> QED BY <3>2, <3>3
  <2>2. ASSUME NEW what \in What, NEW next \in Pcs, SpawnSends(j, what, next),
               \/ what = "gas" /\ next = "fund"
               \/ what = "play" /\ next = "name"
        PROVE  AKind
    <3> DEFINE q1 == [q EXCEPT !.pc = next]
    <3> DEFINE tx == Payment(what, q.addr, q.missing)
    <3>1. q.pc = what /\ Submits(j, tx, [job EXCEPT ![j] = q1])
      BY <2>2 DEF SpawnSends, Then, At
    <3>2. q1 \in Requests
      BY <1>2 DEF Requests
    <3>3. tx \in Outgoing(j)
      BY <1>1, <3>1 DEF Outgoing, What
    <3>4. CASE Ends(j)
      BY <3>4 DEF AKind
    <3>5. CASE /\ Lands(tx) /\ PutJob(j, q1) /\ faults' \in Nat
               /\ UNCHANGED <<names, keyfile, drawn, policy, temp, row, retired,
                              token, begun, asked, crossed, overtaken, clashed,
                              owed, gone, moved>>
      <4>1. /\ held' = Given(q.addr, what, q.missing)
            /\ wire' = {} /\ reg' = reg /\ late' = late
        BY <3>5 DEF Lands, Payment, What
      <4>2. Pays(j, what, q1)
        BY <1>1, <2>2, <3>1, <3>5, <4>1 DEF Pays
      <4> QED BY <3>2, <4>2 DEF AKind
    <3> HIDE DEF tx, q1
    <3> QED BY <1>1, <3>1, <3>3, <3>4, <3>5, SubmitsIsOneOf
  <2>3. "fund" \in Pcs /\ "name" \in Pcs /\ "gas" \in What /\ "play" \in What
        /\ Gas \in Nat
    BY DEF Pcs, What, Gas
  <2>4. CASE SpawnMeasures(j, "endow", "gas", Gas, "fund")
    BY <2>1, <2>3, <2>4
  <2>5. CASE SpawnMeasures(j, "fund", "play", job[j].fund, "name")
    BY <1>2, <2>1, <2>3, <2>5
  <2>6. CASE SpawnSends(j, "gas", "fund")
    BY <2>2, <2>3, <2>6
  <2>7. CASE SpawnSends(j, "play", "name")
    BY <2>2, <2>3, <2>7
  <2> QED BY <1>7, <2>4, <2>5, <2>6, <2>7 DEF SpawnFunds
<1>8. ASSUME SpawnEnds(j)
      PROVE  AKind
  <2>1. Marks(j)
    BY <1>1, <1>8
    DEF SpawnEnds, Marks, PutJob, End, At, chain, disk, history
  <2> QED BY <2>1 DEF AKind
<1> DEFINE next == IF q.alias = NoName THEN AfterNames(j) ELSE "alias"
<1>9. ASSUME SpawnNames(j)
      PROVE  AKind
  <2>1. /\ next = NextName(q)
        /\ AfterNames(j) = IF q.doc = NoDoc THEN "token" ELSE "open"
        /\ next \in Pcs /\ AfterNames(j) \in Pcs
        /\ "register" \in Pcs /\ "registerAlias" \in Pcs
    BY DEF NextName, AfterNames, Pcs
  <2>2. CASE SpawnSkipsNames(j)
    <3>1. Turns(j, AfterNames(j))
      BY <1>1, <2>1, <2>2
      DEF SpawnSkipsNames, Turns, Turn, PutJob, OnlyJob, Goto, At, chain, disk,
          tables, history
    <3> QED BY <2>1, <3>1 DEF AKind
  <2>3. ASSUME names, q.kind # "burner",
               SpawnLooks(j, a, "name", "register", next)
        PROVE  AKind
    <3>1. q.pc = "name"
      BY <2>3 DEF SpawnLooks, At
    <3>2. q.addr \in Addrs
      BY <1>1, <1>2, <3>1
      DEF Place, HasKey, KeyedPcs, WritingPcs, NamingPcs, Requests, Ops
    <3>3. Lookup(a) = q.addr => a \in DOMAIN reg.rec
      BY <2>3, <3>2, NothingElseAssumption DEF Lookup, Resolve
    <3>4. Ends(j) \/ Turns(j, "register") \/ Turns(j, next)
      BY <1>1, <2>1, <2>3, <3>1, <3>3
      DEF SpawnLooks, Ends, Turns, Turn, PutJob, OnlyJob, Goto, End, At, chain,
          disk, tables, history, TypeOK
    <3> QED BY <2>1, <3>4 DEF AKind
  <2>4. CASE SpawnLooks(j, q.alias, "alias", "registerAlias", AfterNames(j))
    <3>1. Ends(j) \/ Turns(j, "registerAlias") \/ Turns(j, AfterNames(j))
      BY <1>1, <2>1, <2>4
      DEF SpawnLooks, Ends, Turns, Turn, PutJob, OnlyJob, Goto, End, At, chain,
          disk, tables, history, TypeOK
    <3> QED BY <2>1, <3>1 DEF AKind
  <2>5. ASSUME NEW pc \in {"register", "registerAlias"}, NEW n, NEW after \in Pcs,
               Registers(j, pc, n, q.addr, Then(j, after)),
               \/ pc = "register" /\ n = a /\ after = next
               \/ pc = "registerAlias" /\ n = q.alias /\ after = AfterNames(j)
        PROVE  AKind
    <3> DEFINE q1 == [q EXCEPT !.pc = after]
    <3>1. q.pc = pc
      BY <2>5 DEF Registers, At
    <3>2. q.addr \in Addrs
      BY <1>1, <1>2, <3>1
      DEF Place, HasKey, KeyedPcs, WritingPcs, NamingPcs, Requests, Ops
    <3>3. n \in AllNames
      BY <1>1, <1>2, <2>5, <3>1 DEF Place, AllNames, Agents
    <3>4. q1 \in Requests
      BY <1>2, <2>5 DEF Requests
    <3>5. Registering(q, n, q.addr) /\ after = AfterRegistration(q)
          /\ q.pc # "add"
      BY <2>1, <2>5, <3>1 DEF Registering, AfterRegistration
    <3>6. CASE Taken(reg, n)
      <4>1. Ends(j)
        BY <1>1, <2>5, <3>6
        DEF Registers, Submits, Ends, PutJob, End, chain, disk, tables, history,
            TypeOK
      <4> QED BY <4>1 DEF AKind
    <3> DEFINE tx == Registration(n, q.addr)
    <3>7. CASE ~Taken(reg, n)
      <4>1. Submits(j, tx, [job EXCEPT ![j] = q1])
        BY <2>5, <3>7 DEF Registers, Then
      <4>2. tx \in Outgoing(j)
        BY <1>1, <2>5, <3>1 DEF Outgoing
      <4>3. CASE Ends(j)
        BY <4>3 DEF AKind
      <4>4. CASE /\ Lands(tx) /\ PutJob(j, q1) /\ faults' \in Nat
                 /\ UNCHANGED <<names, keyfile, drawn, policy, temp, row,
                                retired, token, begun, asked, crossed,
                                overtaken, clashed, owed, gone, moved>>
        <5>1. /\ reg' = RegisterFor(reg, n, q.addr, q.addr) /\ wire' = {}
              /\ late' = IF q.addr[1] \in retired THEN late \cup {n} ELSE late
              /\ held' = held
          BY <3>7, <4>4 DEF Lands, Registration
        <5>2. NamesIt(j, n, q.addr, q1)
          BY <1>1, <3>5, <3>7, <4>4, <5>1 DEF NamesIt
        <5> QED BY <3>2, <3>3, <3>4, <5>2 DEF AKind
      <4> HIDE DEF tx, q1
      <4> QED BY <1>1, <4>1, <4>2, <4>3, <4>4, SubmitsIsOneOf
    <3> QED BY <3>6, <3>7
  <2> QED BY <1>9, <2>1, <2>2, <2>3, <2>4, <2>5 DEF SpawnNames
<1> QED
  BY <1>3, <1>4, <1>5, <1>6, <1>7, <1>8, <1>9 DEF Spawns, SpawnFindsKey


LEMMA FollowIsFdOnly ==
  ASSUME TypeOK, NEW a, NEW from, NEW i \in Jobs
  PROVE  LET f == Follow(a, from, "none") IN
         /\ f[i] \in Requests \cup {Idle}
         /\ \/ f[i] = job[i]
            \/ /\ job[i] # Idle /\ job[i].agent = a
               /\ f[i] = [job[i] EXCEPT !.fd = "none"]
BY DEF Follow, TypeOK, Requests

LEMMA WriteIsAKind ==
  ASSUME TypeOK, PlacesOK, NEW j \in Jobs,
         WriteOpens(j) \/ WriteWrites(j) \/ WriteRenames(j) \/ ClearRemoves(j)
  PROVE  Ends(j) \/ WritesFile(j)
<1> DEFINE q == job[j]
           a == q.agent
<1>1. q # Idle
  BY DEF WriteOpens, WriteWrites, WriteRenames, ClearRemoves, At
<1>2. /\ q \in Requests /\ a \in Agents /\ q.doc \in {NoDoc} \cup Documents
      /\ q.fd \in {"none", "temp", "target"}
  BY <1>1, JobType DEF Requests
<1>3. CASE WriteOpens(j)
  <2>1. job' = [job EXCEPT ![j] = [q EXCEPT !.pc = "write", !.fd = "temp"]]
        /\ q.pc = "open"
    BY <1>3 DEF WriteOpens, At
  <2>2. [q EXCEPT !.pc = "write", !.fd = "temp"] \in Requests
    BY <1>2 DEF Requests, Pcs
  <2>3. /\ job' \in [Jobs -> Requests \cup {Idle}]
        /\ \A i \in Jobs \ {j} : FdOnly(i) /\ job'[i] = job[i]
        /\ job'[j] = [q EXCEPT !.pc = "write", !.fd = "temp"]
    BY <2>1, <2>2 DEF FdOnly, TypeOK
  <2>4. WritesFile(j)
    BY <1>1, <1>3, <2>1, <2>3
    DEF WriteOpens, WritesFile, chain, tables, history
  <2> QED BY <2>4
<1>4. CASE WriteWrites(j)
  <2>1. job' = [job EXCEPT ![j] = [q EXCEPT !.pc = "rename", !.fd = "none"]]
        /\ q.pc = "write"
    BY <1>4 DEF WriteWrites, At
  <2>2. [q EXCEPT !.pc = "rename", !.fd = "none"] \in Requests
    BY <1>2 DEF Requests, Pcs
  <2>3. /\ job' \in [Jobs -> Requests \cup {Idle}]
        /\ \A i \in Jobs \ {j} : FdOnly(i) /\ job'[i] = job[i]
        /\ job'[j] = [q EXCEPT !.pc = "rename", !.fd = "none"]
    BY <2>1, <2>2 DEF FdOnly, TypeOK
  <2> DEFINE F == {Empty, Mixed, NoFile} \cup Documents
  <2>4. q.doc \in Documents
    BY <1>1, <1>2, <2>1 DEF PlacesOK, Place, WritingPcs
  <2>5. \A f : Written(f, q.doc) \subseteq F
    BY <2>4 DEF Written
  <2>6. temp \in [Agents -> F] /\ policy \in [Agents -> F]
    BY DEF TypeOK
  <2>7. /\ temp' \in [Agents -> F] /\ policy' \in [Agents -> F]
        /\ \A b \in Agents \ {a} : temp'[b] = temp[b] /\ policy'[b] = policy[b]
        /\ q.fd = "temp" =>
             temp'[a] \in Written(temp[a], q.doc) /\ policy' = policy
    <3> HIDE DEF F
    <3>1. CASE q.fd = "temp"
      <4>1. PICK new \in Written(temp[a], q.doc) :
              temp' = [temp EXCEPT ![a] = new]
        BY <1>4, <3>1 DEF WriteWrites
      <4>2. policy' = policy
        BY <1>4, <3>1 DEF WriteWrites
      <4> QED BY <1>2, <2>5, <2>6, <4>1, <4>2
    <3>2. CASE q.fd = "target"
      <4>1. PICK new \in Written(policy[a], q.doc) :
              policy' = [policy EXCEPT ![a] = new]
        BY <1>4, <3>2 DEF WriteWrites
      <4>2. temp' = temp
        BY <1>4, <3>2 DEF WriteWrites
      <4> QED BY <1>2, <2>5, <2>6, <3>2, <4>1, <4>2
    <3>3. CASE q.fd = "none"
      BY <1>4, <2>6, <3>3 DEF WriteWrites
    <3> QED BY <1>2, <3>1, <3>2, <3>3
  <2>8. UNCHANGED <<owed, names, reg, held, wire, keyfile, drawn, row, retired,
                    token, begun, faults, asked, crossed, overtaken, clashed,
                    late, gone, moved>>
    BY <1>4 DEF WriteWrites, chain, tables, history
  <2> QED BY <1>1, <2>1, <2>3, <2>7, <2>8 DEF WritesFile
<1>5. CASE WriteRenames(j)
  <2> DEFINE follow == Follow(a, "target", "none")
  <2>1. q.pc = "rename"
    BY <1>5 DEF WriteRenames, At
  <2>2. CASE temp[a] = NoFile
    BY <1>1, <1>5, <2>2
    DEF WriteRenames, Ends, PutJob, End, chain, tables, TypeOK
  <2>3. CASE temp[a] # NoFile
    <3> DEFINE moving == {i \in Jobs : /\ job[i] # Idle /\ job[i].agent = a
                                       /\ job[i].fd = "temp"}
               qj == IF q.op = "spawn" THEN [q EXCEPT !.pc = "token"] ELSE Idle
    <3>1. job' = [i \in Jobs |->
               IF i = j THEN qj
               ELSE IF i \in moving THEN [job[i] EXCEPT !.fd = "target"]
               ELSE follow[i]]
      BY <1>5, <2>3 DEF WriteRenames
    <3>2. qj \in Requests \cup {Idle}
      BY <1>2 DEF Requests, Pcs
    <3>3. job'[j] = qj
      BY <3>1
    <3>4. ASSUME NEW i \in Jobs \ {j}
          PROVE  /\ FdOnly(i) /\ job'[i] \in Requests \cup {Idle}
                 /\ job[i].agent = a \/ job'[i] = job[i]
      <4>1. CASE i \in moving
        <5>1. job'[i] = [job[i] EXCEPT !.fd = "target"] /\ job[i] # Idle
              /\ job[i].agent = a
          BY <3>1, <4>1
        <5>2. job[i] \in Requests
          BY <5>1, JobType
        <5>3. job'[i] \in Requests
          BY <5>1, <5>2 DEF Requests
        <5> HIDE DEF follow, moving
        <5> QED BY <5>1, <5>3 DEF FdOnly
      <4>2. CASE i \notin moving
        <5>1. job'[i] = follow[i]
          BY <3>1, <4>2
        <5> HIDE DEF follow, moving
        <5>2. /\ follow[i] \in Requests \cup {Idle}
              /\ \/ follow[i] = job[i]
                 \/ /\ job[i] # Idle /\ job[i].agent = a
                    /\ follow[i] = [job[i] EXCEPT !.fd = "none"]
          BY FollowIsFdOnly DEF follow
        <5> QED BY <5>1, <5>2 DEF FdOnly
      <4> QED BY <4>1, <4>2
    <3>5. job' \in [Jobs -> Requests \cup {Idle}]
      <4> HIDE DEF qj, moving, follow
      <4>1. DOMAIN job' = Jobs /\ job' = [i \in Jobs |-> job'[i]]
        BY <3>1
      <4> QED BY <3>2, <3>3, <3>4, <4>1
    <3>6. /\ policy' = [policy EXCEPT ![a] = temp[a]]
          /\ temp' = [temp EXCEPT ![a] = NoFile]
          /\ owed' = [owed EXCEPT ![a] =
               IF q.op = "spawn" THEN q.doc ELSE @ \cup q.doc]
          /\ UNCHANGED <<names, chain, keyfile, drawn, tables, begun, faults,
                         asked, crossed, overtaken, clashed, late, gone, moved>>
      BY <1>5, <2>3 DEF WriteRenames
    <3>7. WritesFile(j)
      BY <1>1, <2>1, <2>3, <3>3, <3>4, <3>5, <3>6
      DEF WritesFile, chain, tables
    <3> QED BY <3>7
  <2> QED BY <2>2, <2>3
<1>6. CASE ClearRemoves(j)
  <2> DEFINE follow == Follow(a, "target", "none")
  <2>1. q.pc = "rm" /\ job' = [follow EXCEPT ![j] = Idle]
    BY <1>6 DEF ClearRemoves, At
  <2>2. follow = [i \in Jobs |-> follow[i]]
    BY DEF Follow
  <2> HIDE DEF follow
  <2>3. job'[j] = Idle /\ \A i \in Jobs \ {j} : job'[i] = follow[i]
    BY <2>1, <2>2
  <2>4. \A i \in Jobs \ {j} :
          /\ FdOnly(i) /\ job'[i] \in Requests \cup {Idle}
          /\ job[i].agent = a \/ job'[i] = job[i]
    BY <2>3, FollowIsFdOnly DEF FdOnly, follow
  <2>5. job' \in [Jobs -> Requests \cup {Idle}]
    BY <2>1, <2>2, <2>3, <2>4
  <2>6. WritesFile(j)
    BY <1>1, <1>6, <2>1, <2>3, <2>4, <2>5
    DEF ClearRemoves, WritesFile, chain, tables
  <2> QED BY <2>6
<1> QED BY <1>3, <1>4, <1>5, <1>6


LEMMA NextIsAKind ==
  ASSUME TypeOK, PlacesOK, KeysOK, [Next]_vars
  PROVE  AKind
<1>1. ASSUME NEW j \in Jobs, Arrives(j)
      PROVE  AKind
  BY <1>1, ArrivalIsStart DEF AKind
<1>2. ASSUME NEW j \in Jobs, Proceeds(j)
      PROVE  AKind
  <2> DEFINE q == job[j]
             a == q.agent
  <2>1. CASE Spawns(j)
    BY <2>1, SpawnIsAKind
  <2>2. CASE \/ WriteOpens(j) \/ WriteWrites(j) \/ WriteRenames(j)
             \/ ClearRemoves(j)
    BY <2>2, WriteIsAKind DEF AKind
  <2> SUFFICES ASSUME q # Idle,
                      \/ AliasLooks(j) \/ AliasRegisters(j) \/ RetireLists(j)
                      \/ RetireClears(j) \/ RetireEnds(j) \/ PatchReads(j)
               PROVE  AKind
    BY <1>2, <2>1, <2>2
    DEF Proceeds, AliasLooks, AliasRegisters, Registers, RetireLists,
        RetireClears, RetireEnds, PatchReads, At
  <2>3. /\ Place(j) /\ q \in Requests /\ a \in Agents
        /\ q.doc \in {NoDoc} \cup Documents /\ q.todo \subseteq AllNames
        /\ q.alias \in Aliases \cup {NoName}
    BY JobType DEF PlacesOK
  <2>4. CASE AliasLooks(j)
    <3>1. Ends(j) \/ Turns(j, "add")
      BY <2>4
      DEF AliasLooks, Ends, Turns, Turn, PutJob, OnlyJob, Goto, End, At, chain,
          disk, tables, history, TypeOK
    <3> QED BY <3>1 DEF AKind, Pcs
  <2>5. CASE AliasRegisters(j)
    <3> DEFINE x == row[a].addr
               n == q.alias
    <3>1. q.pc = "add"
      BY <2>5 DEF AliasRegisters, Registers, At
    <3>2. n \in AllNames /\ Registering(q, n, x)
      BY <2>3, <3>1 DEF Place, AllNames, Registering
    <3>3. row[a] # NoRow
      BY <2>3, <3>1
      DEF Place, Requests, Ops, SpawnPcs, KeyedPcs, NamingPcs, WritingPcs
    <3>4. x \in Addrs
      BY <2>3, <3>3 DEF TypeOK, Rows
    <3>5. CASE Taken(reg, n)
      <4>1. Ends(j)
        BY <2>5, <3>5
        DEF AliasRegisters, Registers, Submits, Ends, PutJob, End, chain, disk,
            tables, history, TypeOK
      <4> QED BY <4>1 DEF AKind
    <3> DEFINE tx == Registration(n, x)
    <3>6. CASE ~Taken(reg, n)
      <4>1. Submits(j, tx, [job EXCEPT ![j] = Idle])
        BY <2>5, <3>6 DEF AliasRegisters, Registers
      <4>2. tx \in Outgoing(j)
        BY <3>1 DEF Outgoing
      <4>3. CASE Ends(j)
        BY <4>3 DEF AKind
      <4>4. CASE /\ Lands(tx) /\ PutJob(j, Idle) /\ faults' \in Nat
                 /\ UNCHANGED <<names, keyfile, drawn, policy, temp, row,
                                retired, token, begun, asked, crossed,
                                overtaken, clashed, owed, gone, moved>>
        <5>1. /\ reg' = RegisterFor(reg, n, x, x) /\ wire' = {}
              /\ late' = IF x[1] \in retired THEN late \cup {n} ELSE late
              /\ held' = held
          BY <3>6, <4>4 DEF Lands, Registration
        <5>2. NamesIt(j, n, x, Idle)
          BY <3>1, <3>2, <3>6, <4>4, <5>1 DEF NamesIt
        <5> QED BY <3>2, <3>4, <5>2 DEF AKind
      <4> HIDE DEF tx
      <4> QED BY <4>1, <4>2, <4>3, <4>4, SubmitsIsOneOf
    <3> QED BY <3>5, <3>6
  <2>6. CASE RetireLists(j)
    <3> DEFINE S == IF names THEN AliasesOf(reg, row[a].addr) ELSE {}
    <3>1. S \subseteq AllNames
      BY DEF AliasesOf, TypeOK, RegistryOK
    <3>2. Lists(j, S)
      BY <2>6
      DEF RetireLists, Lists, PutJob, OnlyJob, At, chain, disk, tables, history
    <3> HIDE DEF S
    <3> QED BY <3>1, <3>2 DEF AKind
  <2>7. CASE RetireClears(j)
    <3>1. PICK n \in q.todo :
            Submits(j, Clearing(n), [job EXCEPT ![j].todo = @ \ {n}])
      BY <2>7 DEF RetireClears
    <3> DEFINE q1 == [q EXCEPT !.todo = @ \ {n}]
               tx == Clearing(n)
    <3>2. [job EXCEPT ![j].todo = @ \ {n}] = [job EXCEPT ![j] = q1]
      BY DEF TypeOK
    <3>3. q1 \in Requests /\ n \in AllNames
      BY <2>3 DEF Requests
    <3>4. q.pc = "clear"
      BY <2>7 DEF RetireClears, At
    <3>5. tx \in Outgoing(j)
      BY <3>4 DEF Outgoing
    <3>6. CASE Ends(j)
      BY <3>6 DEF AKind
    <3>7. CASE /\ Lands(tx) /\ PutJob(j, q1) /\ faults' \in Nat
               /\ UNCHANGED <<names, keyfile, drawn, policy, temp, row, retired,
                              token, begun, asked, crossed, overtaken, clashed,
                              owed, gone, moved>>
      <4>1. /\ reg' = SetTarget(reg, n, NoAddr) /\ wire' = {}
            /\ held' = held /\ late' = late
        BY <3>7 DEF Lands, Clearing
      <4>2. Unnames(j, n, q1)
        BY <3>4, <3>7, <4>1 DEF Unnames
      <4> QED BY <3>3, <4>2 DEF AKind
    <3> HIDE DEF tx, q1
    <3> QED BY <3>1, <3>2, <3>5, <3>6, <3>7, SubmitsIsOneOf DEF tx
  <2>8. CASE RetireEnds(j)
    <3>1. Ends(j) \/ Retires(j)
      BY <2>8
      DEF RetireEnds, Ends, Retires, PutJob, End, At, chain, disk, tables,
          TypeOK
    <3> QED BY <3>1 DEF AKind
  <2>9. CASE PatchReads(j)
    <3> DEFINE doc == Merged(Effective(a), q.doc)
    <3>1. Ends(j) \/ (Merges(j, doc) /\ policy[a] \notin Unreadable)
      BY <2>9
      DEF PatchReads, Ends, Merges, PutJob, OnlyJob, End, At, chain, disk,
          tables, history, TypeOK
    <3>2. q.pc = "read"
      BY <2>9 DEF PatchReads, At
    <3>3. q.doc \in Documents
      BY <2>3, <3>2
      DEF Place, Requests, Ops, SpawnPcs, KeyedPcs, NamingPcs, WritingPcs
    <3>4. policy[a] \notin Unreadable => Effective(a) \in Documents
      <4>1. policy[a] \in {Empty, Mixed, NoFile} \cup Documents
            /\ row[a] \in Rows \cup {NoRow}
        BY <2>3 DEF TypeOK
      <4>2. row[a] # NoRow => Defaults[row[a].kind] \in Documents
        BY <4>1, WalletsAssumption DEF Rows, Documents
      <4> QED BY <4>1, <4>2 DEF Effective, Unreadable, Documents
    <3>5. policy[a] \notin Unreadable => doc \in Documents
      BY <3>3, <3>4 DEF Merged, Documents
    <3> HIDE DEF doc
    <3> QED BY <3>1, <3>5 DEF AKind
  <2> QED BY <2>4, <2>5, <2>6, <2>7, <2>8, <2>9
<1>3. ASSUME NEW a \in Agents, RotateToken(a)
      PROVE  AKind
  <2>1. Rotates(a)
    BY <1>3 DEF RotateToken, Rotates, chain, disk, history
  <2> QED BY <2>1 DEF AKind
<1>4. ASSUME NEW a \in Agents, OwnerMoves(a)
      PROVE  AKind
  <2>1. PICK n \in DOMAIN reg.rec : \E b \in Agents : MovesName(a, n, b)
    BY <1>4 DEF OwnerMoves, MovesName, disk, tables
  <2>2. n \in AllNames
    BY DEF TypeOK, RegistryOK
  <2> QED BY <2>1, <2>2 DEF AKind
<1>5. CASE Crash
  <2>1. token' = token \/ \E a \in Agents : token' = Credential(a)
    BY <1>5, JobType DEF Crash, At
  <2>2. Dies
    BY <1>5, <2>1 DEF Crash, Dies, disk, history
  <2> QED BY <2>2 DEF AKind
<1>6. CASE LandsLate
  <2>1. PICK tx \in wire :
          /\ Lands(tx)
          /\ overtaken' =
               IF \E j \in Jobs : /\ tx.what \in {"gas", "play"}
                                 /\ At(j, tx.what) /\ job[j].addr = tx.to
               THEN overtaken \cup {tx.to[1]} ELSE overtaken
    BY <1>6 DEF LandsLate
  <2>2. UNCHANGED <<names, disk, tables, job, begun, faults, asked, crossed,
                    clashed, owed, gone, moved>>
    BY <1>6 DEF LandsLate
  <2>3. tx \in Transactions
    BY DEF TypeOK
  <2>4. Comes(tx)
    BY <2>1, <2>2 DEF Comes, What, disk, tables
  <2> QED BY <2>3, <2>4 DEF AKind
<1>7. CASE UNCHANGED vars
  BY <1>7 DEF AKind
<1> QED BY <1>1, <1>2, <1>3, <1>4, <1>5, <1>6, <1>7 DEF Next


-----------------------------------------------------------------------------
(* The money: what a spawn has seen sent by each point of its way, and, for*)
(* an agent that never had two spawns at once, that no more was sent.      *)
Bal(h, x, what) == IF x \in DOMAIN h THEN h[x][what] ELSE 0

GasPcs  == KeyedPcs \ {"endow", "gas"}
PlayPcs == GasPcs \ {"fund", "play"}

IsSpawn(i) == job[i] # Idle /\ job[i].op = "spawn"

MoneyAt(j) ==
  LET q == job[j] IN
  IsSpawn(j) =>
    /\ q.fund <= asked[q.agent]
    /\ q.pc \in GasPcs => Bal(held, q.addr, "gas") >= Gas
    /\ q.pc \in PlayPcs => Bal(held, q.addr, "play") >= q.fund
    /\ q.pc = "gas" => q.missing + Bal(held, q.addr, "gas") >= Gas
    /\ q.pc = "play" => q.missing + Bal(held, q.addr, "play") >= q.fund
    /\ q.agent \notin crossed =>
         \A i \in Jobs : IsSpawn(i) /\ job[i].agent = q.agent => i = j
    /\ q.agent \notin crossed \cup overtaken =>
         /\ q.pc = "gas" => q.missing + Bal(held, q.addr, "gas") <= Gas
         /\ q.pc = "play" => q.missing + Bal(held, q.addr, "play") <= q.fund

MarkedIsFunded ==
  \A a \in Agents : row[a] # NoRow =>
    /\ Bal(held, row[a].addr, "gas") >= Gas
    /\ Bal(held, row[a].addr, "play") >= row[a].fund
    /\ token[a] # 0

MoneyOnWire ==
  \A tx \in wire : tx.what \in What /\ tx.to[1] \notin crossed \cup overtaken =>
    /\ tx.what = "gas" => tx.amount + Bal(held, tx.to, "gas") <= Gas
    /\ tx.what = "play" =>
         tx.amount + Bal(held, tx.to, "play") <= asked[tx.to[1]]

MoneyOK == /\ \A j \in Jobs : MoneyAt(j)
           /\ GivenOnce /\ MarkedIsFunded /\ MoneyOnWire

-----------------------------------------------------------------------------
(* The names.  An id whose owner has not moved it, of no burner, is either *)
(* unregistered, and then no name is its address's primary, or points at   *)
(* its address and is the primary.                                         *)
Plain(a) == a \notin moved /\ (row[a] # NoRow => row[a].kind # "burner")

NamedPcs == {"alias", "registerAlias", "token"} \cup WritingPcs

NameAt(j) ==
  LET q == job[j] IN
  q # Idle =>
    /\ q.op = "spawn" /\ names /\ q.kind # "burner" /\ q.pc \in NamedPcs =>
         q.agent \in DOMAIN reg.rec
    /\ q.pc = "clear" =>
         /\ q.todo \subseteq DOMAIN reg.rec
         /\ \A a \in Agents : a \in q.todo => ~Plain(a)

IdName(a) ==
  /\ a \in DOMAIN reg.rec /\ a \notin moved => reg.rec[a].owner[1] = a
  /\ Plain(a) =>
       IF a \in DOMAIN reg.rec
       THEN /\ reg.rec[a].target = keyfile[a]
            /\ keyfile[a] \in DOMAIN reg.back /\ reg.back[keyfile[a]] = a
       ELSE keyfile[a] \notin DOMAIN reg.back
  /\ names /\ row[a] # NoRow /\ row[a].kind # "burner" => a \in DOMAIN reg.rec

NameOnWire(tx) ==
  /\ tx.what = "register" =>
       /\ names /\ tx.name \in AllNames
       /\ IF tx.name \in Agents THEN tx.name = tx.to[1]
          ELSE tx.to[1] \in DOMAIN reg.rec \/ ~Plain(tx.to[1])
  /\ tx.what = "clear" =>
       /\ tx.name \in DOMAIN reg.rec
       /\ tx.name \in Agents => ~Plain(tx.name)

NamesOK ==
  /\ ~names => DOMAIN reg.rec = {}
  /\ \A tx \in wire : NameOnWire(tx)
  /\ \A a \in Agents : IdName(a)
  /\ \A j \in Jobs : NameAt(j)

-----------------------------------------------------------------------------
(* Retirement.  What an address answers to beside its primary name has been*)
(* registered by it and for it; what is not on the list of a retirement in *)
(* hand is late or moved.                                                  *)
OwnNames ==
  \A n \in DOMAIN reg.rec \ moved :
    reg.rec[n].target # NoAddr =>
      [name |-> n, owner |-> reg.rec[n].target, target |-> reg.rec[n].target]
        \in reg.log

PrimaryBut(r, out, x, S) ==
  \A n \in (Aliases \ (out \cup S)) \cap DOMAIN r.rec :
    r.rec[n].target = x => x \in DOMAIN r.back /\ r.back[x] = n

UnnamedBut(a, S) ==
  /\ row[a] # NoRow /\ a \in retired
  /\ PrimaryBut(reg, late \cup moved, row[a].addr, S)

RetireOK ==
  /\ OwnNames
  /\ \A j \in Jobs : job[j] # Idle /\ job[j].pc = "clear" =>
       UnnamedBut(job[j].agent, job[j].todo)
  /\ \A a \in gone : UnnamedBut(a, {})

-----------------------------------------------------------------------------
(* The policy file.  A wallet that never had two writes in hand at once has*)
(* one writer, and what it will move into place is whole and leaves out    *)
(* nothing that is owed.                                                   *)
Writer(i) ==
  /\ job[i] # Idle
  /\ \/ job[i].op \in {"patch", "clear"}
     \/ job[i].op = "spawn" /\ job[i].doc # NoDoc

WriteAt(j) ==
  LET q == job[j] IN
  Writer(j) /\ q.agent \notin clashed =>
    /\ \A i \in Jobs : Writer(i) /\ job[i].agent = q.agent => i = j
    /\ q.pc = "write" => q.fd = "temp" /\ temp[q.agent] = Empty
    /\ q.pc = "rename" => temp[q.agent] = q.doc
    /\ q.op = "patch" /\ q.pc \in WritingPcs => owed[q.agent] \subseteq q.doc

PolicyOK == PolicyKept /\ \A j \in Jobs : WriteAt(j)

Inv == Sound /\ MoneyOK /\ NamesOK /\ RetireOK /\ PolicyOK


-----------------------------------------------------------------------------
(* Types, places and keys *)

LEMMA SoundAtFirst == Init => Sound
<1> SUFFICES ASSUME Init PROVE Sound
  OBVIOUS
<1>1. DOMAIN held = {} /\ held \in [DOMAIN held -> [What -> Nat]]
  <2>1. held = <<>> /\ <<>> = [x \in {} |-> x] /\ DOMAIN <<>> = {}
    BY DEF Init
  <2> QED BY <2>1
<1>2. TypeOK
  BY <1>1, EmptyRegistry DEF Init, TypeOK, Documents
<1>3. PlacesOK
  BY DEF Init, PlacesOK, Place
<1>4. KeysOK
  BY <1>1, EmptyRegistry, NothingElseAssumption
  DEF Init, KeysOK, Sealing, MoneyHasKey
<1> QED BY <1>2, <1>3, <1>4 DEF Sound

(* What a request may have on the wire.                                    *)
LEMMA OutgoingType ==
  ASSUME TypeOK, PlacesOK, NEW j \in Jobs, NEW tx \in Outgoing(j)
  PROVE  tx \in Transactions /\ job[j] # Idle
<1>1. job[j] # Idle
  BY DEF Outgoing
<1>2. /\ job[j] \in Requests /\ Place(j) /\ job[j].agent \in Agents
      /\ job[j].addr \in Addrs \cup {NoAddr} /\ job[j].missing \in Nat
      /\ job[j].alias \in AllNames \cup {NoName}
      /\ job[j].agent \in AllNames /\ job[j].todo \subseteq AllNames
  BY <1>1, JobType DEF PlacesOK, AllNames, Agents
<1>3. job[j].pc = "add" => row[job[j].agent].addr \in Addrs
  <2>1. job[j].pc = "add" => row[job[j].agent] # NoRow
    BY <1>1, <1>2
    DEF Place, Requests, Ops, SpawnPcs, KeyedPcs, NamingPcs, WritingPcs
  <2> QED BY <1>2, <2>1 DEF TypeOK, Rows
<1> QED BY <1>1, <1>2, <1>3
        DEF Outgoing, Transactions, Payment, Registration, Clearing

(* What a landing does to the registry.                                    *)
Registered(n, x) ==
  /\ ~Taken(reg, n) /\ reg' = RegisterFor(reg, n, x, x)
  /\ late' = IF x[1] \in retired THEN late \cup {n} ELSE late
  /\ UNCHANGED <<keyfile, moved, row, names>>

Cleared(n) ==
  /\ reg' = SetTarget(reg, n, NoAddr)
  /\ UNCHANGED <<keyfile, moved, row, names, late>>

(* Who a name may be registered for: an id for its own agent, and an alias *)
(* for an agent whose id is registered.                                    *)
MayName(n, x) ==
  /\ names /\ n \in AllNames /\ x \in Addrs /\ keyfile[x[1]] = x
  /\ IF n \in Agents THEN n = x[1]
     ELSE x[1] \in DOMAIN reg.rec \/ ~Plain(x[1])

(* What may be cleared: no id that stands.                                 *)
MayClear(n) == n \in DOMAIN reg.rec /\ (n \in Agents => ~Plain(n))

(* What is on the wire, when it lands.                                     *)
LEMMA ComesAs ==
  ASSUME Sound, NamesOK, NEW tx, Comes(tx)
  PROVE  \/ /\ tx.what \in What /\ tx.amount \in Nat
            /\ tx.to \in Addrs /\ keyfile[tx.to[1]] = tx.to
            /\ held' = Given(tx.to, tx.what, tx.amount)
            /\ reg' = reg /\ late' = late
         \/ /\ tx.what = "register" /\ held' = held
            /\ MayName(tx.name, tx.to) /\ Registered(tx.name, tx.to)
         \/ tx.what = "register" /\ UNCHANGED <<held, reg, late>>
         \/ /\ tx.what = "clear" /\ held' = held
            /\ MayClear(tx.name) /\ Cleared(tx.name)
<1>1. /\ tx \in wire /\ tx \in Transactions /\ Lands(tx) /\ NameOnWire(tx)
      /\ UNCHANGED <<keyfile, moved, row, names>>
  BY DEF Comes, Sound, TypeOK, NamesOK
<1>2. tx.what # "clear" => tx.to \in Addrs /\ keyfile[tx.to[1]] = tx.to
  BY <1>1 DEF Sound, KeysOK
<1>3. tx.amount \in Nat /\ tx.what \in What \cup {"register", "clear"}
  BY <1>1 DEF Transactions, What
<1>4. CASE tx.what \in What
  BY <1>1, <1>2, <1>3, <1>4 DEF Lands, What
<1>5. CASE tx.what = "register"
  <2>1. held' = held
    BY <1>1, <1>5 DEF Lands
  <2>2. MayName(tx.name, tx.to)
    BY <1>1, <1>2, <1>5 DEF MayName, NameOnWire
  <2>3. CASE Taken(reg, tx.name)
    BY <1>1, <1>5, <2>1, <2>3 DEF Lands
  <2>4. CASE ~Taken(reg, tx.name)
    BY <1>1, <1>5, <2>1, <2>2, <2>4 DEF Lands, Registered
  <2> QED BY <2>3, <2>4
<1>6. CASE tx.what = "clear"
  BY <1>1, <1>6 DEF Lands, Cleared, MayClear, NameOnWire
<1> QED BY <1>3, <1>4, <1>5, <1>6

(* A step that changes only the request in one slot, to what the types     *)
(* allow, keeps the types.                                                 *)
LEMMA TypeStep ==
  ASSUME Sound, NamesOK, AKind
  PROVE  TypeOK'
<1> USE DEF Sound, TypeOK
<1>1. ASSUME NEW j \in Jobs, NEW q \in Requests \cup {Idle}, PutJob(j, q)
      PROVE  job' \in [Jobs -> Requests \cup {Idle}]
  BY <1>1 DEF PutJob
<1>2. ASSUME NEW j \in Jobs, NEW ask \in Asks, NEW doc \in {NoDoc} \cup Documents,
             NEW pc \in Pcs, Starts(j, ask, doc, pc)
      PROVE  TypeOK'
  <2>1. NewJob(ask, doc, pc) \in Requests
    BY AskType DEF NewJob, Requests, Documents
  <2>2. retired' \subseteq Agents /\ asked' \in [Agents -> Nat]
        /\ crossed' \subseteq Agents /\ clashed' \subseteq Agents
        /\ begun' \in Nat
    BY <1>2, AskType DEF Starts
  <2>3. job' \in [Jobs -> Requests \cup {Idle}]
    BY <1>1, <1>2, <2>1 DEF Starts
  <2> QED BY <1>2, <2>2, <2>3 DEF Starts
<1>3. ASSUME NEW j \in Jobs, Ends(j)
      PROVE  TypeOK'
  <2>1. wire' \subseteq Transactions
    BY <1>3, OutgoingType DEF Ends
  <2> QED BY <1>1, <1>3, <2>1 DEF Ends
<1>4. ASSUME NEW j \in Jobs, job[j] # Idle
      PROVE  /\ job[j] \in Requests
             /\ \A pc \in Pcs : [job[j] EXCEPT !.pc = pc] \in Requests
  <2>1. job[j] \in Requests
    BY <1>4
  <2> QED BY <2>1 DEF Requests
<1>5. ASSUME NEW j \in Jobs, NEW pc \in Pcs, Turns(j, pc)
      PROVE  TypeOK'
  <2>1. job' \in [Jobs -> Requests \cup {Idle}]
    BY <1>1, <1>4, <1>5 DEF Turns
  <2> QED BY <1>5, <2>1 DEF Turns, OnlyJob
<1>6. ASSUME NEW j \in Jobs, Loads(j)
      PROVE  TypeOK'
  <2>0. job[j] \in Requests
    BY <1>4, <1>6 DEF Loads
  <2>1. keyfile[job[j].agent] \in Addrs
    BY <1>4, <1>6 DEF Loads, PlacesOK, Place, Requests
  <2>2. [job[j] EXCEPT !.pc = "endow", !.addr = keyfile[job[j].agent]] \in Requests
    BY <2>0, <1>6, <2>1 DEF Loads, Requests, Pcs
  <2>3. job' \in [Jobs -> Requests \cup {Idle}]
    BY <1>1, <1>6, <2>2 DEF Loads
  <2> QED BY <1>6, <2>3 DEF Loads, OnlyJob
<1>7. ASSUME NEW j \in Jobs, NEW what \in What, NEW wanted \in Nat,
             Measures(j, what, wanted)
      PROVE  TypeOK'
  <2>0. job[j] \in Requests
    BY <1>4, <1>7 DEF Measures
  <2>1. wanted - Balance(job[j].addr, what) \in Nat
    <3>1. Balance(job[j].addr, what) \in Nat
      BY DEF Balance
    <3> QED BY <1>7, <3>1 DEF Measures
  <2>2. [job[j] EXCEPT !.pc = what, !.missing = wanted - Balance(job[j].addr, what)]
          \in Requests
    BY <2>0, <1>7, <2>1 DEF Measures, Requests, Pcs, What
  <2>3. job' \in [Jobs -> Requests \cup {Idle}]
    BY <1>1, <1>7, <2>2 DEF Measures
  <2> QED BY <1>7, <2>3 DEF Measures, OnlyJob
<1>8. ASSUME NEW j \in Jobs, NEW doc \in Documents, Merges(j, doc)
      PROVE  TypeOK'
  <2>0. job[j] \in Requests
    BY <1>4, <1>8 DEF Merges
  <2>1. [job[j] EXCEPT !.pc = "open", !.doc = doc] \in Requests
    BY <2>0, <1>8 DEF Merges, Requests, Pcs, Documents
  <2>2. job' \in [Jobs -> Requests \cup {Idle}]
    BY <1>1, <1>8, <2>1 DEF Merges
  <2> QED BY <1>8, <2>2 DEF Merges, OnlyJob
<1>9. ASSUME NEW j \in Jobs, NEW S \in SUBSET AllNames, Lists(j, S)
      PROVE  TypeOK'
  <2>0. job[j] \in Requests
    BY <1>4, <1>9 DEF Lists
  <2>1. [job[j] EXCEPT !.pc = "clear", !.todo = S] \in Requests
    BY <2>0, <1>9 DEF Lists, Requests, Pcs
  <2>2. job' \in [Jobs -> Requests \cup {Idle}]
    BY <1>1, <1>9, <2>1 DEF Lists
  <2> QED BY <1>9, <2>2 DEF Lists, OnlyJob
<1>10. ASSUME NEW j \in Jobs, NEW x \in Addrs, Opens(j, x)
       PROVE  TypeOK'
  <2>0. job[j] \in Requests
    BY <1>4, <1>10 DEF Opens
  <2>1. [job[j] EXCEPT !.pc = "seal", !.addr = x] \in Requests
    BY <2>0, <1>10 DEF Opens, Requests, Pcs
  <2>2. job' \in [Jobs -> Requests \cup {Idle}]
    BY <1>1, <1>10, <2>1 DEF Opens
  <2> QED BY <1>10, <2>2 DEF Opens
<1>11. ASSUME NEW j \in Jobs, Seals(j)
       PROVE  TypeOK'
  <2>1. [job[j] EXCEPT !.pc = "endow"] \in Requests
    BY <1>4, <1>11 DEF Seals, Pcs
  <2>2. job' \in [Jobs -> Requests \cup {Idle}]
    BY <1>1, <1>11, <2>1 DEF Seals
  <2>3. job[j].addr \in Addrs
    BY <1>11 DEF Seals, PlacesOK, Place
  <2> QED BY <1>11, <2>2, <2>3 DEF Seals
<1>12. ASSUME NEW j \in Jobs, NEW what \in What, NEW q \in Requests \cup {Idle},
              Pays(j, what, q)
       PROVE  TypeOK'
  <2>1. job' \in [Jobs -> Requests \cup {Idle}]
    BY <1>1, <1>12 DEF Pays
  <2>2. job[j].addr \in Addrs /\ job[j].missing \in Nat
    <3>1. job[j] \in Requests
      BY <1>4, <1>12 DEF Pays
    <3> QED BY <1>12, <3>1
        DEF Pays, PlacesOK, Place, HasKey, KeyedPcs, NamingPcs, WritingPcs,
            Requests, Ops, What
  <2>3. DOMAIN held' \subseteq Addrs /\ held' \in [DOMAIN held' -> [What -> Nat]]
    <3> DEFINE x == job[j].addr
               g == [w \in {"gas", "play"} |->
                      Balance(x, w) + IF w = what THEN job[j].missing ELSE 0]
    <3>1. g \in [What -> Nat]
      BY <2>2 DEF Balance, What
    <3>2. held' = With(held, x, g)
      BY <1>12 DEF Pays, Given
    <3> HIDE DEF g
    <3> QED BY <2>2, <3>1, <3>2 DEF With
  <2> QED BY <1>12, <2>1, <2>3 DEF Pays
<1>13. ASSUME NEW j \in Jobs, NEW n \in AllNames, NEW x \in Addrs,
              NEW q \in Requests \cup {Idle}, NamesIt(j, n, x, q)
       PROVE  TypeOK'
  <2>1. job' \in [Jobs -> Requests \cup {Idle}]
    BY <1>1, <1>13 DEF NamesIt
  <2>2. RegistryOK(reg')
    BY <1>13, AfterRegister DEF NamesIt, Taken
  <2>3. late' \subseteq AllNames
    BY <1>13 DEF NamesIt
  <2> QED BY <1>13, <2>1, <2>2, <2>3 DEF NamesIt
<1>14. ASSUME NEW j \in Jobs, Marks(j)
       PROVE  TypeOK'
  <2>1. job' \in [Jobs -> Requests \cup {Idle}]
    BY <1>1, <1>14 DEF Marks
  <2>2. job[j] \in Requests /\ job[j].addr \in Addrs
    <3>1. job[j] \in Requests
      BY <1>4, <1>14 DEF Marks
    <3> QED BY <1>14, <3>1
        DEF Marks, PlacesOK, Place, HasKey, KeyedPcs, NamingPcs, WritingPcs,
            Requests, Ops
  <2>3. row' \in [Agents -> Rows \cup {NoRow}] /\ token' \in [Agents -> Nat]
    BY <1>14, <2>2 DEF Marks, Rows, Requests, Credential
  <2> QED BY <1>14, <2>1, <2>3 DEF Marks
<1>15. ASSUME NEW j \in Jobs, WritesFile(j)
       PROVE  TypeOK'
  <2>1. job[j] \in Requests /\ (job[j].pc \in WritingPcs => job[j].doc \in Documents)
    BY <1>4, <1>15
    DEF WritesFile, PlacesOK, Place, Requests, Documents
  <2>2. /\ policy' \in [Agents -> {Empty, Mixed, NoFile} \cup Documents]
        /\ temp' \in [Agents -> {Empty, Mixed, NoFile} \cup Documents]
        /\ owed' \in [Agents -> Documents]
    BY <1>15, <2>1 DEF WritesFile, Documents, WritingPcs, Requests
  <2> QED BY <1>15, <2>2 DEF WritesFile
<1>16. ASSUME NEW j \in Jobs, NEW n \in AllNames, NEW q \in Requests \cup {Idle},
              Unnames(j, n, q)
       PROVE  TypeOK'
  <2>1. job' \in [Jobs -> Requests \cup {Idle}]
    BY <1>1, <1>16 DEF Unnames
  <2>2. RegistryOK(reg')
    BY <1>16, AfterSetTarget DEF Unnames, NamesOK, NameAt
  <2> QED BY <1>16, <2>1, <2>2 DEF Unnames
<1>17. ASSUME NEW j \in Jobs, Retires(j)
       PROVE  TypeOK'
  <2>1. job' \in [Jobs -> Requests \cup {Idle}]
    BY <1>1, <1>17 DEF Retires
  <2>2. job[j].agent \in Agents
    BY <1>4, <1>17 DEF Retires, Requests
  <2> QED BY <1>17, <2>1, <2>2 DEF Retires
<1>18. ASSUME NEW a \in Agents, Rotates(a)
       PROVE  TypeOK'
  BY <1>18 DEF Rotates, Credential
<1>19. ASSUME NEW a \in Agents, NEW b \in Agents, NEW n \in AllNames,
              MovesName(a, n, b)
       PROVE  TypeOK'
  <2>1. row[b].addr \in Addrs
    BY <1>19 DEF MovesName, Rows
  <2>2. RegistryOK(reg')
    BY <1>19, <2>1, AfterSetTarget, AfterTransfer DEF MovesName
  <2> QED BY <1>19, <2>2 DEF MovesName
<1>20. CASE Dies
  <2>1. token' \in [Agents -> Nat]
    BY <1>20 DEF Dies, Credential
  <2>2. wire' \subseteq Transactions
    BY <1>20, OutgoingType DEF Dies
  <2>3. job' \in [Jobs -> Requests \cup {Idle}]
    BY <1>20 DEF Dies
  <2> QED BY <1>20, <2>1, <2>2, <2>3 DEF Dies
<1>21. CASE UNCHANGED vars
  BY <1>21 DEF vars, chain, disk, tables, history
<1>22. ASSUME NEW tx \in Transactions, Comes(tx)
       PROVE  TypeOK'
  <2>1. tx.to \in Addrs => tx.to[1] \in Agents
    BY DEF Addrs
  <2>2. overtaken' \subseteq Agents /\ wire' = {}
    BY <1>22, <2>1, ComesAs DEF Comes, Lands, What
  <2>3. /\ UNCHANGED <<names, keyfile, drawn, policy, temp, row, retired, token,
                       job, begun, faults, asked, crossed, clashed, owed, gone,
                       moved>>
    BY <1>22 DEF Comes
  <2>4. /\ DOMAIN held' \subseteq Addrs
        /\ held' \in [DOMAIN held' -> [What -> Nat]]
        /\ RegistryOK(reg') /\ late' \subseteq AllNames
    <3>1. CASE /\ tx.what \in What /\ tx.amount \in Nat /\ tx.to \in Addrs
               /\ held' = Given(tx.to, tx.what, tx.amount)
               /\ reg' = reg /\ late' = late
      <4> DEFINE x == tx.to
                 g == [w \in {"gas", "play"} |->
                        Balance(x, w) + IF w = tx.what THEN tx.amount ELSE 0]
      <4>1. g \in [What -> Nat]
        BY <3>1 DEF Balance, What
      <4>2. held' = With(held, x, g)
        BY <3>1 DEF Given
      <4> HIDE DEF g
      <4> QED BY <3>1, <4>1, <4>2 DEF With
    <3>2. CASE /\ held' = held
               /\ MayName(tx.name, tx.to) /\ Registered(tx.name, tx.to)
      <4>1. tx.name \in AllNames /\ tx.to \in Addrs
        BY <3>2 DEF MayName
      <4> QED BY <3>2, <4>1, AfterRegister DEF Registered, Taken
    <3>3. CASE UNCHANGED <<held, reg, late>>
      BY <3>3
    <3>4. CASE held' = held /\ MayClear(tx.name) /\ Cleared(tx.name)
      BY <3>4, AfterSetTarget DEF MayClear, Cleared
    <3> QED BY <1>22, <3>1, <3>2, <3>3, <3>4, ComesAs
  <2> QED BY <2>2, <2>3, <2>4
<1> QED
  BY <1>2, <1>3, <1>5, <1>6, <1>7, <1>8, <1>9, <1>10, <1>11, <1>12, <1>13,
     <1>14, <1>15, <1>16, <1>17, <1>18, <1>19, <1>20, <1>21, <1>22 DEF AKind


LEMMA PutFacts ==
  ASSUME TypeOK, NEW j \in Jobs, NEW q, PutJob(j, q)
  PROVE  job'[j] = q /\ \A i \in Jobs \ {j} : job'[i] = job[i]
BY DEF TypeOK, PutJob

(* What a step leaves of the request it moves on.                          *)
Changes(j, pc, doc, addr, missing, todo) ==
  LET q == job[j]
      p == job'[j] IN
  /\ q # Idle /\ p # Idle /\ q \in Requests
  /\ p.op = q.op /\ p.agent = q.agent /\ p.kind = q.kind /\ p.fund = q.fund
  /\ p.alias = q.alias /\ p.fd = q.fd
  /\ p.pc = pc /\ p.doc = doc /\ p.addr = addr /\ p.missing = missing
  /\ p.todo = todo

LEMMA TurnsTo ==
  ASSUME Sound, NEW j \in Jobs, NEW pc \in Pcs, Turns(j, pc)
  PROVE  Changes(j, pc, job[j].doc, job[j].addr, job[j].missing, job[j].todo)
<1> DEFINE q == job[j]
           p == job'[j]
<1>1. q # Idle /\ q \in Requests
  BY JobType DEF Turns, Sound
<1>2. p = [q EXCEPT !.pc = pc]
  BY PutFacts DEF Turns, Sound
<1>3. p \in Requests
  BY <1>1, <1>2 DEF Requests, Pcs
<1>4. p # Idle
  BY <1>3, NothingElseAssumption
<1>5. /\ p.op = q.op /\ p.agent = q.agent /\ p.kind = q.kind
      /\ p.fund = q.fund /\ p.alias = q.alias /\ p.fd = q.fd
  BY <1>1, <1>2 DEF Requests
<1> QED BY <1>1, <1>2, <1>4, <1>5 DEF Changes, Requests

LEMMA LoadsTo ==
  ASSUME Sound, NEW j \in Jobs, Loads(j)
  PROVE  Changes(j, "endow", job[j].doc, keyfile[job[j].agent],
                 job[j].missing, job[j].todo)
<1> DEFINE q == job[j]
           p == job'[j]
<1>1. q # Idle /\ q \in Requests
  BY JobType DEF Loads, Sound
<1>2. p = [q EXCEPT !.pc = "endow", !.addr = keyfile[q.agent]]
  BY PutFacts DEF Loads, Sound
<1>3. keyfile[q.agent] \in Addrs
  BY <1>1, JobType DEF Loads, Sound, PlacesOK, Place, TypeOK
<1>4. p \in Requests
  BY <1>1, <1>2, <1>3 DEF Requests, Pcs
<1>5. p # Idle
  BY <1>4, NothingElseAssumption
<1>6. /\ p.op = q.op /\ p.agent = q.agent /\ p.kind = q.kind
      /\ p.fund = q.fund /\ p.alias = q.alias /\ p.fd = q.fd
  BY <1>1, <1>2 DEF Requests
<1> QED BY <1>1, <1>2, <1>5, <1>6 DEF Changes, Requests

LEMMA MeasuresTo ==
  ASSUME Sound, NEW j \in Jobs, NEW what \in What, NEW wanted \in Nat,
         Measures(j, what, wanted)
  PROVE  Changes(j, what, job[j].doc, job[j].addr,
                 wanted - Balance(job[j].addr, what), job[j].todo)
<1> DEFINE q == job[j]
           p == job'[j]
<1>1. q # Idle /\ q \in Requests
  BY JobType DEF Measures, Sound
<1>2. p = [q EXCEPT !.pc = what,
                    !.missing = wanted - Balance(q.addr, what)]
  BY PutFacts DEF Measures, Sound
<1>3. wanted - Balance(q.addr, what) \in Nat
  <2>1. Balance(job[j].addr, what) \in Nat
    BY DEF Balance, Sound, TypeOK
  <2> QED BY <2>1 DEF Measures
<1>4. p \in Requests
  BY <1>1, <1>2, <1>3 DEF Requests, Pcs, What
<1>5. p # Idle
  BY <1>4, NothingElseAssumption
<1>6. /\ p.op = q.op /\ p.agent = q.agent /\ p.kind = q.kind
      /\ p.fund = q.fund /\ p.alias = q.alias /\ p.fd = q.fd
  BY <1>1, <1>2 DEF Requests
<1> QED BY <1>1, <1>2, <1>5, <1>6 DEF Changes, Requests

LEMMA MergesTo ==
  ASSUME Sound, NEW j \in Jobs, NEW doc \in Documents, Merges(j, doc)
  PROVE  Changes(j, "open", doc, job[j].addr, job[j].missing, job[j].todo)
<1> DEFINE q == job[j]
           p == job'[j]
<1>1. q # Idle /\ q \in Requests
  BY JobType DEF Merges, Sound
<1>2. p = [q EXCEPT !.pc = "open", !.doc = doc]
  BY PutFacts DEF Merges, Sound
<1>3. p \in Requests
  BY <1>1, <1>2 DEF Requests, Pcs, Documents
<1>4. p # Idle
  BY <1>3, NothingElseAssumption
<1>5. /\ p.op = q.op /\ p.agent = q.agent /\ p.kind = q.kind
      /\ p.fund = q.fund /\ p.alias = q.alias /\ p.fd = q.fd
  BY <1>1, <1>2 DEF Requests
<1> QED BY <1>1, <1>2, <1>4, <1>5 DEF Changes, Requests

LEMMA ListsTo ==
  ASSUME Sound, NEW j \in Jobs, NEW S \in SUBSET AllNames, Lists(j, S)
  PROVE  Changes(j, "clear", job[j].doc, job[j].addr, job[j].missing, S)
<1> DEFINE q == job[j]
           p == job'[j]
<1>1. q # Idle /\ q \in Requests
  BY JobType DEF Lists, Sound
<1>2. p = [q EXCEPT !.pc = "clear", !.todo = S]
  BY PutFacts DEF Lists, Sound
<1>3. p \in Requests
  BY <1>1, <1>2 DEF Requests, Pcs
<1>4. p # Idle
  BY <1>3, NothingElseAssumption
<1>5. /\ p.op = q.op /\ p.agent = q.agent /\ p.kind = q.kind
      /\ p.fund = q.fund /\ p.alias = q.alias /\ p.fd = q.fd
  BY <1>1, <1>2 DEF Requests
<1> QED BY <1>1, <1>2, <1>4, <1>5 DEF Changes, Requests

LEMMA OpensTo ==
  ASSUME Sound, NEW j \in Jobs, NEW x \in Addrs, Opens(j, x)
  PROVE  Changes(j, "seal", job[j].doc, x, job[j].missing, job[j].todo)
<1> DEFINE q == job[j]
           p == job'[j]
<1>1. q # Idle /\ q \in Requests
  BY JobType DEF Opens, Sound
<1>2. p = [q EXCEPT !.pc = "seal", !.addr = x]
  BY PutFacts DEF Opens, Sound
<1>3. p \in Requests
  BY <1>1, <1>2 DEF Requests, Pcs
<1>4. p # Idle
  BY <1>3, NothingElseAssumption
<1>5. /\ p.op = q.op /\ p.agent = q.agent /\ p.kind = q.kind
      /\ p.fund = q.fund /\ p.alias = q.alias /\ p.fd = q.fd
  BY <1>1, <1>2 DEF Requests
<1> QED BY <1>1, <1>2, <1>4, <1>5 DEF Changes, Requests

LEMMA SealsTo ==
  ASSUME Sound, NEW j \in Jobs, Seals(j)
  PROVE  Changes(j, "endow", job[j].doc, job[j].addr, job[j].missing, job[j].todo)
<1> DEFINE q == job[j]
           p == job'[j]
<1>1. q # Idle /\ q \in Requests
  BY JobType DEF Seals, Sound
<1>2. p = [q EXCEPT !.pc = "endow"]
  BY PutFacts DEF Seals, Sound
<1>3. p \in Requests
  BY <1>1, <1>2 DEF Requests, Pcs
<1>4. p # Idle
  BY <1>3, NothingElseAssumption
<1>5. /\ p.op = q.op /\ p.agent = q.agent /\ p.kind = q.kind
      /\ p.fund = q.fund /\ p.alias = q.alias /\ p.fd = q.fd
  BY <1>1, <1>2 DEF Requests
<1> QED BY <1>1, <1>2, <1>4, <1>5 DEF Changes, Requests

LEMMA PaysTo ==
  ASSUME Sound, NEW j \in Jobs, NEW what \in What, NEW r, r # Idle,
         Pays(j, what, r)
  PROVE  Changes(j, IF what = "gas" THEN "fund" ELSE "name",
                 job[j].doc, job[j].addr, job[j].missing, job[j].todo)
<1> DEFINE q == job[j]
           p == job'[j]
<1>1. q # Idle /\ q \in Requests
  BY JobType DEF Pays, Sound
<1>2. p = [q EXCEPT !.pc = IF what = "gas" THEN "fund" ELSE "name"]
  BY PutFacts DEF Pays, Sound
<1>3. p \in Requests
  BY <1>1, <1>2 DEF Requests, Pcs, What
<1>4. p # Idle
  BY <1>3, NothingElseAssumption
<1>5. /\ p.op = q.op /\ p.agent = q.agent /\ p.kind = q.kind
      /\ p.fund = q.fund /\ p.alias = q.alias /\ p.fd = q.fd
  BY <1>1, <1>2 DEF Requests
<1> QED BY <1>1, <1>2, <1>4, <1>5 DEF Changes, Requests

LEMMA NamesTo ==
  ASSUME Sound, NEW j \in Jobs, NEW n, NEW x, NEW r, r # Idle, NamesIt(j, n, x, r)
  PROVE  Changes(j, AfterRegistration(job[j]),
                 job[j].doc, job[j].addr, job[j].missing, job[j].todo)
<1> DEFINE q == job[j]
           p == job'[j]
<1>1. q # Idle /\ q \in Requests
  BY JobType DEF NamesIt, Sound
<1>2. p = [q EXCEPT !.pc = AfterRegistration(q)]
  BY PutFacts DEF NamesIt, Sound
<1>3. p \in Requests
  BY <1>1, <1>2 DEF Requests, Pcs, AfterRegistration, NextName
<1>4. p # Idle
  BY <1>3, NothingElseAssumption
<1>5. /\ p.op = q.op /\ p.agent = q.agent /\ p.kind = q.kind
      /\ p.fund = q.fund /\ p.alias = q.alias /\ p.fd = q.fd
  BY <1>1, <1>2 DEF Requests
<1> QED BY <1>1, <1>2, <1>4, <1>5 DEF Changes, Requests

LEMMA UnnamesTo ==
  ASSUME Sound, NEW j \in Jobs, NEW n, NEW r, r # Idle, Unnames(j, n, r)
  PROVE  Changes(j, "clear",
                 job[j].doc, job[j].addr, job[j].missing, job[j].todo \ {n})
<1> DEFINE q == job[j]
           p == job'[j]
<1>1. q # Idle /\ q \in Requests
  BY JobType DEF Unnames, Sound
<1>2. p = [q EXCEPT !.todo = @ \ {n}]
  BY PutFacts DEF Unnames, Sound
<1>3. p \in Requests
  BY <1>1, <1>2 DEF Requests, Pcs, Unnames
<1>4. p # Idle
  BY <1>3, NothingElseAssumption
<1>5. /\ p.op = q.op /\ p.agent = q.agent /\ p.kind = q.kind
      /\ p.fund = q.fund /\ p.alias = q.alias /\ p.fd = q.fd
  BY <1>1, <1>2 DEF Requests
<1> QED BY <1>1, <1>2, <1>4, <1>5 DEF Changes, Requests, Unnames

(* What no step undoes, and who changes a key file or a marker.            *)
Grows ==
  /\ names' = names
  /\ retired \subseteq retired' /\ moved \subseteq moved'
  /\ crossed \subseteq crossed' /\ clashed \subseteq clashed'
  /\ late \subseteq late' /\ overtaken \subseteq overtaken'
  /\ row' = row \/ \E j \in Jobs : Marks(j)
  /\ \/ keyfile' = keyfile
     \/ \E j \in Jobs, x \in Addrs : Opens(j, x)
     \/ \E j \in Jobs : Seals(j)
  /\ \/ held' = held
     \/ \E j \in Jobs, what \in What, q \in Requests \cup {Idle} :
          Pays(j, what, q)
     \/ \E tx \in Transactions : Comes(tx)
  /\ \/ reg' = reg
     \/ \E tx \in Transactions : Comes(tx)
     \/ \E j \in Jobs, n \in AllNames, x \in Addrs, q \in Requests \cup {Idle} :
          NamesIt(j, n, x, q)
     \/ \E j \in Jobs, n \in AllNames, q \in Requests \cup {Idle} :
          Unnames(j, n, q)
     \/ \E a, b \in Agents, n \in AllNames : MovesName(a, n, b)
  /\ <<policy, temp, owed>>' = <<policy, temp, owed>> \/ \E j \in Jobs : WritesFile(j)
  /\ gone' = gone \/ \E j \in Jobs : Retires(j)
  /\ \/ <<asked, crossed, clashed>>' = <<asked, crossed, clashed>>
     \/ \E j \in Jobs, ask \in Asks, doc \in {NoDoc} \cup Documents, pc \in Pcs :
          Starts(j, ask, doc, pc)
  /\ \/ token' = token \/ \E j \in Jobs : Marks(j)
     \/ \E a \in Agents : token' = Credential(a)

LEMMA StepGrows ==
  ASSUME AKind
  PROVE  Grows
<1> USE DEF Grows, OnlyJob
<1>1. ASSUME NEW j \in Jobs, NEW ask \in Asks, NEW doc \in {NoDoc} \cup
             Documents, NEW pc \in Pcs, Starts(j, ask, doc, pc)
      PROVE  Grows
  BY <1>1 DEF Starts
<1>2. ASSUME NEW j \in Jobs, Ends(j)
      PROVE  Grows
  BY <1>2 DEF Ends
<1>3. ASSUME NEW j \in Jobs, NEW pc \in Pcs, Turns(j, pc)
      PROVE  Grows
  BY <1>3 DEF Turns
<1>4. ASSUME NEW j \in Jobs, Loads(j)
      PROVE  Grows
  BY <1>4 DEF Loads
<1>5. ASSUME NEW j \in Jobs, NEW what \in What, NEW wanted \in Nat, Measures(j,
             what, wanted)
      PROVE  Grows
  BY <1>5 DEF Measures
<1>6. ASSUME NEW j \in Jobs, NEW doc \in Documents, Merges(j, doc)
      PROVE  Grows
  BY <1>6 DEF Merges
<1>7. ASSUME NEW j \in Jobs, NEW S \in SUBSET AllNames, Lists(j, S)
      PROVE  Grows
  BY <1>7 DEF Lists
<1>8. ASSUME NEW j \in Jobs, NEW x \in Addrs, Opens(j, x)
      PROVE  Grows
  <2>1. UNCHANGED <<names, reg, held, policy, temp, row, retired, token,
                    asked, crossed, overtaken, clashed, owed, late, gone, moved>>
    BY <1>8 DEF Opens
  <2> QED BY <1>8, <2>1
<1>9. ASSUME NEW j \in Jobs, Seals(j)
      PROVE  Grows
  BY <1>9 DEF Seals
<1>10. ASSUME NEW j \in Jobs, NEW what \in What, NEW q \in Requests \cup
              {Idle}, Pays(j, what, q)
       PROVE  Grows
  BY <1>10 DEF Pays
<1>11. ASSUME NEW j \in Jobs, NEW n \in AllNames, NEW x \in Addrs, NEW q \in
              Requests \cup {Idle}, NamesIt(j, n, x, q)
       PROVE  Grows
  BY <1>11 DEF NamesIt
<1>12. ASSUME NEW j \in Jobs, Marks(j)
       PROVE  Grows
  <2>1. \E i \in Jobs : Marks(i)
    BY <1>12
  <2> QED BY <1>12, <2>1 DEF Marks
<1>13. ASSUME NEW j \in Jobs, WritesFile(j)
       PROVE  Grows
  BY <1>13 DEF WritesFile
<1>14. ASSUME NEW j \in Jobs, NEW n \in AllNames, NEW q \in Requests \cup
              {Idle}, Unnames(j, n, q)
       PROVE  Grows
  BY <1>14 DEF Unnames
<1>15. ASSUME NEW j \in Jobs, Retires(j)
       PROVE  Grows
  BY <1>15 DEF Retires
<1>16. ASSUME NEW a \in Agents, Rotates(a)
       PROVE  Grows
  BY <1>16 DEF Rotates
<1>17. ASSUME NEW a \in Agents, NEW b \in Agents, NEW n \in AllNames,
              MovesName(a, n, b)
       PROVE  Grows
  BY <1>17 DEF MovesName
<1>18. CASE Dies
  BY <1>18 DEF Dies
<1>19. CASE UNCHANGED vars
  BY <1>19 DEF vars, chain, disk, tables, history
<1>20. ASSUME NEW tx \in Transactions, Comes(tx)
       PROVE  Grows
  BY <1>20 DEF Comes, Lands
<1> QED
  BY <1>1, <1>2, <1>3, <1>4, <1>5, <1>6, <1>7, <1>8, <1>9, <1>10, <1>11,
     <1>12, <1>13, <1>14, <1>15, <1>16, <1>17, <1>18, <1>19, <1>20 DEF AKind

(* What is on the wire stays until something lands, and then is void.      *)
WireGrows ==
  /\ \/ wire' = {}
     \/ wire' = wire /\ held' = held
     \/ /\ \E j \in Jobs : \E tx \in Outgoing(j) : wire' = wire \cup {tx}
        /\ UNCHANGED <<names, reg, held, keyfile, row, asked, crossed,
                       overtaken, moved>>

LEMMA WireStep ==
  ASSUME AKind
  PROVE  WireGrows
<1> USE DEF WireGrows
<1>1. ASSUME wire' = wire, held' = held
      PROVE  WireGrows
  BY <1>1
<1>2. ASSUME wire' = {}
      PROVE  WireGrows
  BY <1>2
<1>3. ASSUME NEW j \in Jobs, Ends(j)
      PROVE  WireGrows
  BY <1>3 DEF Ends
<1>4. CASE Dies
  BY <1>4 DEF Dies
<1> HIDE DEF WireGrows
<1>5. ASSUME NEW j \in Jobs,
             \/ \E ask \in Asks, doc \in {NoDoc} \cup Documents, pc \in Pcs :
                  Starts(j, ask, doc, pc)
             \/ \E x \in Addrs : Opens(j, x)
             \/ Seals(j) \/ Marks(j) \/ WritesFile(j) \/ Retires(j)
      PROVE  WireGrows
  <2>1. wire' = wire /\ held' = held
    <3>1. CASE \E ask \in Asks, doc \in {NoDoc} \cup Documents, pc \in Pcs :
                 Starts(j, ask, doc, pc)
      BY <3>1 DEF Starts
    <3>2. CASE \E x \in Addrs : Opens(j, x)
      BY <3>2 DEF Opens
    <3>3. CASE Seals(j) \/ Marks(j)
      BY <3>3 DEF Seals, Marks
    <3>4. CASE WritesFile(j) \/ Retires(j)
      BY <3>4 DEF WritesFile, Retires
    <3> QED BY <1>5, <3>1, <3>2, <3>3, <3>4
  <2> QED BY <1>1, <2>1
<1>6. ASSUME NEW j \in Jobs,
             \/ \E pc \in Pcs : Turns(j, pc)
             \/ Loads(j)
             \/ \E what \in What, wanted \in Nat : Measures(j, what, wanted)
             \/ \E doc \in Documents : Merges(j, doc)
             \/ \E S \in SUBSET AllNames : Lists(j, S)
      PROVE  WireGrows
  BY <1>1, <1>6 DEF Turns, Loads, Measures, Merges, Lists, OnlyJob
<1>7. ASSUME NEW j \in Jobs,
             \/ \E what \in What, q \in Requests \cup {Idle} : Pays(j, what, q)
             \/ \E n \in AllNames, x \in Addrs, q \in Requests \cup {Idle} :
                  NamesIt(j, n, x, q)
             \/ \E n \in AllNames, q \in Requests \cup {Idle} : Unnames(j, n, q)
      PROVE  WireGrows
  BY <1>2, <1>7 DEF Pays, NamesIt, Unnames
<1>8. ASSUME NEW a \in Agents,
             \/ Rotates(a)
             \/ \E b \in Agents, n \in AllNames : MovesName(a, n, b)
      PROVE  WireGrows
  BY <1>1, <1>8 DEF Rotates, MovesName
<1>9. ASSUME NEW tx \in Transactions, Comes(tx)
      PROVE  WireGrows
  BY <1>2, <1>9 DEF Comes, Lands
<1>10. CASE UNCHANGED vars
  BY <1>1, <1>10 DEF vars, chain
<1> QED BY <1>3, <1>4, <1>5, <1>6, <1>7, <1>8, <1>9, <1>10 DEF AKind

LEMMA Persists ==
  ASSUME Sound, AKind
  PROVE  /\ names' = names
         /\ retired \subseteq retired' /\ moved \subseteq moved'
         /\ crossed \subseteq crossed' /\ clashed \subseteq clashed'
         /\ late \subseteq late' /\ overtaken \subseteq overtaken'
         /\ \A a \in Agents : row[a] # NoRow => row'[a] = row[a]
<1>1. Grows
  BY StepGrows
<1>2. ASSUME NEW j \in Jobs, Marks(j)
      PROVE  \A a \in Agents : row[a] # NoRow => row'[a] = row[a]
  BY <1>2 DEF Marks, Sound, TypeOK
<1> QED BY <1>1, <1>2 DEF Grows

LEMMA KeyfileStep ==
  ASSUME Sound, AKind
  PROVE  \/ keyfile' = keyfile
         \/ \E j \in Jobs, x \in Addrs : Opens(j, x)
         \/ \E j \in Jobs : Seals(j)
BY StepGrows DEF Grows

LEMMA KeyfilePersists ==
  ASSUME Sound, AKind, NEW a \in Agents
  PROVE  /\ keyfile[a] \in Addrs => keyfile'[a] = keyfile[a]
         /\ keyfile[a] # NoFile => keyfile'[a] # NoFile
         /\ keyfile'[a] \in Addrs => keyfile'[a] = keyfile[a] \/ keyfile[a] = Empty
<1>1. CASE keyfile' = keyfile
  BY <1>1
<1>2. ASSUME NEW j \in Jobs, NEW x \in Addrs, Opens(j, x)
      PROVE  keyfile'[a] = keyfile[a]
             \/ (keyfile[a] = NoFile /\ keyfile'[a] = Empty)
  BY <1>2 DEF Opens, Sound, TypeOK
<1>3. ASSUME NEW j \in Jobs, Seals(j)
      PROVE  keyfile'[a] = keyfile[a]
             \/ (keyfile[a] = Empty /\ keyfile'[a] \in Addrs)
  BY <1>3 DEF Seals, Sound, TypeOK, PlacesOK, Place
<1>4. Empty \notin Addrs /\ NoFile \notin Addrs /\ Empty # NoFile
  BY NothingElseAssumption DEF Unreadable
<1> QED BY <1>1, <1>2, <1>3, <1>4, KeyfileStep

(* A request no step touches is where it was.                              *)
LEMMA PlaceStays ==
  ASSUME Sound, AKind, NEW i \in Jobs, FdOnly(i)
  PROVE  Place(i)'
<1> SUFFICES ASSUME job'[i] # Idle PROVE Place(i)'
  BY DEF Place
<1> DEFINE q == job[i]
           p == job'[i]
<1>1. /\ q # Idle /\ Place(i) /\ q \in Requests /\ q.agent \in Agents
      /\ p.op = q.op /\ p.agent = q.agent /\ p.pc = q.pc /\ p.kind = q.kind
      /\ p.alias = q.alias /\ p.doc = q.doc /\ p.addr = q.addr
  BY DEF FdOnly, Sound, TypeOK, PlacesOK, Requests
<1>2. /\ names' = names /\ retired \subseteq retired'
      /\ row[q.agent] # NoRow => row'[q.agent] # NoRow
  BY <1>1, Persists
<1>3. q.pc = "seal" => keyfile'[q.agent] = Empty
  <2> SUFFICES ASSUME q.pc = "seal" PROVE keyfile'[q.agent] = Empty
    OBVIOUS
  <2>1. keyfile[q.agent] = Empty /\ Sealing(i) /\ Empty # NoFile
    BY <1>1, NothingElseAssumption DEF Place, Sealing, Unreadable
  <2>2. ASSUME NEW j \in Jobs, NEW x \in Addrs, Opens(j, x)
        PROVE  keyfile'[q.agent] = Empty
    BY <2>1, <2>2, <1>1 DEF Opens, Sound, TypeOK
  <2>3. ASSUME NEW j \in Jobs, Seals(j)
        PROVE  keyfile'[q.agent] = Empty
    <3>1. Sealing(j) /\ job'[j].pc = "endow"
      BY <2>3, PutFacts DEF Seals, Sealing, Sound, TypeOK, Requests
    <3>2. j # i
      BY <1>1, <2>1, <3>1 DEF Sealing
    <3>3. job[j].agent # q.agent
      BY <2>1, <3>1, <3>2 DEF Sound, KeysOK
    <3> QED BY <1>1, <2>1, <2>3, <3>3 DEF Seals, Sound, TypeOK
  <2> QED BY <2>1, <2>2, <2>3, KeyfileStep
<1>4. HasKey(q) => keyfile'[q.agent] = q.addr
  BY <1>1, KeyfilePersists DEF Place
<1>5. q.pc = "load" => keyfile'[q.agent] # NoFile
  BY <1>1, KeyfilePersists DEF Place
<1> HIDE DEF q, p
<1>6. q # Idle => Place(i)'
  BY <1>1, <1>2, <1>3, <1>4, <1>5 DEF Place, HasKey, q, p
<1> QED BY <1>1, <1>6


LEMMA PlacesStep ==
  ASSUME Sound, AKind
  PROVE  PlacesOK'
<1> SUFFICES \A i \in Jobs : Place(i)'
  BY DEF PlacesOK
<1>1. ASSUME NEW j \in Jobs, NEW ask \in Asks, NEW doc \in {NoDoc} \cup
             Documents, NEW pc \in Pcs, Starts(j, ask, doc, pc)
      PROVE  \A i \in Jobs : Place(i)'
  <2>1. Place(j)'
    <3>1. job'[j] = NewJob(ask, doc, pc)
      BY <1>1, PutFacts DEF Starts, Sound
    <3>2. /\ retired' = IF ask.op = "retire" THEN retired \cup {ask.agent}
                                            ELSE retired
          /\ row' = row /\ names' = names
      BY <1>1 DEF Starts
    <3> QED
      BY <1>1, <3>1, <3>2, AskType
      DEF Starts, NewJob, Place, HasKey, Ops, SpawnPcs, KeyedPcs, NamingPcs,
          WritingPcs
  <2>2. \A i \in Jobs \ {j} : Place(i)'
    BY <1>1, PutFacts, PlaceStays DEF FdOnly, Sound, Starts
  <2> QED BY <2>1, <2>2
<1>2. ASSUME NEW j \in Jobs, Ends(j)
      PROVE  \A i \in Jobs : Place(i)'
  <2>1. Place(j)'
    <3>1. job'[j] = Idle
      BY <1>2, PutFacts DEF Ends, Sound
    <3> QED BY <3>1 DEF Place
  <2>2. \A i \in Jobs \ {j} : Place(i)'
    BY <1>2, PutFacts, PlaceStays DEF FdOnly, Sound, Ends
  <2> QED BY <2>1, <2>2
<1>3. ASSUME NEW j \in Jobs, NEW pc \in Pcs, Turns(j, pc)
      PROVE  \A i \in Jobs : Place(i)'
  <2>1. Place(j)'
    <3> DEFINE q == job[j]
               p == job'[j]
    <3>1. q # Idle /\ q \in Requests /\ Place(j) /\ q.agent \in Agents
      BY <1>3, JobType DEF Turns, Sound, PlacesOK
    <3>2. /\ p.op = q.op /\ p.agent = q.agent /\ p.kind = q.kind
          /\ p.alias = q.alias /\ p.pc = pc
          /\ p.doc = q.doc /\ p.addr = q.addr
      BY <1>3, <3>1, PutFacts DEF Turns, Requests, Sound
    <3>3. /\ names' = names /\ retired \subseteq retired'
          /\ row[q.agent] # NoRow => row'[q.agent] # NoRow
      BY <3>1, Persists
    <3>4. keyfile' = keyfile
      BY <1>3, <3>1, NothingElseAssumption
      DEF Turns, Sound, TypeOK, Place, Requests, HasKey, OnlyJob, SpawnPcs,
          KeyedPcs, NamingPcs, WritingPcs
    <3> HIDE DEF p
    <3> QED
      BY <1>3, <3>1, <3>2, <3>3, <3>4
      DEF p, Turns, Place, HasKey, Requests, Ops, SpawnPcs, KeyedPcs,
          NamingPcs, WritingPcs, Turn, NextName
  <2>2. \A i \in Jobs \ {j} : Place(i)'
    BY <1>3, PutFacts, PlaceStays DEF FdOnly, Sound, Turns
  <2> QED BY <2>1, <2>2
<1>4. ASSUME NEW j \in Jobs, Loads(j)
      PROVE  \A i \in Jobs : Place(i)'
  <2>1. Place(j)'
    <3> DEFINE q == job[j]
               p == job'[j]
    <3>1. q # Idle /\ q \in Requests /\ Place(j) /\ q.agent \in Agents
      BY <1>4, JobType DEF Loads, Sound, PlacesOK
    <3>2. p = [q EXCEPT !.pc = "endow", !.addr = keyfile[q.agent]]
      BY <1>4, PutFacts DEF Loads, Sound
    <3>3. /\ p.op = q.op /\ p.agent = q.agent /\ p.kind = q.kind
          /\ p.alias = q.alias /\ p.pc = "endow"
          /\ p.doc = q.doc /\ p.addr = keyfile[q.agent]
      BY <3>1, <3>2 DEF Requests
    <3>4. /\ names' = names /\ retired \subseteq retired'
          /\ row[q.agent] # NoRow => row'[q.agent] # NoRow
      BY <3>1, Persists
    <3>5. keyfile' = keyfile /\ keyfile[q.agent] \in Addrs
      BY <1>4, <3>1, NothingElseAssumption
      DEF Loads, Sound, TypeOK, Place, Requests, HasKey, OnlyJob, SpawnPcs,
          KeyedPcs, NamingPcs, WritingPcs
    <3> HIDE DEF p
    <3> QED
      BY <1>4, <3>1, <3>3, <3>4, <3>5
      DEF p, Loads, Place, HasKey, Requests, Ops, SpawnPcs, KeyedPcs,
          NamingPcs, WritingPcs
  <2>2. \A i \in Jobs \ {j} : Place(i)'
    BY <1>4, PutFacts, PlaceStays DEF FdOnly, Sound, Loads
  <2> QED BY <2>1, <2>2
<1>5. ASSUME NEW j \in Jobs, NEW what \in What, NEW wanted \in Nat, Measures(j,
             what, wanted)
      PROVE  \A i \in Jobs : Place(i)'
  <2>1. Place(j)'
    <3> DEFINE q == job[j]
               p == job'[j]
    <3>1. q # Idle /\ q \in Requests /\ Place(j) /\ q.agent \in Agents
      BY <1>5, JobType DEF Measures, Sound, PlacesOK
    <3>2. p = [q EXCEPT !.pc = what,
                       !.missing = wanted - Balance(q.addr, what)]
      BY <1>5, PutFacts DEF Measures, Sound
    <3>3. /\ p.op = q.op /\ p.agent = q.agent /\ p.kind = q.kind
          /\ p.alias = q.alias /\ p.pc = what
          /\ p.doc = q.doc /\ p.addr = q.addr
      BY <3>1, <3>2 DEF Requests
    <3>4. /\ names' = names /\ retired \subseteq retired'
          /\ row[q.agent] # NoRow => row'[q.agent] # NoRow
      BY <3>1, Persists
    <3>5. keyfile' = keyfile
      BY <1>5, <3>1, NothingElseAssumption
      DEF Measures, Sound, TypeOK, Place, Requests, HasKey, OnlyJob, SpawnPcs,
          KeyedPcs, NamingPcs, WritingPcs
    <3> HIDE DEF p
    <3> QED
      BY <1>5, <3>1, <3>3, <3>4, <3>5
      DEF p, Measures, Place, HasKey, Requests, Ops, SpawnPcs, KeyedPcs,
          NamingPcs, WritingPcs, What
  <2>2. \A i \in Jobs \ {j} : Place(i)'
    BY <1>5, PutFacts, PlaceStays DEF FdOnly, Sound, Measures
  <2> QED BY <2>1, <2>2
<1>6. ASSUME NEW j \in Jobs, NEW doc \in Documents, Merges(j, doc)
      PROVE  \A i \in Jobs : Place(i)'
  <2>1. Place(j)'
    <3> DEFINE q == job[j]
               p == job'[j]
    <3>1. q # Idle /\ q \in Requests /\ Place(j) /\ q.agent \in Agents
      BY <1>6, JobType DEF Merges, Sound, PlacesOK
    <3>2. p = [q EXCEPT !.pc = "open", !.doc = doc]
      BY <1>6, PutFacts DEF Merges, Sound
    <3>3. /\ p.op = q.op /\ p.agent = q.agent /\ p.kind = q.kind
          /\ p.alias = q.alias /\ p.pc = "open"
          /\ p.doc = doc /\ p.addr = q.addr
      BY <3>1, <3>2 DEF Requests
    <3>4. /\ names' = names /\ retired \subseteq retired'
          /\ row[q.agent] # NoRow => row'[q.agent] # NoRow
      BY <3>1, Persists
    <3>5. keyfile' = keyfile /\ doc # NoDoc
      BY <1>6, <3>1, NothingElseAssumption
      DEF Merges, Sound, TypeOK, Place, Requests, HasKey, OnlyJob, SpawnPcs,
          KeyedPcs, NamingPcs, WritingPcs, Documents
    <3> HIDE DEF p
    <3> QED
      BY <1>6, <3>1, <3>3, <3>4, <3>5
      DEF p, Merges, Place, HasKey, Requests, Ops, SpawnPcs, KeyedPcs,
          NamingPcs, WritingPcs
  <2>2. \A i \in Jobs \ {j} : Place(i)'
    BY <1>6, PutFacts, PlaceStays DEF FdOnly, Sound, Merges
  <2> QED BY <2>1, <2>2
<1>7. ASSUME NEW j \in Jobs, NEW S \in SUBSET AllNames, Lists(j, S)
      PROVE  \A i \in Jobs : Place(i)'
  <2>1. Place(j)'
    <3> DEFINE q == job[j]
               p == job'[j]
    <3>1. q # Idle /\ q \in Requests /\ Place(j) /\ q.agent \in Agents
      BY <1>7, JobType DEF Lists, Sound, PlacesOK
    <3>2. p = [q EXCEPT !.pc = "clear", !.todo = S]
      BY <1>7, PutFacts DEF Lists, Sound
    <3>3. /\ p.op = q.op /\ p.agent = q.agent /\ p.kind = q.kind
          /\ p.alias = q.alias /\ p.pc = "clear"
          /\ p.doc = q.doc /\ p.addr = q.addr
      BY <3>1, <3>2 DEF Requests
    <3>4. /\ names' = names /\ retired \subseteq retired'
          /\ row[q.agent] # NoRow => row'[q.agent] # NoRow
      BY <3>1, Persists
    <3>5. keyfile' = keyfile
      BY <1>7, <3>1, NothingElseAssumption
      DEF Lists, Sound, TypeOK, Place, Requests, HasKey, OnlyJob, SpawnPcs,
          KeyedPcs, NamingPcs, WritingPcs
    <3> HIDE DEF p
    <3> QED
      BY <1>7, <3>1, <3>3, <3>4, <3>5
      DEF p, Lists, Place, HasKey, Requests, Ops, SpawnPcs, KeyedPcs,
          NamingPcs, WritingPcs
  <2>2. \A i \in Jobs \ {j} : Place(i)'
    BY <1>7, PutFacts, PlaceStays DEF FdOnly, Sound, Lists
  <2> QED BY <2>1, <2>2
<1>8. ASSUME NEW j \in Jobs, NEW x \in Addrs, Opens(j, x)
      PROVE  \A i \in Jobs : Place(i)'
  <2>1. Place(j)'
    <3> DEFINE q == job[j]
               p == job'[j]
    <3>1. q # Idle /\ q \in Requests /\ Place(j) /\ q.agent \in Agents
      BY <1>8, JobType DEF Opens, Sound, PlacesOK
    <3>2. p = [q EXCEPT !.pc = "seal", !.addr = x]
      BY <1>8, PutFacts DEF Opens, Sound
    <3>3. /\ p.op = q.op /\ p.agent = q.agent /\ p.kind = q.kind
          /\ p.alias = q.alias /\ p.pc = "seal"
          /\ p.doc = q.doc /\ p.addr = x
      BY <3>1, <3>2 DEF Requests
    <3>4. /\ names' = names /\ retired \subseteq retired'
          /\ row[q.agent] # NoRow => row'[q.agent] # NoRow
      BY <3>1, Persists
    <3>5. keyfile'[q.agent] = Empty /\ x[1] = q.agent
      BY <1>8, <3>1, NothingElseAssumption
      DEF Opens, Sound, TypeOK, Place, Requests, HasKey, OnlyJob, SpawnPcs,
          KeyedPcs, NamingPcs, WritingPcs
    <3> HIDE DEF p
    <3> QED
      BY <1>8, <3>1, <3>3, <3>4, <3>5
      DEF p, Opens, Place, HasKey, Requests, Ops, SpawnPcs, KeyedPcs,
          NamingPcs, WritingPcs
  <2>2. \A i \in Jobs \ {j} : Place(i)'
    BY <1>8, PutFacts, PlaceStays DEF FdOnly, Sound, Opens
  <2> QED BY <2>1, <2>2
<1>9. ASSUME NEW j \in Jobs, Seals(j)
      PROVE  \A i \in Jobs : Place(i)'
  <2>1. Place(j)'
    <3> DEFINE q == job[j]
               p == job'[j]
    <3>1. q # Idle /\ q \in Requests /\ Place(j) /\ q.agent \in Agents
      BY <1>9, JobType DEF Seals, Sound, PlacesOK
    <3>2. /\ p.op = q.op /\ p.agent = q.agent /\ p.kind = q.kind
          /\ p.alias = q.alias /\ p.pc = "endow"
          /\ p.doc = q.doc /\ p.addr = q.addr
      BY <1>9, <3>1, PutFacts DEF Seals, Requests, Sound
    <3>3. /\ names' = names /\ retired \subseteq retired'
          /\ row[q.agent] # NoRow => row'[q.agent] # NoRow
      BY <3>1, Persists
    <3>4. keyfile'[q.agent] = q.addr /\ q.addr \in Addrs
          /\ q.addr # NoFile
      BY <1>9, <3>1, NothingElseAssumption
      DEF Seals, Sound, TypeOK, Place, Requests, HasKey, OnlyJob, SpawnPcs,
          KeyedPcs, NamingPcs, WritingPcs
    <3> HIDE DEF p
    <3> QED
      BY <1>9, <3>1, <3>2, <3>3, <3>4
      DEF p, Seals, Place, HasKey, Requests, Ops, SpawnPcs, KeyedPcs,
          NamingPcs, WritingPcs
  <2>2. \A i \in Jobs \ {j} : Place(i)'
    BY <1>9, PutFacts, PlaceStays DEF FdOnly, Sound, Seals
  <2> QED BY <2>1, <2>2
<1>10. ASSUME NEW j \in Jobs, NEW what \in What, NEW q \in Requests \cup
              {Idle}, Pays(j, what, q)
       PROVE  \A i \in Jobs : Place(i)'
  <2>1. Place(j)'
    <3>1. CASE q = Idle
      BY <1>10, <3>1, PutFacts DEF Pays, Sound, Place
    <3>2. CASE q # Idle
      <4> DEFINE r == job[j]
                 p == job'[j]
      <4>1. r # Idle /\ r \in Requests /\ Place(j) /\ r.agent \in Agents
        BY <1>10, <3>2, JobType DEF Pays, Sound, PlacesOK
      <4>2. /\ p.op = r.op /\ p.agent = r.agent /\ p.kind = r.kind
            /\ p.alias = r.alias /\ p.pc = IF what = "gas" THEN "fund" ELSE "name"
            /\ p.doc = r.doc /\ p.addr = r.addr
        BY <1>10, <3>2, <4>1, PutFacts DEF Pays, Requests, Sound
      <4>3. /\ names' = names /\ retired \subseteq retired'
            /\ row[r.agent] # NoRow => row'[r.agent] # NoRow
        BY <4>1, Persists
      <4>4. keyfile' = keyfile
        BY <1>10, <3>2, <4>1, NothingElseAssumption
        DEF Pays, Sound, TypeOK, Place, Requests, HasKey, OnlyJob, SpawnPcs,
            KeyedPcs, NamingPcs, WritingPcs
      <4> HIDE DEF p
      <4> QED
        BY <1>10, <3>2, <4>1, <4>2, <4>3, <4>4
        DEF p, Pays, Place, HasKey, Requests, Ops, SpawnPcs, KeyedPcs,
            NamingPcs, WritingPcs, What
    <3> QED BY <3>1, <3>2
  <2>2. \A i \in Jobs \ {j} : Place(i)'
    BY <1>10, PutFacts, PlaceStays DEF FdOnly, Sound, Pays
  <2> QED BY <2>1, <2>2
<1>11. ASSUME NEW j \in Jobs, NEW n \in AllNames, NEW x \in Addrs, NEW q \in
              Requests \cup {Idle}, NamesIt(j, n, x, q)
       PROVE  \A i \in Jobs : Place(i)'
  <2>1. Place(j)'
    <3>1. CASE q = Idle
      BY <1>11, <3>1, PutFacts DEF NamesIt, Sound, Place
    <3>2. CASE q # Idle
      <4> DEFINE r == job[j]
                 p == job'[j]
      <4>1. r # Idle /\ r \in Requests /\ Place(j) /\ r.agent \in Agents
        BY <1>11, <3>2, JobType DEF NamesIt, Sound, PlacesOK
      <4>2. /\ p.op = r.op /\ p.agent = r.agent /\ p.kind = r.kind
            /\ p.alias = r.alias /\ p.pc = AfterRegistration(r)
            /\ p.doc = r.doc /\ p.addr = r.addr
        BY <1>11, <3>2, <4>1, PutFacts DEF NamesIt, Requests, Sound
      <4>3. /\ names' = names /\ retired \subseteq retired'
            /\ row[r.agent] # NoRow => row'[r.agent] # NoRow
        BY <4>1, Persists
      <4>4. keyfile' = keyfile
        BY <1>11, <3>2, <4>1, NothingElseAssumption
        DEF NamesIt, Sound, TypeOK, Place, Requests, HasKey, OnlyJob, SpawnPcs,
            KeyedPcs, NamingPcs, WritingPcs
      <4> HIDE DEF p
      <4> QED
        BY <1>11, <3>2, <4>1, <4>2, <4>3, <4>4
        DEF p, NamesIt, Place, HasKey, Requests, Ops, SpawnPcs, KeyedPcs,
            NamingPcs, WritingPcs, Registering, AfterRegistration, NextName
    <3> QED BY <3>1, <3>2
  <2>2. \A i \in Jobs \ {j} : Place(i)'
    BY <1>11, PutFacts, PlaceStays DEF FdOnly, Sound, NamesIt
  <2> QED BY <2>1, <2>2
<1>12. ASSUME NEW j \in Jobs, Marks(j)
       PROVE  \A i \in Jobs : Place(i)'
  <2>1. Place(j)'
    <3>1. job'[j] = Idle
      BY <1>12, PutFacts DEF Marks, Sound
    <3> QED BY <3>1 DEF Place
  <2>2. \A i \in Jobs \ {j} : Place(i)'
    BY <1>12, PutFacts, PlaceStays DEF FdOnly, Sound, Marks
  <2> QED BY <2>1, <2>2
<1>13. ASSUME NEW j \in Jobs, WritesFile(j)
       PROVE  \A i \in Jobs : Place(i)'
  <2>1. Place(j)'
    <3> DEFINE q == job[j]
               p == job'[j]
    <3>1. q # Idle /\ q \in Requests /\ Place(j) /\ q.agent \in Agents
      BY <1>13, JobType DEF WritesFile, Sound, PlacesOK
    <3>2. CASE p = Idle
      BY <3>2 DEF Place
    <3>3. CASE p # Idle
      <4> DEFINE Same ==
                   /\ p.op = q.op /\ p.agent = q.agent /\ p.kind = q.kind
                   /\ p.alias = q.alias /\ p.doc = q.doc /\ p.addr = q.addr
      <4>a. \/ q.pc = "open" /\ p = [q EXCEPT !.pc = "write", !.fd = "temp"]
            \/ q.pc = "write" /\ p = [q EXCEPT !.pc = "rename", !.fd = "none"]
            \/ /\ q.pc = "rename" /\ p = [q EXCEPT !.pc = "token"]
               /\ q.op = "spawn"
        BY <1>13, <3>3 DEF WritesFile
      <4>1. /\ Same
            /\ \/ q.pc = "open" /\ p.pc = "write"
               \/ q.pc = "write" /\ p.pc = "rename"
               \/ q.pc = "rename" /\ p.pc = "token" /\ q.op = "spawn"
        <5> HIDE DEF p, q
        <5> QED BY <4>a, <3>1 DEF Requests
      <4>2. names' = names /\ retired' = retired /\ row' = row
            /\ keyfile' = keyfile
        BY <1>13 DEF WritesFile
      <4> HIDE DEF p
      <4> QED
        BY <3>1, <3>3, <4>1, <4>2
        DEF Place, HasKey, Requests, Ops, p, SpawnPcs, KeyedPcs, NamingPcs,
            WritingPcs
    <3> QED BY <3>2, <3>3
  <2>2. \A i \in Jobs \ {j} : Place(i)'
    BY <1>13, PlaceStays DEF WritesFile
  <2> QED BY <2>1, <2>2
<1>14. ASSUME NEW j \in Jobs, NEW n \in AllNames, NEW q \in Requests \cup
              {Idle}, Unnames(j, n, q)
       PROVE  \A i \in Jobs : Place(i)'
  <2>1. Place(j)'
    <3>1. CASE q = Idle
      BY <1>14, <3>1, PutFacts DEF Unnames, Sound, Place
    <3>2. CASE q # Idle
      <4> DEFINE r == job[j]
                 p == job'[j]
      <4>1. r # Idle /\ r \in Requests /\ Place(j) /\ r.agent \in Agents
        BY <1>14, <3>2, JobType DEF Unnames, Sound, PlacesOK
      <4>2. /\ p.op = r.op /\ p.agent = r.agent /\ p.kind = r.kind
            /\ p.alias = r.alias /\ p.pc = r.pc
            /\ p.doc = r.doc /\ p.addr = r.addr
        BY <1>14, <3>2, <4>1, PutFacts DEF Unnames, Requests, Sound
      <4>3. /\ names' = names /\ retired \subseteq retired'
            /\ row[r.agent] # NoRow => row'[r.agent] # NoRow
        BY <4>1, Persists
      <4>4. keyfile' = keyfile
        BY <1>14, <3>2, <4>1, NothingElseAssumption
        DEF Unnames, Sound, TypeOK, Place, Requests, HasKey, OnlyJob, SpawnPcs,
            KeyedPcs, NamingPcs, WritingPcs
      <4> HIDE DEF p
      <4> QED
        BY <1>14, <3>2, <4>1, <4>2, <4>3, <4>4
        DEF p, Unnames, Place, HasKey, Requests, Ops, SpawnPcs, KeyedPcs,
            NamingPcs, WritingPcs
    <3> QED BY <3>1, <3>2
  <2>2. \A i \in Jobs \ {j} : Place(i)'
    BY <1>14, PutFacts, PlaceStays DEF FdOnly, Sound, Unnames
  <2> QED BY <2>1, <2>2
<1>15. ASSUME NEW j \in Jobs, Retires(j)
       PROVE  \A i \in Jobs : Place(i)'
  <2>1. Place(j)'
    <3>1. job'[j] = Idle
      BY <1>15, PutFacts DEF Retires, Sound
    <3> QED BY <3>1 DEF Place
  <2>2. \A i \in Jobs \ {j} : Place(i)'
    BY <1>15, PutFacts, PlaceStays DEF FdOnly, Sound, Retires
  <2> QED BY <2>1, <2>2
<1>16. ASSUME NEW a \in Agents, Rotates(a)
       PROVE  \A i \in Jobs : Place(i)'
  BY <1>16, PlaceStays DEF FdOnly, Rotates
<1>17. ASSUME NEW a \in Agents, NEW b \in Agents, NEW n \in AllNames,
              MovesName(a, n, b)
       PROVE  \A i \in Jobs : Place(i)'
  BY <1>17, PlaceStays DEF FdOnly, MovesName
<1>18. CASE Dies
  BY <1>18 DEF Dies, Place
<1>19. CASE UNCHANGED vars
  BY <1>19, PlaceStays DEF FdOnly, vars
<1>20. ASSUME NEW tx \in Transactions, Comes(tx)
       PROVE  \A i \in Jobs : Place(i)'
  BY <1>20, PlaceStays DEF FdOnly, Comes
<1> QED
  BY <1>1, <1>2, <1>3, <1>4, <1>5, <1>6, <1>7, <1>8, <1>9, <1>10, <1>11,
     <1>12, <1>13, <1>14, <1>15, <1>16, <1>17, <1>18, <1>19, <1>20 DEF AKind


LEMMA SealingStep ==
  ASSUME Sound, AKind
  PROVE  \A i \in Jobs : Sealing(i)' =>
           \/ Sealing(i) /\ job'[i].agent = job[i].agent
           \/ \E y \in Addrs : Opens(i, y)
<1> DEFINE Was(i) == Sealing(i) /\ job'[i].agent = job[i].agent
           Goal == \A i \in Jobs : Sealing(i)' =>
                     Was(i) \/ \E y \in Addrs : Opens(i, y)
<1>1. ASSUME NEW j \in Jobs, NEW ask \in Asks, NEW doc \in {NoDoc} \cup
             Documents, NEW pc \in Pcs, Starts(j, ask, doc, pc)
      PROVE  Goal
  <2>1. ~Sealing(j)'
    BY <1>1, PutFacts, AskType DEF Starts, NewJob, Sealing, Sound
  <2> QED BY <1>1, <2>1, PutFacts DEF Sealing, Sound, Starts
<1>2. ASSUME NEW j \in Jobs, Ends(j)
      PROVE  Goal
  <2>1. ~Sealing(j)'
    BY <1>2, PutFacts DEF Ends, Sealing, Sound
  <2> QED BY <1>2, <2>1, PutFacts DEF Sealing, Sound, Ends
<1>3. ASSUME NEW j \in Jobs, NEW pc \in Pcs, Turns(j, pc)
      PROVE  Goal
  <2>1. ~Sealing(j)'
    BY <1>3, TurnsTo DEF Turns, Sealing, Changes, Sound, Turn, NextName
  <2> QED BY <1>3, <2>1, PutFacts DEF Sealing, Sound, Turns
<1>4. ASSUME NEW j \in Jobs, Loads(j)
      PROVE  Goal
  <2>1. ~Sealing(j)'
    BY <1>4, LoadsTo DEF Sealing, Changes
  <2> QED BY <1>4, <2>1, PutFacts DEF Sealing, Sound, Loads
<1>5. ASSUME NEW j \in Jobs, NEW what \in What, NEW wanted \in Nat, Measures(j,
             what, wanted)
      PROVE  Goal
  <2>1. ~Sealing(j)'
    BY <1>5, MeasuresTo DEF Measures, Sealing, Changes, Sound, What
  <2> QED BY <1>5, <2>1, PutFacts DEF Sealing, Sound, Measures
<1>6. ASSUME NEW j \in Jobs, NEW doc \in Documents, Merges(j, doc)
      PROVE  Goal
  <2>1. ~Sealing(j)'
    BY <1>6, MergesTo DEF Sealing, Changes
  <2> QED BY <1>6, <2>1, PutFacts DEF Sealing, Sound, Merges
<1>7. ASSUME NEW j \in Jobs, NEW S \in SUBSET AllNames, Lists(j, S)
      PROVE  Goal
  <2>1. ~Sealing(j)'
    BY <1>7, ListsTo DEF Sealing, Changes
  <2> QED BY <1>7, <2>1, PutFacts DEF Sealing, Sound, Lists
<1>8. ASSUME NEW j \in Jobs, NEW x \in Addrs, Opens(j, x)
      PROVE  Goal
  <2>1. \A i \in Jobs \ {j} : job'[i] = job[i]
    BY <1>8, PutFacts DEF Sound, Opens
  <2> QED BY <1>8, <2>1 DEF Sealing
<1>9. ASSUME NEW j \in Jobs, Seals(j)
      PROVE  Goal
  <2>1. ~Sealing(j)'
    BY <1>9, SealsTo DEF Seals, Sealing, Changes, Sound
  <2> QED BY <1>9, <2>1, PutFacts DEF Sealing, Sound, Seals
<1>10. ASSUME NEW j \in Jobs, NEW what \in What, NEW q \in Requests \cup
              {Idle}, Pays(j, what, q)
       PROVE  Goal
  <2>1. ~Sealing(j)'
    BY <1>10, PaysTo, PutFacts DEF Pays, Sealing, Changes, Sound
  <2> QED BY <1>10, <2>1, PutFacts DEF Sealing, Sound, Pays
<1>11. ASSUME NEW j \in Jobs, NEW n \in AllNames, NEW x \in Addrs, NEW q \in
              Requests \cup {Idle}, NamesIt(j, n, x, q)
       PROVE  Goal
  <2>1. ~Sealing(j)'
    BY <1>11, NamesTo, PutFacts
    DEF NamesIt, Sealing, Changes, Sound, Registering,
       AfterRegistration, NextName
  <2> QED BY <1>11, <2>1, PutFacts DEF Sealing, Sound, NamesIt
<1>12. ASSUME NEW j \in Jobs, Marks(j)
       PROVE  Goal
  <2>1. ~Sealing(j)'
    BY <1>12, PutFacts DEF Marks, Sealing, Sound
  <2> QED BY <1>12, <2>1, PutFacts DEF Sealing, Sound, Marks
<1>13. ASSUME NEW j \in Jobs, WritesFile(j)
       PROVE  Goal
  <2>1. ~Sealing(j)'
    <3>1. job[j] # Idle /\ job[j] \in Requests
      BY <1>13, JobType DEF WritesFile, Sound
    <3> QED BY <1>13, <3>1 DEF WritesFile, Sealing, Requests
  <2>2. \A i \in Jobs \ {j} : FdOnly(i)
    BY <1>13 DEF WritesFile
  <2>3. \A i \in Jobs \ {j} : Sealing(i)' => Sealing(i) /\ job'[i].agent = job[i].agent
    BY <2>2, JobType DEF FdOnly, Sealing, Sound, Requests
  <2> QED BY <2>1, <2>3
<1>14. ASSUME NEW j \in Jobs, NEW n \in AllNames, NEW q \in Requests \cup
              {Idle}, Unnames(j, n, q)
       PROVE  Goal
  <2>1. ~Sealing(j)'
    BY <1>14, UnnamesTo, PutFacts DEF Unnames, Sealing, Changes, Sound
  <2> QED BY <1>14, <2>1, PutFacts DEF Sealing, Sound, Unnames
<1>15. ASSUME NEW j \in Jobs, Retires(j)
       PROVE  Goal
  <2>1. ~Sealing(j)'
    BY <1>15, PutFacts DEF Retires, Sealing, Sound
  <2> QED BY <1>15, <2>1, PutFacts DEF Sealing, Sound, Retires
<1>16. ASSUME NEW a \in Agents, Rotates(a)
       PROVE  Goal
  BY <1>16 DEF Rotates, Sealing
<1>17. ASSUME NEW a \in Agents, NEW b \in Agents, NEW n \in AllNames,
              MovesName(a, n, b)
       PROVE  Goal
  BY <1>17 DEF MovesName, Sealing
<1>18. CASE Dies
  BY <1>18 DEF Dies, Sealing
<1>19. CASE UNCHANGED vars
  BY <1>19 DEF vars, Sealing
<1>20. ASSUME NEW tx \in Transactions, Comes(tx)
       PROVE  Goal
  BY <1>20 DEF Comes, Sealing
<1> QED
  BY <1>1, <1>2, <1>3, <1>4, <1>5, <1>6, <1>7, <1>8, <1>9, <1>10, <1>11,
     <1>12, <1>13, <1>14, <1>15, <1>16, <1>17, <1>18, <1>19, <1>20 DEF AKind

(* Who has a place past the key has the key's address.                     *)
LEMMA AddrOfJob ==
  ASSUME Sound, NEW j \in Jobs, job[j] # Idle,
         job[j].pc \in KeyedPcs \ WritingPcs
  PROVE  /\ job[j].op = "spawn" /\ job[j].agent \in Agents
         /\ job[j].addr \in Addrs /\ keyfile[job[j].agent] = job[j].addr
         /\ job[j].addr[1] = job[j].agent
<1>1. job[j] \in Requests /\ Place(j) /\ job[j].agent \in Agents
  BY JobType DEF Sound, PlacesOK
<1>2. job[j].op = "spawn"
  BY <1>1 DEF Place, Requests, Ops, KeyedPcs, NamingPcs, WritingPcs
<1>3. HasKey(job[j])
  BY <1>2 DEF HasKey
<1>4. job[j].addr \in Addrs /\ keyfile[job[j].agent] = job[j].addr
  BY <1>1, <1>3 DEF Place
<1> QED BY <1>1, <1>2, <1>4 DEF Sound, KeysOK

LEMMA AddrOfRow ==
  ASSUME Sound, NEW a \in Agents, row[a] # NoRow
  PROVE  row[a].addr \in Addrs /\ keyfile[a] = row[a].addr /\ row[a].addr[1] = a
         /\ row[a].kind \in Kinds /\ row[a].fund \in Nat
BY DEF Sound, TypeOK, KeysOK, Rows

LEMMA AddrRegistered ==
  ASSUME Sound, NEW j \in Jobs, job[j] # Idle, NEW n, NEW x,
         Registering(job[j], n, x)
  PROVE  /\ x \in Addrs /\ job[j].agent \in Agents
         /\ x[1] = job[j].agent /\ keyfile[job[j].agent] = x
<1>1. job[j] \in Requests /\ Place(j) /\ job[j].agent \in Agents
  BY JobType DEF Sound, PlacesOK
<1>2. CASE job[j].pc \in {"register", "registerAlias"}
  BY <1>2, AddrOfJob DEF Registering, KeyedPcs, NamingPcs, WritingPcs
<1>3. CASE job[j].pc = "add"
  <2>1. row[job[j].agent] # NoRow /\ x = row[job[j].agent].addr
    BY <1>1, <1>3
    DEF Registering, Place, Requests, Ops, SpawnPcs, KeyedPcs, NamingPcs,
        WritingPcs
  <2> QED BY <1>1, <2>1, AddrOfRow
<1> QED BY <1>2, <1>3 DEF Registering

(* What a request sends goes to an address whose key is kept.              *)
LEMMA OutgoingKey ==
  ASSUME Sound, NEW j \in Jobs, NEW tx \in Outgoing(j), tx.what # "clear"
  PROVE  /\ tx.to \in Addrs /\ keyfile[tx.to[1]] = tx.to
         /\ tx.to[1] = job[j].agent /\ job[j].agent \in Agents
<1>1. job[j] # Idle
  BY OutgoingType DEF Sound
<1>2. CASE \E n : Registering(job[j], n, tx.to)
  BY <1>1, <1>2, AddrRegistered
<1>3. CASE job[j].pc \in {"gas", "play"} /\ tx.to = job[j].addr
  BY <1>1, <1>3, AddrOfJob DEF KeyedPcs, NamingPcs, WritingPcs
<1> QED BY <1>1, <1>2, <1>3
        DEF Outgoing, Payment, Registration, Clearing, Registering

(* Money comes by a landing, to an address whose key is kept.              *)
LEMMA WhoPays ==
  ASSUME Sound, NamesOK, AKind, held' # held
  PROVE  \E x \in Addrs, what \in What, n \in Nat :
           /\ held' = Given(x, what, n)
           /\ keyfile[x[1]] = x /\ keyfile' = keyfile
<1>1. ASSUME NEW j \in Jobs, NEW what \in What, NEW q, Pays(j, what, q)
      PROVE  /\ job[j].addr \in Addrs /\ job[j].missing \in Nat
             /\ held' = Given(job[j].addr, what, job[j].missing)
             /\ keyfile[job[j].addr[1]] = job[j].addr /\ keyfile' = keyfile
  <2>1. job[j] # Idle /\ job[j].pc \in {"gas", "play"}
    BY <1>1 DEF Pays, What
  <2>2. /\ job[j].addr \in Addrs /\ keyfile[job[j].agent] = job[j].addr
        /\ job[j].addr[1] = job[j].agent
    BY <2>1, AddrOfJob DEF KeyedPcs, NamingPcs, WritingPcs
  <2> QED BY <1>1, <2>1, <2>2, JobType DEF Pays, Sound
<1>2. ASSUME NEW tx, Comes(tx)
      PROVE  /\ tx.to \in Addrs /\ tx.amount \in Nat /\ tx.what \in What
             /\ held' = Given(tx.to, tx.what, tx.amount)
             /\ keyfile[tx.to[1]] = tx.to /\ keyfile' = keyfile
  BY <1>2, ComesAs DEF Comes
<1>3. \/ \E j \in Jobs, what \in What, q \in Requests \cup {Idle} :
           Pays(j, what, q)
      \/ \E tx \in Transactions : Comes(tx)
  BY StepGrows DEF Grows
<1> QED BY <1>1, <1>2, <1>3

LEMMA KeysStep ==
  ASSUME Sound, NamesOK, AKind
  PROVE  KeysOK'
<1> USE DEF Sound
<1>1. TypeOK' /\ PlacesOK' /\ Grows
  BY TypeStep, PlacesStep, StepGrows
<1>2. \A x \in Addrs : x[1] \in Agents
  BY DEF Addrs
<1>3. \A a \in Agents : keyfile[a] \in Addrs => keyfile'[a] = keyfile[a]
  BY KeyfilePersists
<1>4. \A a \in Agents : keyfile'[a] \in Addrs => keyfile'[a][1] = a
  <2>1. CASE keyfile' = keyfile
    BY <2>1 DEF KeysOK
  <2>2. ASSUME NEW j \in Jobs, NEW x \in Addrs, Opens(j, x)
        PROVE  \A a \in Agents : keyfile'[a] \in Addrs => keyfile'[a][1] = a
    BY <2>2, NothingElseAssumption DEF Opens, TypeOK, KeysOK
  <2>3. ASSUME NEW j \in Jobs, Seals(j)
        PROVE  \A a \in Agents : keyfile'[a] \in Addrs => keyfile'[a][1] = a
    BY <2>3 DEF Seals, TypeOK, KeysOK, PlacesOK, Place
  <2> QED BY <2>1, <2>2, <2>3, KeyfileStep
<1>5. ASSUME NEW i \in Jobs, NEW k \in Jobs, i # k, Sealing(i)', Sealing(k)'
      PROVE  job'[i].agent # job'[k].agent
  <2>1. ASSUME NEW m \in Jobs, NEW l \in Jobs, m # l, NEW y \in Addrs,
               Opens(m, y), Sealing(l)'
        PROVE  job'[m].agent # job'[l].agent
    <3>1. job'[m].agent = job[m].agent
      BY <2>1, OpensTo DEF Changes
    <3>2. job'[l] = job[l]
      BY <2>1, PutFacts DEF Opens
    <3>3. keyfile[job[m].agent] = NoFile
      BY <2>1 DEF Opens
    <3>4. keyfile[job[l].agent] = Empty
      BY <2>1, <3>2 DEF Sealing, PlacesOK, Place
    <3> QED BY <3>1, <3>2, <3>3, <3>4, NothingElseAssumption DEF Unreadable
  <2> QED BY <1>5, <2>1, SealingStep DEF KeysOK
<1>6. ASSUME NEW a \in Agents, row'[a] # NoRow
      PROVE  keyfile'[a] = row'[a].addr
  <2>1. CASE row' = row
    BY <1>3, <1>6, <2>1, AddrOfRow
  <2>2. ASSUME NEW j \in Jobs, Marks(j)
        PROVE  keyfile'[a] = row'[a].addr
    <3>1. keyfile' = keyfile
      BY <2>2 DEF Marks
    <3>2. keyfile[job[j].agent] = job[j].addr
      BY <2>2, AddrOfJob DEF Marks, KeyedPcs, NamingPcs, WritingPcs
    <3> QED BY <1>6, <2>2, <3>1, <3>2 DEF Marks, TypeOK, KeysOK
  <2> QED BY <1>1, <2>1, <2>2 DEF Grows
<1>7. MoneyHasKey'
  <2>1. \A x \in DOMAIN held : keyfile'[x[1]] = x
    BY <1>2, <1>3 DEF KeysOK, MoneyHasKey, TypeOK
  <2>2. ASSUME held' # held
        PROVE  \A x \in DOMAIN held' : keyfile'[x[1]] = x
    <3>1. PICK x \in Addrs, what \in What, n \in Nat :
            /\ held' = Given(x, what, n)
            /\ keyfile[x[1]] = x /\ keyfile' = keyfile
      BY <2>2, WhoPays
    <3>2. DOMAIN held' = DOMAIN held \cup {x}
      BY <3>1 DEF Given, With
    <3> QED BY <2>1, <3>1, <3>2
  <2> QED BY <2>1, <2>2 DEF MoneyHasKey
<1>8. \A x \in DOMAIN reg'.back : keyfile'[x[1]] = x
  <2>1. \A x \in DOMAIN reg.back : keyfile'[x[1]] = x
    BY <1>2, <1>3 DEF KeysOK, TypeOK, RegistryOK
  <2>2. ASSUME NEW j \in Jobs, NEW n \in AllNames, NEW y \in Addrs, NEW q,
               NamesIt(j, n, y, q)
        PROVE  \A x \in DOMAIN reg'.back : keyfile'[x[1]] = x
    <3>1. DOMAIN reg'.back = DOMAIN reg.back \cup {y}
      BY <2>2, AfterRegister DEF NamesIt, Taken, TypeOK
    <3>2. keyfile[y[1]] = y /\ keyfile' = keyfile
      BY <2>2, AddrRegistered DEF NamesIt
    <3> QED BY <2>1, <3>1, <3>2
  <2>3. ASSUME NEW j \in Jobs, NEW n \in AllNames, NEW q, Unnames(j, n, q)
        PROVE  DOMAIN reg'.back \subseteq DOMAIN reg.back
    BY <2>3, AfterSetTarget DEF Unnames, TypeOK, NamesOK, NameAt
  <2>4. ASSUME NEW a \in Agents, NEW b \in Agents, NEW n \in AllNames,
               MovesName(a, n, b)
        PROVE  DOMAIN reg'.back \subseteq DOMAIN reg.back
    <3>1. row[b].addr \in Addrs
      BY <2>4, AddrOfRow DEF MovesName
    <3> QED BY <2>4, <3>1, AfterSetTarget, AfterTransfer DEF MovesName, TypeOK
  <2>5. ASSUME NEW tx, Comes(tx), reg' # reg
        PROVE  \A x \in DOMAIN reg'.back : keyfile'[x[1]] = x
    <3>1. CASE MayName(tx.name, tx.to) /\ Registered(tx.name, tx.to)
      <4>1. DOMAIN reg'.back = DOMAIN reg.back \cup {tx.to}
        BY <3>1, AfterRegister DEF MayName, Registered, Taken, TypeOK
      <4>2. keyfile[tx.to[1]] = tx.to /\ keyfile' = keyfile
        BY <3>1 DEF MayName, Registered
      <4> QED BY <2>1, <4>1, <4>2
    <3>2. CASE MayClear(tx.name) /\ Cleared(tx.name)
      <4>1. DOMAIN reg'.back \subseteq DOMAIN reg.back
        BY <3>2, AfterSetTarget DEF MayClear, Cleared, TypeOK
      <4> QED BY <2>1, <4>1
    <3> QED BY <2>5, <3>1, <3>2, ComesAs
  <2> QED BY <1>1, <2>1, <2>2, <2>3, <2>4, <2>5 DEF Grows
<1>9. ASSUME NEW tx \in wire', tx.what # "clear"
      PROVE  tx.to \in Addrs /\ keyfile'[tx.to[1]] = tx.to
  <2>1. tx \in wire \/ \E j \in Jobs : tx \in Outgoing(j)
    BY <1>9, WireStep DEF WireGrows
  <2>2. tx.to \in Addrs /\ keyfile[tx.to[1]] = tx.to
    BY <1>9, <2>1, OutgoingKey DEF KeysOK
  <2> QED BY <1>2, <1>3, <2>2
<1> QED BY <1>4, <1>5, <1>6, <1>7, <1>8, <1>9 DEF KeysOK


-----------------------------------------------------------------------------
(* What happens to one request in a step: nothing, its end, or one of the  *)
(* steps of its own.                                                       *)
Acts1(i) ==
  \/ \E pc \in Pcs : Turns(i, pc)
  \/ Loads(i)
  \/ \E what \in What, wanted \in Nat : Measures(i, what, wanted)
  \/ \E doc \in Documents : Merges(i, doc)
  \/ \E S \in SUBSET AllNames : Lists(i, S)
  \/ \E x \in Addrs : Opens(i, x)
  \/ Seals(i)

Acts2(i) ==
  \/ \E what \in What, q \in Requests : Pays(i, what, q)
  \/ \E n \in AllNames, x \in Addrs, q \in Requests : NamesIt(i, n, x, q)
  \/ \E n \in AllNames, q \in Requests : Unnames(i, n, q)
  \/ WritesFile(i)

Acts(i) ==
  \/ \E ask \in Asks, doc \in {NoDoc} \cup Documents, pc \in Pcs :
       Starts(i, ask, doc, pc)
  \/ Acts1(i)
  \/ Acts2(i)

Beside(i) ==
  \/ job'[i] = job[i]
  \/ FdOnly(i) /\ \E j \in Jobs \ {i} :
       WritesFile(j) /\ job[j].agent = job[i].agent

LEMMA WhoActsExactly ==
  ASSUME Sound, AKind
  PROVE  \A i \in Jobs : Beside(i) \/ job'[i] = Idle \/ Acts(i)
<1> DEFINE Goal == \A i \in Jobs : Beside(i) \/ job'[i] = Idle \/ Acts(i)
<1>1. ASSUME NEW j \in Jobs, NEW ask \in Asks, NEW doc \in {NoDoc} \cup
             Documents, NEW pc \in Pcs, Starts(j, ask, doc, pc)
      PROVE  Goal
  <2>1. Acts(j)
    BY <1>1 DEF Acts, Acts1, Acts2
  <2> QED BY <1>1, <2>1, PutFacts DEF Starts, Sound, Beside
<1>2. ASSUME NEW j \in Jobs, Ends(j)
      PROVE  Goal
  BY <1>2, PutFacts DEF Ends, Sound, Beside
<1>3. ASSUME NEW j \in Jobs, NEW pc \in Pcs, Turns(j, pc)
      PROVE  Goal
  <2>1. Acts(j)
    BY <1>3 DEF Acts, Acts1, Acts2
  <2> QED BY <1>3, <2>1, PutFacts DEF Turns, Sound, Beside
<1>4. ASSUME NEW j \in Jobs, Loads(j)
      PROVE  Goal
  <2>1. Acts(j)
    BY <1>4 DEF Acts, Acts1, Acts2
  <2> QED BY <1>4, <2>1, PutFacts DEF Loads, Sound, Beside
<1>5. ASSUME NEW j \in Jobs, NEW what \in What, NEW wanted \in Nat, Measures(j,
             what, wanted)
      PROVE  Goal
  <2>1. Acts(j)
    BY <1>5 DEF Acts, Acts1, Acts2
  <2> QED BY <1>5, <2>1, PutFacts DEF Measures, Sound, Beside
<1>6. ASSUME NEW j \in Jobs, NEW doc \in Documents, Merges(j, doc)
      PROVE  Goal
  <2>1. Acts(j)
    BY <1>6 DEF Acts, Acts1, Acts2
  <2> QED BY <1>6, <2>1, PutFacts DEF Merges, Sound, Beside
<1>7. ASSUME NEW j \in Jobs, NEW S \in SUBSET AllNames, Lists(j, S)
      PROVE  Goal
  <2>1. Acts(j)
    BY <1>7 DEF Acts, Acts1, Acts2
  <2> QED BY <1>7, <2>1, PutFacts DEF Lists, Sound, Beside
<1>8. ASSUME NEW j \in Jobs, NEW x \in Addrs, Opens(j, x)
      PROVE  Goal
  <2>1. Acts(j)
    BY <1>8 DEF Acts, Acts1, Acts2
  <2> QED BY <1>8, <2>1, PutFacts DEF Opens, Sound, Beside
<1>9. ASSUME NEW j \in Jobs, Seals(j)
      PROVE  Goal
  <2>1. Acts(j)
    BY <1>9 DEF Acts, Acts1, Acts2
  <2> QED BY <1>9, <2>1, PutFacts DEF Seals, Sound, Beside
<1>10. ASSUME NEW j \in Jobs, NEW what \in What, NEW q \in Requests \cup
              {Idle}, Pays(j, what, q)
       PROVE  Goal
  <2>1. q = Idle \/ Acts(j)
    BY <1>10 DEF Acts, Acts2
  <2> QED BY <1>10, <2>1, PutFacts DEF Pays, Sound, Beside
<1>11. ASSUME NEW j \in Jobs, NEW n \in AllNames, NEW x \in Addrs, NEW q \in
              Requests \cup {Idle}, NamesIt(j, n, x, q)
       PROVE  Goal
  <2>1. q = Idle \/ Acts(j)
    BY <1>11 DEF Acts, Acts2
  <2> QED BY <1>11, <2>1, PutFacts DEF NamesIt, Sound, Beside
<1>12. ASSUME NEW j \in Jobs, Marks(j)
       PROVE  Goal
  BY <1>12, PutFacts DEF Marks, Sound, Beside
<1>13. ASSUME NEW j \in Jobs, WritesFile(j)
       PROVE  Goal
  <2>1. Acts(j)
    BY <1>13 DEF Acts, Acts2
  <2>2. \A i \in Jobs \ {j} :
          FdOnly(i) /\ (job[i].agent = job[j].agent \/ job'[i] = job[i])
    BY <1>13 DEF WritesFile
  <2> QED BY <1>13, <2>1, <2>2 DEF Beside
<1>14. ASSUME NEW j \in Jobs, NEW n \in AllNames, NEW q \in Requests \cup
              {Idle}, Unnames(j, n, q)
       PROVE  Goal
  <2>1. q = Idle \/ Acts(j)
    BY <1>14 DEF Acts, Acts2
  <2> QED BY <1>14, <2>1, PutFacts DEF Unnames, Sound, Beside
<1>15. ASSUME NEW j \in Jobs, Retires(j)
       PROVE  Goal
  BY <1>15, PutFacts DEF Retires, Sound, Beside
<1>16. ASSUME NEW a \in Agents, Rotates(a)
       PROVE  Goal
  BY <1>16 DEF Rotates, Beside
<1>17. ASSUME NEW a \in Agents, NEW b \in Agents, NEW n \in AllNames,
              MovesName(a, n, b)
       PROVE  Goal
  BY <1>17 DEF MovesName, Beside
<1>18. CASE Dies
  BY <1>18 DEF Dies
<1>19. CASE UNCHANGED vars
  BY <1>19 DEF vars, Beside
<1>20. ASSUME NEW tx \in Transactions, Comes(tx)
       PROVE  Goal
  BY <1>20 DEF Comes, Beside
<1> QED
  BY <1>1, <1>2, <1>3, <1>4, <1>5, <1>6, <1>7, <1>8, <1>9, <1>10, <1>11,
     <1>12, <1>13, <1>14, <1>15, <1>16, <1>17, <1>18, <1>19, <1>20 DEF AKind

LEMMA WhoActs ==
  ASSUME Sound, AKind
  PROVE  \A i \in Jobs : FdOnly(i) \/ job'[i] = Idle \/ Acts(i)
BY WhoActsExactly DEF Beside, FdOnly

SameRequest(i) ==
  LET q == job[i]
      p == job'[i] IN
  /\ q # Idle /\ p # Idle
  /\ p.op = q.op /\ p.agent = q.agent /\ p.kind = q.kind /\ p.fund = q.fund
  /\ p.alias = q.alias /\ (q.op # "patch" => p.doc = q.doc)

(* A request in hand has just come, or is the one it was.                  *)
LEMMA RequestsStay ==
  ASSUME Sound, AKind, NEW i \in Jobs, job'[i] # Idle
  PROVE  \/ SameRequest(i)
         \/ \E ask \in Asks, doc \in {NoDoc} \cup Documents, pc \in Pcs :
              Starts(i, ask, doc, pc)
<1>1. CASE FdOnly(i)
  BY <1>1, JobType DEF FdOnly, SameRequest, Sound, Requests
<1>2. CASE Acts1(i)
  <2>1. ASSUME NEW doc \in Documents, Merges(i, doc)
        PROVE  SameRequest(i)
    <3>1. Changes(i, "open", doc, job[i].addr, job[i].missing, job[i].todo)
      BY <2>1, MergesTo
    <3>2. Place(i) /\ job[i].pc = "read"
      BY <2>1 DEF Sound, PlacesOK, Merges
    <3>3. job[i].op = "patch"
      BY <3>1, <3>2
      DEF Changes, Place, Requests, Ops, SpawnPcs, KeyedPcs, NamingPcs,
          WritingPcs
    <3> QED BY <3>1, <3>3 DEF Changes, SameRequest
  <2> QED BY <1>2, <2>1, TurnsTo, LoadsTo, MeasuresTo, ListsTo, OpensTo,
      SealsTo
          DEF Acts1, Changes, SameRequest
<1>3. CASE Acts2(i)
  <2>1. CASE WritesFile(i)
    <3>1. job[i] # Idle /\ job[i] \in Requests
      BY <2>1, JobType DEF WritesFile, Sound
    <3>2. job'[i] \in {[job[i] EXCEPT !.pc = "write", !.fd = "temp"],
                       [job[i] EXCEPT !.pc = "rename", !.fd = "none"],
                       [job[i] EXCEPT !.pc = "token"]}
      BY <2>1 DEF WritesFile
    <3> QED BY <3>1, <3>2 DEF SameRequest, Requests
  <2>2. \A q \in Requests : q # Idle
    BY NothingElseAssumption
  <2> QED BY <1>3, <2>1, <2>2, PaysTo, NamesTo, UnnamesTo
          DEF Acts2, Changes, SameRequest
<1> QED BY <1>1, <1>2, <1>3, WhoActs DEF Acts


-----------------------------------------------------------------------------
(* Money only comes; and whose it is, only its agent's spawns send.        *)

LEMMA BalIsNat ==
  ASSUME Sound
  PROVE  \A x, what : what \in What => Bal(held, x, what) \in Nat
BY DEF Sound, TypeOK, Bal

LEMMA GivenAdds ==
  ASSUME Sound, NEW y, NEW what \in What, NEW n, NEW x, NEW w \in What
  PROVE  Bal(Given(y, what, n), x, w) = Bal(held, x, w)
           + (IF x = y /\ w = what THEN n ELSE 0)
<1> DEFINE g == [v \in {"gas", "play"} |->
                  Balance(y, v) + IF v = what THEN n ELSE 0]
           h == Given(y, what, n)
<1>1. h = With(held, y, g)
  BY DEF Given
<1>2. g[w] = Bal(held, y, w) + IF w = what THEN n ELSE 0
  BY DEF What, Balance, Bal
<1> HIDE DEF g, h
<1>3. /\ DOMAIN h = DOMAIN held \cup {y} /\ h[y] = g
      /\ \A z \in DOMAIN held \ {y} : h[z] = held[z]
  BY <1>1 DEF With
<1>4. Bal(held, x, w) \in Nat
  BY BalIsNat
<1>5. CASE x = y
  BY <1>2, <1>3, <1>5 DEF Bal, h
<1>6. CASE x # y
  <2>1. Bal(h, x, w) = Bal(held, x, w)
    BY <1>3, <1>6 DEF Bal
  <2> QED BY <1>4, <1>6, <2>1 DEF h
<1> QED BY <1>5, <1>6

LEMMA PayAdds ==
  ASSUME Sound, NEW j \in Jobs, NEW what \in What, NEW q, Pays(j, what, q),
         NEW x, NEW w \in What
  PROVE  Bal(held', x, w) = Bal(held, x, w)
           + (IF x = job[j].addr /\ w = what THEN job[j].missing ELSE 0)
<1>1. held' = Given(job[j].addr, what, job[j].missing)
  BY DEF Pays
<1> QED BY <1>1, GivenAdds

LEMMA BalGrows ==
  ASSUME Sound, NamesOK, AKind, NEW x, NEW w \in What
  PROVE  Bal(held', x, w) >= Bal(held, x, w) /\ Bal(held', x, w) \in Nat
<1>1. Bal(held, x, w) \in Nat
  BY BalIsNat
<1>2. CASE held' = held
  BY <1>1, <1>2
<1>3. CASE held' # held
  <2>1. PICK y \in Addrs, what \in What, n \in Nat : held' = Given(y, what, n)
    BY <1>3, WhoPays
  <2> QED BY <1>1, <2>1, GivenAdds
<1> QED BY <1>2, <1>3

LEMMA AskedGrows ==
  ASSUME Sound, AKind
  PROVE  /\ \A a \in Agents : asked'[a] >= asked[a] /\ asked[a] \in Nat
                              /\ token'[a] >= token[a] /\ token[a] \in Nat
         /\ crossed \subseteq crossed'
<1>1. \A a \in Agents : asked[a] \in Nat /\ token[a] \in Nat
  BY DEF Sound, TypeOK
<1>2. ASSUME NEW j \in Jobs, NEW ask \in Asks, NEW doc, NEW pc,
             Starts(j, ask, doc, pc)
      PROVE  \A a \in Agents : asked'[a] >= asked[a]
  BY <1>1, <1>2, AskType DEF Starts, Sound, TypeOK
<1>3. ASSUME NEW a \in Agents, token' = Credential(a)
      PROVE  \A b \in Agents : token'[b] >= token[b]
  BY <1>1, <1>3 DEF Credential, Sound, TypeOK
<1>4. ASSUME NEW j \in Jobs, Marks(j)
      PROVE  \A b \in Agents : token'[b] >= token[b]
  BY <1>3, <1>4, JobType DEF Marks, Sound
<1>5. Grows /\ crossed \subseteq crossed'
  BY StepGrows, Persists
<1>6. \A a \in Agents : asked'[a] >= asked[a]
  BY <1>1, <1>2, <1>5 DEF Grows
<1>7. \A a \in Agents : token'[a] >= token[a]
  BY <1>1, <1>3, <1>4, <1>5 DEF Grows
<1> QED BY <1>1, <1>5, <1>6, <1>7

(* Two spawns of one agent in hand: the agent is crossed.                  *)
LEMMA OneSpawn ==
  ASSUME Sound, MoneyOK, AKind, NEW i \in Jobs, NEW k \in Jobs, i # k,
         IsSpawn(i)', IsSpawn(k)', job'[i].agent = job'[k].agent
  PROVE  job'[i].agent \in crossed'
<1>1. ASSUME NEW m \in Jobs, NEW l \in Jobs, m # l, IsSpawn(m)', IsSpawn(l)',
             job'[m].agent = job'[l].agent,
             \E ask \in Asks, doc \in {NoDoc} \cup Documents, pc \in Pcs :
               Starts(m, ask, doc, pc)
      PROVE  job'[m].agent \in crossed'
  <2>1. PICK ask \in Asks, doc \in {NoDoc} \cup Documents, pc \in Pcs :
          Starts(m, ask, doc, pc)
    BY <1>1
  <2>2. job'[m] = NewJob(ask, doc, pc) /\ job'[l] = job[l]
    BY <1>1, <2>1, PutFacts DEF Starts, Sound
  <2>3. job'[m].agent = ask.agent /\ ask.op = "spawn"
    BY <1>1, <2>2 DEF NewJob, IsSpawn
  <2>4. l \in InHand({"spawn"}, ask.agent)
    BY <1>1, <2>2, <2>3 DEF InHand, IsSpawn
  <2> QED BY <2>1, <2>3, <2>4 DEF Starts
<1>2. CASE SameRequest(i) /\ SameRequest(k)
  <2>1. IsSpawn(i) /\ IsSpawn(k) /\ job[i].agent = job[k].agent
        /\ job'[i].agent = job[i].agent
    BY <1>2 DEF IsSpawn, SameRequest
  <2>2. job[i].agent \in crossed
    BY <2>1 DEF MoneyOK, MoneyAt
  <2> QED BY <2>1, <2>2, AskedGrows
<1> QED BY <1>1, <1>2, RequestsStay DEF IsSpawn

(* While an agent has one spawn, nobody else pays its addresses, and no    *)
(* late payment of the kind it is about to send comes unnoticed.           *)
LEMMA NobodyElsePays ==
  ASSUME Sound, NamesOK, MoneyOK, AKind, NEW i \in Jobs, FdOnly(i), IsSpawn(i),
         job[i].pc \in What, job[i].agent \notin crossed \cup overtaken'
  PROVE  Bal(held', job[i].addr, job[i].pc) = Bal(held, job[i].addr, job[i].pc)
<1>1. job[i].addr[1] = job[i].agent /\ job[i] \in Requests /\ job[i] # Idle
  BY AddrOfJob, JobType
  DEF IsSpawn, KeyedPcs, NamingPcs, WritingPcs, Sound, What
<1>2. ASSUME NEW j \in Jobs, NEW what \in What, NEW q, Pays(j, what, q),
             job[j].addr = job[i].addr
      PROVE  FALSE
  <2>1. job[j] # Idle /\ job[j].pc = what
    BY <1>2 DEF Pays
  <2>2. job[j].op = "spawn" /\ job[j].addr[1] = job[j].agent
    BY <2>1, AddrOfJob DEF KeyedPcs, NamingPcs, WritingPcs, What
  <2>3. j = i
    BY <1>1, <1>2, <2>1, <2>2 DEF MoneyOK, MoneyAt, IsSpawn
  <2>4. job'[i].pc = job[i].pc /\ job'[i] # Idle
    BY <1>1, NothingElseAssumption DEF FdOnly, Requests, IsSpawn
  <2>5. q # Idle
    BY <1>2, <2>3, <2>4, PutFacts DEF Pays, Sound
  <2>6. job'[i].pc = IF what = "gas" THEN "fund" ELSE "name"
    BY <1>2, <2>3, <2>5, PaysTo DEF Changes
  <2> QED BY <2>1, <2>3, <2>4, <2>6 DEF What
<1>3. Bal(held, job[i].addr, job[i].pc) \in Nat
  BY BalIsNat
<1>4. ASSUME NEW tx, Comes(tx), held' # held
      PROVE  /\ held' = Given(tx.to, tx.what, tx.amount) /\ tx.what \in What
             /\ tx.to # job[i].addr \/ tx.what # job[i].pc
  <2>1. held' = Given(tx.to, tx.what, tx.amount) /\ tx.what \in What
    BY <1>4, ComesAs
  <2>2. ASSUME tx.to = job[i].addr, tx.what = job[i].pc
        PROVE  FALSE
    <3>1. At(i, tx.what)
      BY <1>1, <2>2 DEF At
    <3>2. tx.to[1] \in overtaken'
      BY <1>4, <2>1, <2>2, <3>1 DEF Comes
    <3> QED BY <1>1, <2>2, <3>2
  <2> QED BY <2>1, <2>2
<1>5. \/ held' = held
      \/ \E j \in Jobs, what \in What, q \in Requests \cup {Idle} :
           Pays(j, what, q)
      \/ \E tx \in Transactions : Comes(tx)
  BY StepGrows DEF Grows
<1>6. ASSUME NEW j \in Jobs, NEW what \in What, NEW q, Pays(j, what, q)
      PROVE  Bal(held', job[i].addr, job[i].pc)
               = Bal(held, job[i].addr, job[i].pc)
  BY <1>2, <1>3, <1>6, PayAdds
<1>7. ASSUME NEW tx, Comes(tx), held' # held
      PROVE  Bal(held', job[i].addr, job[i].pc)
               = Bal(held, job[i].addr, job[i].pc)
  BY <1>3, <1>4, <1>7, GivenAdds
<1> QED BY <1>5, <1>6, <1>7


LEMMA Acts1Given ==
  ASSUME NEW i \in Jobs, Acts1(i)
  PROVE  held' = held
<1>1. CASE (\E x \in Addrs : Opens(i, x)) \/ Seals(i)
  BY <1>1 DEF Opens, Seals
<1>2. CASE (\E S \in SUBSET AllNames : Lists(i, S))
           \/ \E doc \in Documents : Merges(i, doc)
  BY <1>2 DEF Lists, Merges, OnlyJob
<1>3. CASE \/ (\E pc \in Pcs : Turns(i, pc)) \/ Loads(i)
           \/ \E what \in What, wanted \in Nat : Measures(i, what, wanted)
  BY <1>3 DEF Turns, Loads, Measures, OnlyJob
<1> QED BY <1>1, <1>2, <1>3 DEF Acts1

LEMMA MoneyAtStep ==
  ASSUME Sound, NamesOK, MoneyOK, AKind, NEW i \in Jobs
  PROVE  MoneyAt(i)'
<1> SUFFICES ASSUME IsSpawn(i)' PROVE MoneyAt(i)'
  BY DEF MoneyAt
<1> DEFINE q == job[i]
           p == job'[i]
<1>1. ASSUME p.agent \notin crossed'
      PROVE  \A k \in Jobs : IsSpawn(k)' /\ job'[k].agent = p.agent => k = i
  BY <1>1, OneSpawn
<1>2. CASE ~SameRequest(i)
  <2>1. PICK ask \in Asks, doc \in {NoDoc} \cup Documents, pc \in Pcs :
          Starts(i, ask, doc, pc)
    BY <1>2, RequestsStay DEF IsSpawn
  <2>2. p = NewJob(ask, doc, pc)
    BY <2>1, PutFacts DEF Starts, Sound
  <2>3. p.op = ask.op /\ p.agent = ask.agent /\ p.fund = ask.fund /\ p.pc = pc
    BY <2>2 DEF NewJob
  <2>4. p.pc = "key"
    BY <2>1, <2>3 DEF Starts, IsSpawn
  <2>5. p.fund <= asked'[p.agent]
    BY <2>1, <2>3, AskType DEF Starts, Sound, TypeOK
  <2> HIDE DEF p
  <2> QED BY <1>1, <2>4, <2>5
          DEF MoneyAt, GasPcs, PlayPcs, KeyedPcs, NamingPcs, WritingPcs, p
<1>3. CASE SameRequest(i)
  <2>1. /\ IsSpawn(i) /\ p.agent = q.agent /\ p.fund = q.fund
        /\ p.op = q.op /\ q.op = "spawn"
    BY <1>3 DEF SameRequest, IsSpawn
  <2>2. /\ q \in Requests /\ q.agent \in Agents /\ q.fund \in Nat
        /\ q.missing \in Nat /\ Place(i)
    BY <2>1, JobType DEF IsSpawn, Sound, PlacesOK
  <2>3. /\ p.fund <= asked'[p.agent]
        /\ p.agent \notin (crossed \cup overtaken)' =>
             q.agent \notin crossed \cup overtaken \cup overtaken'
        /\ q.fund <= asked[q.agent]
    <3>1. q.fund <= asked[q.agent]
      BY <2>1 DEF MoneyOK, MoneyAt
    <3>2. /\ asked'[q.agent] >= asked[q.agent] /\ asked[q.agent] \in Nat
          /\ crossed \subseteq crossed' /\ overtaken \subseteq overtaken'
      BY <2>2, AskedGrows, Persists
    <3>3. asked'[q.agent] \in Nat
      BY <2>2, <3>2, StepGrows, AskType DEF Grows, Starts, Sound, TypeOK
    <3> HIDE DEF p
    <3> QED BY <2>1, <2>2, <3>1, <3>2, <3>3
  <2>4. \A x, w : w \in What => /\ Bal(held', x, w) >= Bal(held, x, w)
                                /\ Bal(held', x, w) \in Nat
                                /\ Bal(held, x, w) \in Nat
    BY BalGrows, BalIsNat
  <2>5. "gas" \in What /\ "play" \in What /\ Gas = 1
    BY DEF What, Gas
  <2> DEFINE Enough ==
               /\ p.pc \in GasPcs => Bal(held', p.addr, "gas") >= Gas
               /\ p.pc \in PlayPcs => Bal(held', p.addr, "play") >= p.fund
               /\ p.pc = "gas" => p.missing + Bal(held', p.addr, "gas") >= Gas
               /\ p.pc = "play" =>
                    p.missing + Bal(held', p.addr, "play") >= p.fund
             NoMore ==
               p.agent \notin (crossed \cup overtaken)' =>
                 /\ p.pc = "gas" => p.missing + Bal(held', p.addr, "gas") <= Gas
                 /\ p.pc = "play" =>
                      p.missing + Bal(held', p.addr, "play") <= p.fund
  <2> SUFFICES Enough /\ NoMore
    <3> HIDE DEF p
    <3> QED BY <1>1, <2>3 DEF MoneyAt, p
  <2>6. MoneyAt(i)
    BY DEF MoneyOK
  <2>7. CASE FdOnly(i)
    <3>1. p.pc = q.pc /\ p.addr = q.addr /\ p.missing = q.missing
      BY <2>2, <2>7 DEF FdOnly, Requests
    <3>2. q.agent \notin crossed \cup overtaken' /\ q.pc \in What =>
            Bal(held', q.addr, q.pc) = Bal(held, q.addr, q.pc)
      BY <2>1, <2>7, NobodyElsePays
    <3>3. Enough
      <4> HIDE DEF p
      <4> QED BY <2>1, <2>2, <2>4, <2>5, <2>6, <3>1 DEF MoneyAt, p
    <3>4. NoMore
      <4> HIDE DEF p
      <4> QED BY <2>1, <2>2, <2>3, <2>4, <2>5, <2>6, <3>1, <3>2 DEF MoneyAt, p
    <3> QED BY <3>3, <3>4
  <2> DEFINE Pcx == GasPcs \cup PlayPcs
  <2> USE DEF GasPcs, PlayPcs, KeyedPcs, NamingPcs, WritingPcs
  <2>8. CASE Acts1(i)
    <3>1. held' = held
      BY <2>8, Acts1Given
    <3>2. ASSUME NEW pc \in Pcs, Turns(i, pc)
          PROVE  Enough /\ NoMore
      <4>1. p.pc = pc /\ p.addr = q.addr /\ p.missing = q.missing
        BY <3>2, TurnsTo DEF Changes
      <4>2. Turn(q, pc)
        BY <3>2 DEF Turns
      <4>3. q.pc = "endow" => Balance(q.addr, "gas") = Bal(held, q.addr, "gas")
        BY DEF Balance, Bal
      <4>4. q.pc = "fund" => Balance(q.addr, "play") = Bal(held, q.addr, "play")
        BY DEF Balance, Bal
      <4> HIDE DEF p
      <4> QED BY <2>1, <2>2, <2>4, <2>5, <2>6, <3>1, <4>1, <4>2, <4>3, <4>4
              DEF MoneyAt, Turn, NextName, Balance, Bal
    <3>3. ASSUME Loads(i) \/ Seals(i)
          PROVE  Enough /\ NoMore
      <4>1. p.pc = "endow"
        BY <3>3, LoadsTo, SealsTo DEF Changes
      <4> HIDE DEF p
      <4> QED BY <4>1
    <3>4. ASSUME NEW what \in What, NEW wanted \in Nat, Measures(i, what, wanted)
          PROVE  Enough /\ NoMore
      <4>1. p.pc = what /\ p.addr = q.addr
            /\ p.missing = wanted - Balance(q.addr, what)
        BY <3>4, MeasuresTo DEF Changes
      <4>2. Balance(q.addr, what) = Bal(held, q.addr, what)
        BY DEF Balance, Bal
      <4>3. \/ what = "gas" /\ wanted = Gas /\ q.pc = "endow"
            \/ what = "play" /\ wanted = q.fund /\ q.pc = "fund"
        BY <3>4 DEF Measures
      <4> HIDE DEF p
      <4> QED BY <2>1, <2>2, <2>4, <2>5, <2>6, <3>1, <4>1, <4>2, <4>3
              DEF MoneyAt
    <3>5. ASSUME NEW doc \in Documents, Merges(i, doc)
          PROVE  Enough /\ NoMore
      BY <2>1, <2>2, <3>5 DEF Merges, Place, SpawnPcs
    <3>6. ASSUME NEW S \in SUBSET AllNames, Lists(i, S)
          PROVE  Enough /\ NoMore
      BY <2>1, <2>2, <3>6 DEF Lists, Place, SpawnPcs
    <3>7. ASSUME NEW x \in Addrs, Opens(i, x)
          PROVE  Enough /\ NoMore
      <4>1. p.pc = "seal"
        BY <3>7, OpensTo DEF Changes
      <4> HIDE DEF p
      <4> QED BY <4>1
    <3> HIDE DEF Enough, NoMore
    <3> QED BY <2>8, <3>2, <3>3, <3>4, <3>5, <3>6, <3>7 DEF Acts1
  <2>9. CASE Acts2(i)
    <3>1. ASSUME NEW what \in What, NEW r \in Requests, Pays(i, what, r)
          PROVE  Enough /\ NoMore
      <4>1. p.pc = (IF what = "gas" THEN "fund" ELSE "name")
            /\ p.addr = q.addr /\ p.missing = q.missing
        BY <3>1, PaysTo, NothingElseAssumption DEF Changes
      <4>2. q.pc = what
        BY <3>1 DEF Pays
      <4>3. Bal(held', q.addr, what) = Bal(held, q.addr, what) + q.missing
        BY <3>1, PayAdds
      <4> HIDE DEF p
      <4> QED BY <2>1, <2>2, <2>4, <2>5, <2>6, <4>1, <4>2, <4>3
              DEF MoneyAt, What
    <3>2. ASSUME NEW n \in AllNames, NEW x \in Addrs, NEW r \in Requests,
                 NamesIt(i, n, x, r)
          PROVE  Enough /\ NoMore
      <4>1. p.pc = AfterRegistration(q) /\ p.addr = q.addr /\ held' = held
        BY <3>2, NamesTo, NothingElseAssumption DEF Changes, NamesIt
      <4>2. q.pc \in {"register", "registerAlias"}
        BY <2>1, <2>2, <3>2 DEF NamesIt, Registering, Place, SpawnPcs
      <4> HIDE DEF p
      <4> QED BY <2>1, <2>2, <2>4, <2>5, <2>6, <4>1, <4>2
              DEF MoneyAt, AfterRegistration, NextName
    <3>3. ASSUME NEW n \in AllNames, NEW r, Unnames(i, n, r)
          PROVE  Enough /\ NoMore
      BY <2>1, <2>2, <3>3 DEF Unnames, Place, SpawnPcs
    <3>4. ASSUME WritesFile(i)
          PROVE  Enough /\ NoMore
      <4>0. q.pc \in SpawnPcs
        BY <2>1, <2>2 DEF Place, IsSpawn
      <4>1. q.pc # "rm"
        BY <4>0 DEF SpawnPcs
      <4>2. /\ q.pc \in WritingPcs /\ p.pc \in WritingPcs \cup {"token"}
            /\ p.addr = q.addr /\ held' = held
        BY <2>1, <2>2, <3>4, <4>1 DEF WritesFile, Requests
      <4> HIDE DEF p
      <4> QED BY <2>1, <2>2, <2>4, <2>5, <2>6, <4>2 DEF MoneyAt
    <3> HIDE DEF Enough, NoMore
    <3> QED BY <2>9, <3>1, <3>2, <3>3, <3>4 DEF Acts2
  <2> HIDE DEF Enough, NoMore
  <2>10. \A ask, doc, pc : ~Starts(i, ask, doc, pc)
    BY <2>1 DEF Starts, IsSpawn
  <2> QED BY <2>7, <2>8, <2>9, <2>10, WhoActs DEF Acts, IsSpawn
<1> QED BY <1>2, <1>3


LEMMA GivenOnceStep ==
  ASSUME Sound, NamesOK, MoneyOK, AKind
  PROVE  GivenOnce'
<1> SUFFICES ASSUME NEW x \in DOMAIN held',
                    x[1] \notin (crossed \cup overtaken)'
             PROVE  /\ Bal(held', x, "gas") <= Gas
                    /\ Bal(held', x, "play") <= asked'[x[1]]
  BY DEF GivenOnce, Balance, Bal
<1>1. x \in Addrs /\ x[1] \in Agents /\ x[1] \notin crossed \cup overtaken
  <2>1. x \in Addrs
    BY TypeStep DEF TypeOK
  <2> QED BY <2>1, AskedGrows, Persists DEF Addrs
<1>2. /\ Bal(held, x, "gas") <= Gas /\ Bal(held, x, "play") <= asked[x[1]]
      /\ Bal(held, x, "gas") \in Nat /\ Bal(held, x, "play") \in Nat
      /\ asked[x[1]] \in Nat /\ asked'[x[1]] \in Nat
      /\ asked'[x[1]] >= asked[x[1]]
  <2>1. asked[x[1]] \in Nat /\ asked'[x[1]] >= asked[x[1]]
    BY <1>1, AskedGrows
  <2>2. asked'[x[1]] \in Nat
    BY <1>1, <2>1, StepGrows, AskType DEF Grows, Starts, Sound, TypeOK
  <2>3. Bal(held, x, "gas") \in Nat /\ Bal(held, x, "play") \in Nat
    BY BalIsNat DEF What
  <2>4. CASE x \in DOMAIN held
    BY <1>1, <2>1, <2>2, <2>3, <2>4 DEF MoneyOK, GivenOnce, Balance, Bal
  <2>5. CASE x \notin DOMAIN held
    BY <2>1, <2>2, <2>3, <2>5 DEF Bal, Gas
  <2> QED BY <2>4, <2>5
<1>3. ASSUME NEW j \in Jobs, NEW what \in What, NEW q, Pays(j, what, q)
      PROVE  /\ Bal(held', x, "gas") <= Gas
             /\ Bal(held', x, "play") <= asked'[x[1]]
  <2>1. /\ Bal(held', x, "gas") = Bal(held, x, "gas")
             + (IF x = job[j].addr /\ what = "gas" THEN job[j].missing ELSE 0)
        /\ Bal(held', x, "play") = Bal(held, x, "play")
             + (IF x = job[j].addr /\ what = "play" THEN job[j].missing ELSE 0)
    BY <1>3, PayAdds DEF What
  <2>2. CASE x = job[j].addr
    <3>1. job[j] # Idle /\ job[j].pc = what
      BY <1>3 DEF Pays
    <3>2. job[j].op = "spawn" /\ job[j].agent = x[1]
      BY <2>2, <3>1, AddrOfJob DEF KeyedPcs, NamingPcs, WritingPcs, What
    <3>3. MoneyAt(j) /\ IsSpawn(j)
      BY <3>1, <3>2 DEF MoneyOK, IsSpawn
    <3>4. job[j].missing \in Nat /\ job[j].fund \in Nat
      BY <3>1, JobType DEF Sound
    <3> QED BY <1>1, <1>2, <2>1, <2>2, <3>1, <3>2, <3>3, <3>4
            DEF MoneyAt, What, Gas
  <2>3. CASE x # job[j].addr
    BY <1>2, <2>1, <2>3 DEF Gas
  <2> QED BY <2>2, <2>3
<1>4. ASSUME NEW tx \in Transactions, Comes(tx), held' # held
      PROVE  /\ Bal(held', x, "gas") <= Gas
             /\ Bal(held', x, "play") <= asked'[x[1]]
  <2>1. /\ tx \in wire /\ tx.what \in What /\ tx.amount \in Nat
        /\ held' = Given(tx.to, tx.what, tx.amount)
    BY <1>4, ComesAs DEF Comes
  <2>2. /\ Bal(held', x, "gas") = Bal(held, x, "gas")
             + (IF x = tx.to /\ tx.what = "gas" THEN tx.amount ELSE 0)
        /\ Bal(held', x, "play") = Bal(held, x, "play")
             + (IF x = tx.to /\ tx.what = "play" THEN tx.amount ELSE 0)
    BY <2>1, GivenAdds DEF What
  <2>3. CASE x = tx.to
    BY <1>1, <1>2, <2>1, <2>2, <2>3 DEF MoneyOK, MoneyOnWire, What, Gas
  <2>4. CASE x # tx.to
    BY <1>2, <2>2, <2>4 DEF Gas
  <2> QED BY <2>3, <2>4
<1>5. \/ held' = held
      \/ \E j \in Jobs, what \in What, q \in Requests \cup {Idle} :
           Pays(j, what, q)
      \/ \E tx \in Transactions : Comes(tx)
  BY StepGrows DEF Grows
<1> QED BY <1>2, <1>3, <1>4, <1>5

(* What a spawn may have on the wire is no more than what it was missing.  *)
LEMMA MoneyOnWireStep ==
  ASSUME Sound, NamesOK, MoneyOK, AKind
  PROVE  MoneyOnWire'
<1> SUFFICES ASSUME NEW tx \in wire', tx.what \in What,
                    tx.to[1] \notin (crossed \cup overtaken)'
             PROVE  /\ tx.what = "gas" =>
                         tx.amount + Bal(held', tx.to, "gas") <= Gas
                    /\ tx.what = "play" =>
                         tx.amount + Bal(held', tx.to, "play")
                           <= asked'[tx.to[1]]
  BY DEF MoneyOnWire
<1>1. tx.to[1] \notin crossed \cup overtaken
  BY Persists
<1>2. held' = held /\ (tx \in wire \/ \E j \in Jobs : tx \in Outgoing(j))
  BY WireStep DEF WireGrows
<1>3. tx \in Transactions /\ tx.to \in Addrs
  BY TypeStep, KeysStep DEF TypeOK, KeysOK, What
<1>4. /\ asked'[tx.to[1]] \in Nat /\ asked[tx.to[1]] \in Nat
      /\ asked'[tx.to[1]] >= asked[tx.to[1]]
      /\ Bal(held, tx.to, "gas") \in Nat /\ Bal(held, tx.to, "play") \in Nat
      /\ tx.amount \in Nat
  <2>1. tx.to[1] \in Agents
    BY <1>3 DEF Addrs
  <2> QED BY <1>3, <2>1, AskedGrows, TypeStep, BalIsNat
          DEF TypeOK, Transactions, What
<1>5. CASE tx \in wire
  BY <1>1, <1>2, <1>4, <1>5 DEF MoneyOK, MoneyOnWire
<1>6. ASSUME NEW j \in Jobs, tx \in Outgoing(j)
      PROVE  /\ tx.what = "gas" => tx.amount + Bal(held, tx.to, "gas") <= Gas
             /\ tx.what = "play" =>
                  tx.amount + Bal(held, tx.to, "play") <= asked[tx.to[1]]
  <2>1. /\ job[j] # Idle /\ tx.what = job[j].pc
        /\ tx.to = job[j].addr /\ tx.amount = job[j].missing
    BY <1>6 DEF Outgoing, Payment, Registration, Clearing, What
  <2>2. job[j].op = "spawn" /\ job[j].addr[1] = job[j].agent
    BY <2>1, AddrOfJob DEF KeyedPcs, NamingPcs, WritingPcs, What
  <2>3. MoneyAt(j) /\ IsSpawn(j) /\ job[j].fund \in Nat
    BY <2>1, <2>2, JobType DEF MoneyOK, IsSpawn, Sound
  <2> QED BY <1>1, <1>4, <2>1, <2>2, <2>3 DEF MoneyAt
<1> QED BY <1>2, <1>4, <1>5, <1>6

LEMMA MarkedIsFundedStep ==
  ASSUME Sound, NamesOK, MoneyOK, AKind
  PROVE  MarkedIsFunded'
<1> SUFFICES ASSUME NEW a \in Agents, row'[a] # NoRow
             PROVE  /\ Bal(held', row'[a].addr, "gas") >= Gas
                    /\ Bal(held', row'[a].addr, "play") >= row'[a].fund
                    /\ token'[a] # 0
  BY DEF MarkedIsFunded
<1> DEFINE x == row'[a].addr
<1>1. "gas" \in What /\ "play" \in What /\ Gas \in Nat
  BY DEF What, Gas
<1>2. /\ Bal(held', x, "gas") >= Bal(held, x, "gas")
      /\ Bal(held', x, "play") >= Bal(held, x, "play")
      /\ Bal(held', x, "gas") \in Nat /\ Bal(held', x, "play") \in Nat
      /\ Bal(held, x, "gas") \in Nat /\ Bal(held, x, "play") \in Nat
      /\ token'[a] >= token[a] /\ token[a] \in Nat
  <2> HIDE DEF x
  <2> QED BY <1>1, BalGrows, BalIsNat, AskedGrows
<1>3. CASE row[a] # NoRow
  <2>1. row'[a] = row[a] /\ row[a].fund \in Nat
    BY <1>3, Persists, AddrOfRow
  <2>2. /\ Bal(held, x, "gas") >= Gas /\ Bal(held, x, "play") >= row'[a].fund
        /\ token[a] # 0
    BY <1>3, <2>1 DEF MoneyOK, MarkedIsFunded
  <2> QED BY <1>1, <1>2, <2>1, <2>2
<1>4. CASE row[a] = NoRow
  <2>1. PICK j \in Jobs : Marks(j)
    BY <1>4, StepGrows DEF Grows
  <2>2. job[j].agent = a
    BY <1>4, <2>1 DEF Marks, Sound, TypeOK
  <2>3. row'[a] = [addr |-> job[j].addr, kind |-> job[j].kind,
                   fund |-> job[j].fund]
    BY <1>4, <2>1, <2>2 DEF Marks, Sound, TypeOK
  <2>4. x = job[j].addr /\ row'[a].fund = job[j].fund /\ job[j].fund \in Nat
    BY <2>1, <2>3, JobType DEF Marks, Sound
  <2>5. IsSpawn(j) /\ MoneyAt(j) /\ job[j].pc = "token"
    BY <2>1, AddrOfJob
    DEF Marks, MoneyOK, IsSpawn, KeyedPcs, NamingPcs, WritingPcs
  <2>6. Bal(held, x, "gas") >= Gas /\ Bal(held, x, "play") >= row'[a].fund
    BY <2>4, <2>5
    DEF MoneyAt, GasPcs, PlayPcs, KeyedPcs, NamingPcs, WritingPcs
  <2>7. token'[a] # 0
    BY <1>2, <2>1, <2>2 DEF Marks, Credential, Sound, TypeOK
  <2> QED BY <1>1, <1>2, <2>4, <2>6, <2>7
<1> QED BY <1>3, <1>4

LEMMA MoneyStep ==
  ASSUME Sound, NamesOK, MoneyOK, AKind
  PROVE  MoneyOK'
<1>1. \A i \in Jobs : MoneyAt(i)'
  BY MoneyAtStep
<1> QED BY <1>1, GivenOnceStep, MarkedIsFundedStep, MoneyOnWireStep
        DEF MoneyOK

LEMMA MoneyAtFirst == Init => MoneyOK
<1> SUFFICES ASSUME Init PROVE MoneyOK
  OBVIOUS
<1>1. DOMAIN held = {}
  <2>1. held = <<>> /\ DOMAIN <<>> = {}
    BY DEF Init
  <2> QED BY <2>1
<1> QED BY <1>1
        DEF Init, MoneyOK, MoneyAt, IsSpawn, GivenOnce, MarkedIsFunded, MoneyOnWire


-----------------------------------------------------------------------------
(* The names *)

LEMMA PlainShrinks ==
  ASSUME Sound, AKind, NEW a \in Agents, Plain(a)'
  PROVE  Plain(a)
BY Persists DEF Plain

(* Who registers a name: an id is registered for its own agent, and an     *)
(* alias for an agent whose id is.                                         *)
LEMMA Registrant ==
  ASSUME Sound, NamesOK, NEW j \in Jobs, job[j] # Idle, NEW n, NEW x,
         Registering(job[j], n, x)
  PROVE  MayName(n, x)
<1>1. /\ job[j] \in Requests /\ Place(j)
      /\ job[j].agent \in Agents /\ job[j].alias \in Aliases \cup {NoName}
  BY JobType DEF Sound, PlacesOK
<1>2. x \in Addrs /\ x[1] = job[j].agent /\ keyfile[x[1]] = x
  BY AddrRegistered
<1>3. CASE job[j].pc = "register"
  <2>1. n = x[1] /\ n \in Agents /\ names
    BY <1>1, <1>2, <1>3 DEF Registering, Place, NamingPcs
  <2> QED BY <1>2, <2>1 DEF MayName, AllNames, Agents
<1>4. CASE job[j].pc \in {"registerAlias", "add"}
  <2>1. n \in Aliases /\ names
    BY <1>1, <1>4 DEF Registering, Place, NamingPcs
  <2>2. n \notin Agents /\ n \in AllNames
    BY <2>1, NamesAssumption DEF Agents, AllNames
  <2>3. CASE job[j].pc = "registerAlias"
    <3>1. job[j].op = "spawn" /\ job[j].kind # "burner"
      BY <1>1, <2>3, AddrOfJob DEF Place, KeyedPcs, NamingPcs, WritingPcs
    <3>2. job[j].agent \in DOMAIN reg.rec
      BY <2>1, <2>3, <3>1 DEF NamesOK, NameAt, NamedPcs
    <3> QED BY <1>2, <2>1, <2>2, <3>2 DEF MayName
  <2>4. CASE job[j].pc = "add"
    <3>1. row[job[j].agent] # NoRow
      BY <1>1, <2>4
      DEF Place, Requests, Ops, SpawnPcs, KeyedPcs, NamingPcs, WritingPcs
    <3>2. job[j].agent \in DOMAIN reg.rec \/ ~Plain(job[j].agent)
      BY <1>1, <2>1, <3>1 DEF NamesOK, IdName, Plain
    <3> QED BY <1>2, <2>1, <2>2, <3>2 DEF MayName
  <2> QED BY <1>4, <2>3, <2>4
<1> QED BY <1>3, <1>4 DEF Registering

(* The registry changes by a registration, by a clearing, or by its owners.*)
LEMMA RegistryStep ==
  ASSUME Sound, NamesOK, AKind, reg' # reg
  PROVE  \/ \E n, x : MayName(n, x) /\ Registered(n, x)
         \/ \E n : MayClear(n) /\ Cleared(n)
         \/ \E a, b \in Agents, n \in AllNames : MovesName(a, n, b)
<1>1. ASSUME NEW j \in Jobs, NEW n, NEW x, NEW q, NamesIt(j, n, x, q)
      PROVE  MayName(n, x) /\ Registered(n, x)
  BY <1>1, Registrant DEF NamesIt, Registered
<1>2. ASSUME NEW j \in Jobs, NEW n, NEW q, Unnames(j, n, q)
      PROVE  MayClear(n) /\ Cleared(n)
  BY <1>2 DEF Unnames, MayClear, Cleared, NamesOK, NameAt
<1>3. ASSUME NEW tx \in Transactions, Comes(tx)
      PROVE  \/ \E n, x : MayName(n, x) /\ Registered(n, x)
             \/ \E n : MayClear(n) /\ Cleared(n)
  BY <1>3, ComesAs
<1>4. \/ \E tx \in Transactions : Comes(tx)
      \/ \E j \in Jobs, n \in AllNames, x \in Addrs, q \in Requests \cup {Idle} :
           NamesIt(j, n, x, q)
      \/ \E j \in Jobs, n \in AllNames, q \in Requests \cup {Idle} :
           Unnames(j, n, q)
      \/ \E a, b \in Agents, n \in AllNames : MovesName(a, n, b)
  BY StepGrows DEF Grows
<1> QED BY <1>1, <1>2, <1>3, <1>4

(* No name is ever forgotten.                                              *)
LEMMA RecGrows ==
  ASSUME Sound, NamesOK, AKind
  PROVE  DOMAIN reg.rec \subseteq DOMAIN reg'.rec
<1> USE DEF Sound, TypeOK
<1>1. ASSUME NEW n, NEW x, MayName(n, x), Registered(n, x)
      PROVE  DOMAIN reg.rec \subseteq DOMAIN reg'.rec
  BY <1>1, AfterRegister DEF MayName, Registered, Taken
<1>2. ASSUME NEW n, MayClear(n), Cleared(n)
      PROVE  DOMAIN reg'.rec = DOMAIN reg.rec
  BY <1>2, AfterSetTarget DEF MayClear, Cleared
<1>3. ASSUME NEW a \in Agents, NEW b \in Agents, NEW n \in AllNames,
             MovesName(a, n, b)
      PROVE  DOMAIN reg'.rec = DOMAIN reg.rec
  BY <1>3, AddrOfRow, AfterSetTarget, AfterTransfer DEF MovesName
<1> QED BY <1>1, <1>2, <1>3, RegistryStep

LEMMA IdNameStep ==
  ASSUME Sound, NamesOK, AKind, NEW a \in Agents
  PROVE  IdName(a)'
<1>1. /\ IdName(a) /\ RegistryOK(reg) /\ a \in AllNames
      /\ (Plain(a)' => Plain(a)) /\ DOMAIN reg.rec \subseteq DOMAIN reg'.rec
      /\ names' = names /\ moved \subseteq moved'
      /\ row[a] # NoRow => row'[a] = row[a]
  BY PlainShrinks, RecGrows, Persists
  DEF NamesOK, Sound, TypeOK, AllNames, Agents
<1>2. names /\ row'[a] # NoRow /\ row'[a].kind # "burner" =>
        a \in DOMAIN reg'.rec
  <2> SUFFICES ASSUME names, row'[a] # NoRow, row'[a].kind # "burner"
               PROVE  a \in DOMAIN reg'.rec
    OBVIOUS
  <2>1. CASE row[a] # NoRow
    BY <1>1, <2>1 DEF IdName
  <2>2. CASE row[a] = NoRow
    <3>1. PICK j \in Jobs : Marks(j)
      BY <2>2, StepGrows DEF Grows
    <3>2. job[j].agent = a
      BY <2>2, <3>1 DEF Marks, Sound, TypeOK
    <3>3. row'[a].kind = job[j].kind
      BY <2>2, <3>1, <3>2 DEF Marks, Sound, TypeOK
    <3>4. job[j] # Idle /\ job[j].pc = "token" /\ job[j].op = "spawn"
      BY <3>1, AddrOfJob DEF Marks, KeyedPcs, NamingPcs, WritingPcs
    <3>5. a \in DOMAIN reg.rec
      BY <3>2, <3>3, <3>4 DEF NamesOK, NameAt, NamedPcs
    <3> QED BY <1>1, <3>5
  <2> QED BY <2>1, <2>2
<1> DEFINE Own(r, m) == a \in DOMAIN r.rec /\ a \notin m => r.rec[a].owner[1] = a
           Kept(r, f) ==
             IF a \in DOMAIN r.rec
             THEN /\ r.rec[a].target = f
                  /\ f \in DOMAIN r.back /\ r.back[f] = a
             ELSE f \notin DOMAIN r.back
<1>3. Own(reg, moved) /\ (Plain(a) => Kept(reg, keyfile[a]))
  BY <1>1 DEF IdName
<1> SUFFICES Own(reg', moved') /\ (Plain(a)' => Kept(reg', keyfile'[a]))
  BY <1>1, <1>2 DEF IdName
<1>4. CASE reg' = reg
  <2>1. Own(reg', moved')
    BY <1>1, <1>3, <1>4
  <2>2. CASE keyfile'[a] = keyfile[a]
    BY <1>1, <1>3, <1>4, <2>1, <2>2
  <2>3. CASE keyfile'[a] # keyfile[a]
    <3>1. keyfile[a] \notin Addrs
      BY <2>3, KeyfilePersists
    <3>2. keyfile'[a] \in Addrs => keyfile'[a][1] = a
      BY KeysStep DEF KeysOK
    <3>3. keyfile'[a] \notin DOMAIN reg.back
      BY <2>3, <3>2 DEF Sound, KeysOK, TypeOK, RegistryOK
    <3>4. DOMAIN reg.back \subseteq Addrs
      BY <1>1 DEF RegistryOK
    <3> QED BY <1>1, <1>3, <1>4, <2>1, <3>1, <3>3, <3>4
  <2> QED BY <2>2, <2>3
<1>5. ASSUME NEW n, NEW x, MayName(n, x), Registered(n, x)
      PROVE  Own(reg', moved') /\ (Plain(a)' => Kept(reg', keyfile'[a]))
  <2>1. /\ n \notin DOMAIN reg.rec /\ reg' = RegisterFor(reg, n, x, x)
        /\ n \in AllNames /\ x \in Addrs /\ keyfile[x[1]] = x
        /\ keyfile' = keyfile /\ moved' = moved
    BY <1>5 DEF MayName, Registered, Taken
  <2>2. /\ DOMAIN reg'.rec = DOMAIN reg.rec \cup {n}
        /\ reg'.rec[n].owner = x /\ reg'.rec[n].target = x
        /\ \A m \in DOMAIN reg.rec : reg'.rec[m] = reg.rec[m]
        /\ DOMAIN reg'.back = DOMAIN reg.back \cup {x}
        /\ \A y \in DOMAIN reg.back : reg'.back[y] = reg.back[y]
        /\ x \notin DOMAIN reg.back => reg'.back[x] = n
    BY <1>1, <2>1, AfterRegister
  <2>3. CASE n = a
    <3>1. x[1] = a
      BY <1>5, <2>3 DEF MayName
    <3> QED BY <1>1, <1>3, <2>1, <2>2, <2>3, <3>1
  <2>4. CASE n # a
    <3>1. Plain(a) /\ keyfile[a] = x => a \in DOMAIN reg.rec
      <4> SUFFICES ASSUME Plain(a), keyfile[a] = x PROVE a \in DOMAIN reg.rec
        OBVIOUS
      <4>1. x[1] = a
        BY <2>1 DEF Sound, KeysOK
      <4> QED BY <1>5, <2>4, <4>1 DEF MayName
    <3> QED BY <1>1, <1>3, <2>1, <2>2, <2>4, <3>1
  <2> QED BY <2>3, <2>4
<1>6. ASSUME NEW n \in DOMAIN reg.rec,
             n = a => ~Plain(a)',
             n = a => a \in moved' \/ reg'.rec[a].owner = reg.rec[a].owner,
             keyfile' = keyfile,
             DOMAIN reg'.rec = DOMAIN reg.rec,
             \A m \in DOMAIN reg.rec \ {n} : reg'.rec[m] = reg.rec[m],
             DOMAIN reg'.back \subseteq DOMAIN reg.back,
             \A y \in DOMAIN reg'.back : reg'.back[y] = reg.back[y],
             \A y \in DOMAIN reg.back : reg.back[y] # n => y \in DOMAIN reg'.back
      PROVE  Own(reg', moved') /\ (Plain(a)' => Kept(reg', keyfile'[a]))
  BY <1>1, <1>3, <1>6
<1>7. ASSUME NEW n, MayClear(n), Cleared(n)
      PROVE  Own(reg', moved') /\ (Plain(a)' => Kept(reg', keyfile'[a]))
  <2>1. n \in DOMAIN reg.rec /\ (n = a => ~Plain(a))
    BY <1>7 DEF MayClear
  <2>2. reg' = SetTarget(reg, n, NoAddr) /\ keyfile' = keyfile
    BY <1>7 DEF Cleared
  <2> HIDE DEF Own, Kept
  <2> QED BY <1>1, <1>6, <2>1, <2>2, AfterSetTarget
<1>8. ASSUME NEW b \in Agents, NEW c \in Agents, NEW n \in AllNames,
             MovesName(b, n, c)
      PROVE  Own(reg', moved') /\ (Plain(a)' => Kept(reg', keyfile'[a]))
  <2>1. n \in DOMAIN reg.rec /\ (n = a => ~Plain(a)' /\ a \in moved')
    BY <1>8 DEF MovesName, Plain
  <2>2. row[c].addr \in Addrs /\ keyfile' = keyfile
    BY <1>8, AddrOfRow DEF MovesName
  <2>3. reg' = SetTarget(reg, n, row[c].addr)
        \/ reg' = Transfer(reg, n, row[c].addr)
    BY <1>8 DEF MovesName
  <2> HIDE DEF Own, Kept
  <2> QED BY <1>1, <1>6, <2>1, <2>2, <2>3, AfterSetTarget, AfterTransfer
<1> HIDE DEF Own, Kept
<1> QED BY <1>4, <1>5, <1>7, <1>8, RegistryStep


(* What a retirement lists is registered, and no id that stands.           *)
LEMMA ListedIsNoId ==
  ASSUME Sound, NamesOK, NEW a \in Agents, row[a] # NoRow,
         NEW n \in AliasesOf(reg, row[a].addr)
  PROVE  /\ n \in DOMAIN reg.rec
         /\ n \in Agents => ~Plain(n)
<1>1. row[a].addr \in Addrs /\ row[a].addr # NoAddr
  BY AddrOfRow, NothingElseAssumption
<1>2. Resolve(reg, n) = row[a].addr /\ n # ReverseOf(reg, row[a].addr)
  BY DEF AliasesOf
<1>3. n \in DOMAIN reg.rec /\ reg.rec[n].target = row[a].addr
  BY <1>1, <1>2 DEF Resolve
<1>4. ASSUME n \in Agents, Plain(n)
      PROVE  FALSE
  <2>1. row[a].addr \in DOMAIN reg.back /\ reg.back[row[a].addr] = n
    BY <1>3, <1>4 DEF NamesOK, IdName
  <2> QED BY <1>2, <2>1 DEF ReverseOf
<1> QED BY <1>3, <1>4

LEMMA NameAtStep ==
  ASSUME Sound, NamesOK, AKind, NEW i \in Jobs
  PROVE  NameAt(i)'
<1> SUFFICES ASSUME job'[i] # Idle PROVE NameAt(i)'
  BY DEF NameAt
<1> DEFINE q == job[i]
           p == job'[i]
           IdIsThere ==
             p.op = "spawn" /\ names' /\ p.kind # "burner"
               /\ p.pc \in NamedPcs => p.agent \in DOMAIN reg'.rec
           ListIsFit ==
             p.pc = "clear" =>
               /\ p.todo \subseteq DOMAIN reg'.rec
               /\ \A a \in Agents : a \in p.todo => ~Plain(a)'
<1>1. /\ NameAt(i) /\ names' = names
      /\ DOMAIN reg.rec \subseteq DOMAIN reg'.rec
      /\ \A a \in Agents : Plain(a)' => Plain(a)
  BY PlainShrinks, RecGrows, Persists DEF NamesOK
<1> SUFFICES IdIsThere /\ ListIsFit
  <2> HIDE DEF p
  <2> QED BY DEF NameAt, p
<1>2. CASE ~SameRequest(i)
  <2>1. PICK ask \in Asks, doc \in {NoDoc} \cup Documents, pc \in Pcs :
          Starts(i, ask, doc, pc)
    BY <1>2, RequestsStay
  <2>2. p = NewJob(ask, doc, pc)
    BY <2>1, PutFacts DEF Starts, Sound
  <2>3. p.pc \in {"key", "read", "rm", "look", "retired", "aliases"}
    BY <2>1, <2>2 DEF Starts, NewJob
  <2> HIDE DEF p
  <2> QED BY <2>3 DEF NamedPcs, WritingPcs
<1>3. ASSUME SameRequest(i), q.pc \in NamedPcs \/ p.pc \notin NamedPcs
      PROVE  IdIsThere
  <2>1. /\ q # Idle /\ p.op = q.op /\ p.agent = q.agent /\ p.kind = q.kind
    BY <1>3 DEF SameRequest
  <2> HIDE DEF p
  <2> QED BY <1>1, <1>3, <2>1 DEF NameAt
<1>4. ASSUME q # Idle, q.pc = "clear", p.todo \subseteq q.todo
      PROVE  ListIsFit
  BY <1>1, <1>4 DEF NameAt
<1>5. CASE SameRequest(i) /\ FdOnly(i)
  <2>1. q # Idle /\ p.pc = q.pc /\ p.todo = q.todo
    BY <1>5, JobType DEF FdOnly, SameRequest, Requests, Sound
  <2> HIDE DEF p, IdIsThere, ListIsFit
  <2>2. ListIsFit
    BY <1>4, <2>1 DEF ListIsFit
  <2> QED BY <1>3, <1>5, <2>1, <2>2
<1>6. CASE SameRequest(i) /\ Acts1(i)
  <2>1. ASSUME NEW pc \in Pcs, Turns(i, pc)
        PROVE  IdIsThere /\ ListIsFit
    <3>1. /\ p.pc = pc /\ p.agent = q.agent /\ p.kind = q.kind
          /\ Turn(q, pc)
      BY <2>1, TurnsTo DEF Turns, Changes
    <3>2. p.pc # "clear"
      BY <3>1 DEF Turn, NextName
    <3>3. CASE q.pc = "name"
      <4> HIDE DEF p
      <4> QED BY <1>1, <3>1, <3>2, <3>3 DEF Turn, NamedPcs, WritingPcs
    <3>4. CASE q.pc # "name"
      <4>1. q.pc \in NamedPcs \/ p.pc \notin NamedPcs
        BY <3>1, <3>4 DEF Turn, NamedPcs, WritingPcs
      <4> HIDE DEF p, IdIsThere
      <4> QED BY <1>3, <1>6, <3>2, <4>1
    <3> QED BY <3>3, <3>4
  <2>2. ASSUME p.pc \in {"endow", "gas", "play", "seal"}
        PROVE  IdIsThere /\ ListIsFit
    BY <2>2 DEF NamedPcs, WritingPcs
  <2>3. ASSUME NEW doc \in Documents, Merges(i, doc)
        PROVE  IdIsThere /\ ListIsFit
    <3>1. q # Idle /\ p.pc = "open" /\ p.op = q.op /\ q.pc = "read"
      BY <2>3, MergesTo DEF Changes, Merges
    <3>2. q.op # "spawn"
      BY <3>1 DEF Sound, PlacesOK, Place, SpawnPcs, KeyedPcs, NamingPcs,
                  WritingPcs
    <3> HIDE DEF p
    <3> QED BY <3>1, <3>2
  <2>4. ASSUME NEW S \in SUBSET AllNames, Lists(i, S)
        PROVE  IdIsThere /\ ListIsFit
    <3>1. /\ q # Idle /\ q \in Requests /\ p.pc = "clear" /\ p.todo = S
          /\ q.pc = "aliases" /\ Place(i) /\ reg' = reg
          /\ S = IF names THEN AliasesOf(reg, row[q.agent].addr) ELSE {}
      BY <2>4, ListsTo DEF Changes, Lists, OnlyJob, Sound, PlacesOK
    <3>2. row[q.agent] # NoRow /\ q.agent \in Agents
      BY <3>1 DEF Place, Requests
    <3>3. \A n \in S : n \in DOMAIN reg.rec /\ (n \in Agents => ~Plain(n))
      BY <3>1, <3>2, ListedIsNoId
    <3> HIDE DEF p
    <3> QED BY <1>1, <3>1, <3>3 DEF NamedPcs, WritingPcs
  <2> HIDE DEF IdIsThere, ListIsFit
  <2> QED BY <1>6, <2>1, <2>2, <2>3, <2>4, LoadsTo, MeasuresTo, OpensTo,
      SealsTo
          DEF Acts1, Changes, What
<1>7. CASE SameRequest(i) /\ Acts2(i)
  <2> USE <1>7
  <2>1. ASSUME NEW what \in What, NEW r \in Requests, Pays(i, what, r)
        PROVE  IdIsThere /\ ListIsFit
    <3>1. p.pc \in {"fund", "name"}
      BY <2>1, PaysTo, NothingElseAssumption DEF Changes
    <3> HIDE DEF p
    <3> QED BY <3>1 DEF NamedPcs, WritingPcs
  <2>2. ASSUME NEW n \in AllNames, NEW x \in Addrs, NEW r \in Requests,
               NamesIt(i, n, x, r)
        PROVE  IdIsThere /\ ListIsFit
    <3>1. r # Idle
      BY NothingElseAssumption
    <3>2. /\ q # Idle /\ p.pc = AfterRegistration(q) /\ p.agent = q.agent
          /\ q.pc \in {"register", "registerAlias"}
      BY <2>2, <3>1, NamesTo DEF Changes, NamesIt, Registering
    <3>3. p.pc # "clear"
      BY <3>2 DEF AfterRegistration, NextName
    <3>4. CASE q.pc = "register"
      <4>1. n = q.agent
        BY <2>2, <3>4 DEF NamesIt, Registering
      <4>2. n \in DOMAIN reg'.rec
        BY <2>2, AfterRegister DEF NamesIt, Taken, Sound, TypeOK
      <4> HIDE DEF p
      <4> QED BY <3>2, <3>3, <4>1, <4>2
    <3>5. CASE q.pc = "registerAlias"
      <4>1. q.pc \in NamedPcs
        BY <3>5 DEF NamedPcs
      <4> HIDE DEF p, IdIsThere
      <4> QED BY <1>3, <3>3, <4>1
    <3> QED BY <3>2, <3>4, <3>5
  <2>3. ASSUME NEW n \in AllNames, NEW r \in Requests, Unnames(i, n, r)
        PROVE  IdIsThere /\ ListIsFit
    <3>1. r # Idle
      BY NothingElseAssumption
    <3>2. /\ q # Idle /\ q.pc = "clear" /\ p.pc = "clear"
          /\ p.todo = q.todo \ {n}
      BY <2>3, <3>1, UnnamesTo DEF Changes, Unnames
    <3>3. IdIsThere
      <4> HIDE DEF p
      <4> QED BY <3>2 DEF NamedPcs, WritingPcs
    <3> HIDE DEF p, IdIsThere, ListIsFit
    <3>4. p.todo \subseteq q.todo
      BY <3>2
    <3>5. ListIsFit
      BY <1>4, <3>2, <3>4 DEF ListIsFit
    <3> QED BY <3>3, <3>5
  <2>4. ASSUME WritesFile(i)
        PROVE  IdIsThere /\ ListIsFit
    <3>1. q # Idle /\ q \in Requests
      BY <2>4, JobType DEF WritesFile, Sound
    <3>2. q.pc \in WritingPcs /\ p.pc \in {"write", "rename", "token"}
      BY <2>4, <3>1 DEF WritesFile, WritingPcs, Requests
    <3>3. q.pc \in NamedPcs /\ p.pc # "clear"
      BY <3>2 DEF NamedPcs
    <3> HIDE DEF p, IdIsThere
    <3> QED BY <1>3, <3>3
  <2> HIDE DEF IdIsThere, ListIsFit
  <2> QED BY <2>1, <2>2, <2>3, <2>4 DEF Acts2
<1>8. SameRequest(i) =>
        \/ FdOnly(i) \/ Acts1(i) \/ Acts2(i)
        \/ \E ask \in Asks, doc \in {NoDoc} \cup Documents, pc \in Pcs :
             Starts(i, ask, doc, pc)
  BY WhoActs DEF Acts
<1>9. ASSUME NEW ask \in Asks, NEW doc \in {NoDoc} \cup Documents, NEW pc \in Pcs,
             Starts(i, ask, doc, pc)
      PROVE  ~SameRequest(i)
  BY <1>9 DEF Starts, SameRequest
<1> HIDE DEF IdIsThere, ListIsFit
<1> QED BY <1>2, <1>5, <1>6, <1>7, <1>8, <1>9

(* What is on the wire is about names as what a request does is.           *)
LEMMA NameOnWireStep ==
  ASSUME Sound, NamesOK, AKind, NEW tx \in wire'
  PROVE  NameOnWire(tx)'
<1>1. NameOnWire(tx)
  <2>1. ASSUME NEW j \in Jobs, tx \in Outgoing(j), tx.what = "register"
        PROVE  job[j] # Idle /\ Registering(job[j], tx.name, tx.to)
    BY <2>1 DEF Outgoing, Payment, Registration, Clearing, Registering
  <2>2. ASSUME NEW j \in Jobs, tx \in Outgoing(j), tx.what = "register"
        PROVE  NameOnWire(tx)
    BY <2>1, <2>2, Registrant DEF MayName, NameOnWire
  <2>3. ASSUME NEW j \in Jobs, tx \in Outgoing(j), tx.what = "clear"
        PROVE  job[j] # Idle /\ job[j].pc = "clear" /\ tx.name \in job[j].todo
    BY <2>3 DEF Outgoing, Payment, Registration, Clearing
  <2>4. ASSUME NEW j \in Jobs, tx \in Outgoing(j), tx.what = "clear"
        PROVE  NameOnWire(tx)
    BY <2>3, <2>4 DEF NamesOK, NameAt, NameOnWire
  <2>5. tx \in wire \/ \E j \in Jobs : tx \in Outgoing(j)
    BY WireStep DEF WireGrows
  <2> QED BY <2>2, <2>4, <2>5 DEF NamesOK, NameOnWire
<1>2. tx.what = "register" => tx.to \in Addrs /\ tx.to[1] \in Agents
  BY KeysStep DEF KeysOK, Addrs
<1>3. names' = names /\ DOMAIN reg.rec \subseteq DOMAIN reg'.rec
  BY Persists, RecGrows
<1>4. \A a \in Agents : ~Plain(a) => ~Plain(a)'
  BY PlainShrinks
<1> QED BY <1>1, <1>2, <1>3, <1>4 DEF NameOnWire

LEMMA NamesStep ==
  ASSUME Sound, NamesOK, AKind
  PROVE  NamesOK'
<1>1. ~names' => DOMAIN reg'.rec = {}
  <2> SUFFICES ASSUME ~names PROVE DOMAIN reg'.rec = {}
    BY Persists
  <2>1. DOMAIN reg.rec = {}
    BY DEF NamesOK
  <2>2. reg' = reg
    BY <2>1, RegistryStep DEF MayName, MayClear, MovesName
  <2> QED BY <2>1, <2>2
<1>2. \A a \in Agents : IdName(a)'
  BY IdNameStep
<1>3. \A i \in Jobs : NameAt(i)'
  BY NameAtStep
<1>4. \A tx \in wire' : NameOnWire(tx)'
  BY NameOnWireStep
<1> QED BY <1>1, <1>2, <1>3, <1>4 DEF NamesOK

LEMMA NamesAtFirst == Init => NamesOK
<1> SUFFICES ASSUME Init PROVE NamesOK
  OBVIOUS
<1>1. DOMAIN reg.rec = {} /\ DOMAIN reg.back = {}
  BY EmptyRegistry DEF Init
<1>2. \A a \in Agents : IdName(a)
  BY <1>1 DEF Init, IdName
<1> QED BY <1>1, <1>2 DEF Init, NamesOK, NameAt



-----------------------------------------------------------------------------
(* Retirement *)

LEMMA OwnNamesStep ==
  ASSUME Sound, NamesOK, OwnNames, AKind
  PROVE  OwnNames'
<1> DEFINE Own(r, n) == r.rec[n].target # NoAddr =>
             [name |-> n, owner |-> r.rec[n].target, target |-> r.rec[n].target]
               \in r.log
<1>1. RegistryOK(reg) /\ moved \subseteq moved'
  BY Persists DEF Sound, TypeOK
<1>2. \A n \in DOMAIN reg.rec \ moved : Own(reg, n)
  BY DEF OwnNames
<1> SUFFICES \A n \in DOMAIN reg'.rec \ moved' : Own(reg', n)
  BY DEF OwnNames
<1>3. ASSUME reg' = reg
      PROVE  \A n \in DOMAIN reg'.rec \ moved' : Own(reg', n)
  BY <1>1, <1>2, <1>3
<1>4. ASSUME NEW n, NEW x, MayName(n, x), Registered(n, x)
      PROVE  \A m \in DOMAIN reg'.rec \ moved' : Own(reg', m)
  <2>1. /\ n \notin DOMAIN reg.rec /\ reg' = RegisterFor(reg, n, x, x)
        /\ n \in AllNames /\ x \in Addrs /\ moved' = moved
    BY <1>4 DEF MayName, Registered, Taken
  <2> QED BY <1>1, <1>2, <2>1, AfterRegister
<1>5. ASSUME NEW n, MayClear(n), Cleared(n)
      PROVE  \A m \in DOMAIN reg'.rec \ moved' : Own(reg', m)
  <2>1. n \in DOMAIN reg.rec /\ reg' = SetTarget(reg, n, NoAddr)
    BY <1>5 DEF MayClear, Cleared
  <2> QED BY <1>1, <1>2, <2>1, AfterSetTarget
<1>6. ASSUME NEW a \in Agents, NEW b \in Agents, NEW n \in AllNames,
             MovesName(a, n, b)
      PROVE  \A m \in DOMAIN reg'.rec \ moved' : Own(reg', m)
  <2>1. n \in DOMAIN reg.rec /\ n \in moved' /\ row[b].addr \in Addrs
    BY <1>6, AddrOfRow DEF MovesName
  <2>2. reg' = SetTarget(reg, n, row[b].addr)
        \/ reg' = Transfer(reg, n, row[b].addr)
    BY <1>6 DEF MovesName
  <2> QED BY <1>1, <1>2, <2>1, <2>2, AfterSetTarget, AfterTransfer
<1> HIDE DEF Own
<1> QED BY <1>3, <1>4, <1>5, <1>6, RegistryStep

(* A retired wallet gets no new name that is not late or moved.            *)
LEMMA StillUnnamed ==
  ASSUME Sound, NamesOK, AKind, NEW a \in Agents, row[a] # NoRow,
         a \in retired, NEW S,
         PrimaryBut(reg, late \cup moved, row[a].addr, S)
  PROVE  PrimaryBut(reg', late' \cup moved', row[a].addr, S)
<1> DEFINE x == row[a].addr
<1>1. /\ RegistryOK(reg) /\ moved \subseteq moved' /\ late \subseteq late'
      /\ x \in Addrs /\ x # NoAddr /\ x[1] = a
  BY Persists, AddrOfRow, NothingElseAssumption DEF Sound, TypeOK
<1>2. ASSUME reg' = reg
      PROVE  PrimaryBut(reg', late' \cup moved', x, S)
  BY <1>1, <1>2 DEF PrimaryBut
<1>3. ASSUME NEW n, NEW y, MayName(n, y), Registered(n, y)
      PROVE  PrimaryBut(reg', late' \cup moved', x, S)
  <2>1. /\ n \notin DOMAIN reg.rec /\ reg' = RegisterFor(reg, n, y, y)
        /\ n \in AllNames /\ y \in Addrs
        /\ late' = IF y[1] \in retired THEN late \cup {n} ELSE late
    BY <1>3 DEF MayName, Registered, Taken
  <2>2. y = x => n \in late'
    BY <1>1, <2>1
  <2> HIDE DEF x
  <2> QED BY <1>1, <2>1, <2>2, AfterRegister DEF PrimaryBut, x
<1>4. ASSUME NEW n \in DOMAIN reg.rec, n \in moved' \/ reg'.rec[n].target # x,
             DOMAIN reg'.rec = DOMAIN reg.rec,
             \A m \in DOMAIN reg.rec \ {n} : reg'.rec[m] = reg.rec[m],
             \A y \in DOMAIN reg'.back : reg'.back[y] = reg.back[y],
             \A y \in DOMAIN reg.back : reg.back[y] # n => y \in DOMAIN reg'.back
      PROVE  PrimaryBut(reg', late' \cup moved', x, S)
  BY <1>1, <1>4 DEF PrimaryBut
<1>5. ASSUME NEW n, MayClear(n), Cleared(n)
      PROVE  PrimaryBut(reg', late' \cup moved', x, S)
  <2>1. n \in DOMAIN reg.rec /\ reg' = SetTarget(reg, n, NoAddr)
    BY <1>5 DEF MayClear, Cleared
  <2> QED BY <1>1, <1>4, <2>1, AfterSetTarget
<1>6. ASSUME NEW b \in Agents, NEW c \in Agents, NEW n \in AllNames,
             MovesName(b, n, c)
      PROVE  PrimaryBut(reg', late' \cup moved', x, S)
  <2>1. n \in DOMAIN reg.rec /\ n \in moved' /\ row[c].addr \in Addrs
    BY <1>6, AddrOfRow DEF MovesName
  <2>2. reg' = SetTarget(reg, n, row[c].addr)
        \/ reg' = Transfer(reg, n, row[c].addr)
    BY <1>6 DEF MovesName
  <2> QED BY <1>1, <1>4, <2>1, <2>2, AfterSetTarget, AfterTransfer
<1> QED BY <1>2, <1>3, <1>5, <1>6, RegistryStep

(* What a retirement does not list is the primary name, or late or moved.  *)
LEMMA ListedLeavesPrimary ==
  ASSUME Sound, NamesOK, OwnNames, NEW a \in Agents, row[a] # NoRow,
         NEW S, S = IF names THEN AliasesOf(reg, row[a].addr) ELSE {}
  PROVE  PrimaryBut(reg, late \cup moved, row[a].addr, S)
<1> DEFINE x == row[a].addr
<1> SUFFICES ASSUME NEW n \in (Aliases \ (late \cup moved \cup S))
                                \cap DOMAIN reg.rec,
                    reg.rec[n].target = x
             PROVE  x \in DOMAIN reg.back /\ reg.back[x] = n
  BY DEF PrimaryBut
<1>1. x # NoAddr /\ names
  BY AddrOfRow, NothingElseAssumption DEF NamesOK
<1>2. [name |-> n, owner |-> x, target |-> x] \in reg.log
  BY <1>1 DEF OwnNames
<1>3. Resolve(reg, n) = x
  BY DEF Resolve
<1>4. n = ReverseOf(reg, x)
  <2> SUFFICES ASSUME n # ReverseOf(reg, x) PROVE FALSE
    OBVIOUS
  <2> DEFINE e == [name |-> n, owner |-> x, target |-> x]
  <2>1. e \in reg.log /\ e.owner = x /\ e.target = x /\ e.name = n
    BY <1>2
  <2> HIDE DEF e, x
  <2>2. n \in AliasesOf(reg, x)
    BY <1>3, <2>1 DEF AliasesOf
  <2> QED BY <1>1, <2>2 DEF x
<1>5. n # NoName
  BY NoNameIsNone DEF AllNames
<1> QED BY <1>4, <1>5 DEF ReverseOf

RetiringAt(i) ==
  job[i] # Idle /\ job[i].pc = "clear" => UnnamedBut(job[i].agent, job[i].todo)

LEMMA RetiringAtStep ==
  ASSUME Sound, NamesOK, RetireOK, AKind, NEW i \in Jobs
  PROVE  RetiringAt(i)'
<1> DEFINE q == job[i]
           p == job'[i]
           Bare(a, S) ==
             /\ row'[a] # NoRow /\ a \in retired'
             /\ PrimaryBut(reg', late' \cup moved', row'[a].addr, S)
<1> SUFFICES ASSUME p # Idle, p.pc = "clear"
             PROVE  Bare(p.agent, p.todo)
  BY DEF RetiringAt, UnnamedBut
<1>1. ASSUME q # Idle, q \in Requests, q.pc = "clear", p.agent = q.agent,
             p.todo = q.todo
      PROVE  Bare(p.agent, p.todo)
  <2>1. UnnamedBut(q.agent, q.todo) /\ q.agent \in Agents
    BY <1>1 DEF RetireOK, Requests
  <2>2. row'[q.agent] = row[q.agent] /\ q.agent \in retired'
    BY <2>1, Persists DEF UnnamedBut
  <2>3. PrimaryBut(reg', late' \cup moved', row[q.agent].addr, q.todo)
    BY <2>1, StillUnnamed DEF UnnamedBut
  <2> HIDE DEF p
  <2> QED BY <1>1, <2>1, <2>2, <2>3 DEF UnnamedBut, p
<1>2. CASE FdOnly(i)
  <2>1. q # Idle /\ q \in Requests /\ p.pc = q.pc /\ p.agent = q.agent
        /\ p.todo = q.todo
    BY <1>2, JobType DEF FdOnly, Requests, Sound
  <2> QED BY <1>1, <2>1
<1>3. ASSUME NEW S \in SUBSET AllNames, Lists(i, S)
      PROVE  Bare(p.agent, p.todo)
  <2>1. /\ q # Idle /\ q \in Requests /\ p.agent = q.agent /\ p.todo = S
        /\ q.pc = "aliases" /\ Place(i) /\ UNCHANGED <<reg, row, retired, late,
                                                       moved>>
        /\ S = IF names THEN AliasesOf(reg, row[q.agent].addr) ELSE {}
    BY <1>3, ListsTo DEF Changes, Lists, OnlyJob, Sound, PlacesOK
  <2>2. row[q.agent] # NoRow /\ q.agent \in Agents /\ q.agent \in retired
    BY <2>1 DEF Place, Requests, Ops, SpawnPcs, KeyedPcs, NamingPcs, WritingPcs
  <2>3. PrimaryBut(reg, late \cup moved, row[q.agent].addr, S)
    BY <2>1, <2>2, ListedLeavesPrimary DEF RetireOK
  <2> HIDE DEF p
  <2> QED BY <2>1, <2>2, <2>3 DEF UnnamedBut, p
<1>4. ASSUME NEW n \in AllNames, NEW r \in Requests, Unnames(i, n, r)
      PROVE  Bare(p.agent, p.todo)
  <2>1. r # Idle
    BY NothingElseAssumption
  <2>2. /\ q # Idle /\ q \in Requests /\ q.pc = "clear" /\ p.agent = q.agent
        /\ p.todo = q.todo \ {n} /\ reg' = SetTarget(reg, n, NoAddr)
        /\ n \in q.todo
    BY <1>4, <2>1, UnnamesTo DEF Changes, Unnames
  <2>3. UnnamedBut(q.agent, q.todo) /\ q.agent \in Agents
    BY <2>2 DEF RetireOK, Requests
  <2>4. row'[q.agent] = row[q.agent] /\ q.agent \in retired'
    BY <2>3, Persists DEF UnnamedBut
  <2>5. PrimaryBut(reg', late' \cup moved', row[q.agent].addr, q.todo)
    BY <2>3, StillUnnamed DEF UnnamedBut
  <2>6. reg'.rec[n].target # row[q.agent].addr
    <3>1. n \in DOMAIN reg.rec
      BY <2>2 DEF NamesOK, NameAt
    <3>2. reg'.rec[n].target = NoAddr
      BY <2>2, <3>1, AfterSetTarget DEF Sound, TypeOK
    <3> QED BY <2>3, <3>2, AddrOfRow, NothingElseAssumption DEF UnnamedBut
  <2>7. PrimaryBut(reg', late' \cup moved', row[q.agent].addr, q.todo \ {n})
    BY <2>5, <2>6 DEF PrimaryBut
  <2> HIDE DEF p
  <2> QED BY <2>2, <2>3, <2>4, <2>7 DEF UnnamedBut, p
<1>5. ASSUME NEW ask \in Asks, NEW doc \in {NoDoc} \cup Documents, NEW pc \in Pcs,
             Starts(i, ask, doc, pc)
      PROVE  FALSE
  <2>1. p = NewJob(ask, doc, pc)
    BY <1>5, PutFacts DEF Starts, Sound
  <2> QED BY <1>5, <2>1 DEF Starts, NewJob
<1>6. ASSUME NEW pc \in Pcs, Turns(i, pc)
      PROVE  FALSE
  BY <1>6, TurnsTo DEF Changes, Turns, Turn, NextName
<1>7. ASSUME NEW what \in What, NEW r \in Requests, Pays(i, what, r)
      PROVE  FALSE
  BY <1>7, PaysTo, NothingElseAssumption DEF Changes
<1>8. ASSUME NEW n \in AllNames, NEW x \in Addrs, NEW r \in Requests,
             NamesIt(i, n, x, r)
      PROVE  FALSE
  BY <1>8, NamesTo, NothingElseAssumption
  DEF Changes, AfterRegistration, NextName
<1>9. ASSUME WritesFile(i)
      PROVE  FALSE
  <2>1. q # Idle /\ q \in Requests
    BY <1>9, JobType DEF WritesFile, Sound
  <2> QED BY <1>9, <2>1 DEF WritesFile, Requests
<1>10. CASE Acts1(i)
  BY <1>3, <1>6, <1>10, LoadsTo, MeasuresTo, MergesTo, OpensTo, SealsTo
  DEF Acts1, Changes, What
<1> QED BY <1>2, <1>4, <1>5, <1>7, <1>8, <1>9, <1>10, WhoActs DEF Acts, Acts2

LEMMA RetireStep ==
  ASSUME Sound, NamesOK, RetireOK, AKind
  PROVE  RetireOK'
<1>1. OwnNames'
  BY OwnNamesStep DEF RetireOK
<1>2. \A i \in Jobs : RetiringAt(i)'
  BY RetiringAtStep
<1>3. ASSUME NEW a \in Agents, UnnamedBut(a, {})
      PROVE  UnnamedBut(a, {})'
  <2>1. row'[a] = row[a] /\ a \in retired'
    BY <1>3, Persists DEF UnnamedBut
  <2>2. PrimaryBut(reg', late' \cup moved', row[a].addr, {})
    BY <1>3, StillUnnamed DEF UnnamedBut
  <2> QED BY <1>3, <2>1, <2>2 DEF UnnamedBut
<1>4. \A a \in gone' : UnnamedBut(a, {})'
  <2>1. gone \subseteq Agents
    BY DEF Sound, TypeOK
  <2>2. ASSUME NEW j \in Jobs, Retires(j)
        PROVE  /\ gone' = gone \cup {job[j].agent}
               /\ job[j].agent \in Agents /\ UnnamedBut(job[j].agent, {})
    BY <2>2, JobType DEF Retires, RetireOK, Sound
  <2> QED BY <1>3, <2>1, <2>2, StepGrows DEF RetireOK, Grows
<1> QED BY <1>1, <1>2, <1>4 DEF RetireOK, RetiringAt

LEMMA RetireAtFirst == Init => RetireOK
<1> SUFFICES ASSUME Init PROVE RetireOK
  OBVIOUS
<1>1. DOMAIN reg.rec = {}
  BY EmptyRegistry DEF Init
<1> QED BY <1>1 DEF Init, RetireOK, OwnNames



-----------------------------------------------------------------------------
(* The policy file *)

(* Two writes of one wallet in hand: the wallet is clashed.                *)
LEMMA OneWriter ==
  ASSUME Sound, PolicyOK, AKind, NEW i \in Jobs, NEW k \in Jobs, i # k,
         Writer(i)', Writer(k)', job'[i].agent = job'[k].agent
  PROVE  job'[i].agent \in clashed'
<1>1. ASSUME NEW m \in Jobs, NEW l \in Jobs, m # l, Writer(m)', Writer(l)',
             job'[m].agent = job'[l].agent,
             \E ask \in Asks, doc \in {NoDoc} \cup Documents, pc \in Pcs :
               Starts(m, ask, doc, pc)
      PROVE  job'[m].agent \in clashed'
  <2>1. PICK ask \in Asks, doc \in {NoDoc} \cup Documents, pc \in Pcs :
          Starts(m, ask, doc, pc)
    BY <1>1
  <2>2. job'[m] = NewJob(ask, doc, pc) /\ job'[l] = job[l]
    BY <1>1, <2>1, PutFacts DEF Starts, Sound
  <2>3. /\ job'[m].agent = ask.agent
        /\ ask.op \in {"patch", "clear"} \/ ask.doc # NoDoc
    BY <1>1, <2>1, <2>2 DEF NewJob, Writer, Starts
  <2>4. l \in Writing(ask.agent)
    BY <1>1, <2>2, <2>3 DEF Writing, InHand, Writer
  <2> QED BY <2>1, <2>3, <2>4 DEF Starts
<1>2. CASE SameRequest(i) /\ SameRequest(k)
  <2>1. Writer(i) /\ Writer(k) /\ job[i].agent = job[k].agent
        /\ job'[i].agent = job[i].agent
    BY <1>2 DEF Writer, SameRequest
  <2>2. job[i].agent \in clashed
    BY <2>1 DEF PolicyOK, WriteAt
  <2> QED BY <2>1, <2>2, Persists
<1> QED BY <1>1, <1>2, RequestsStay DEF Writer

(* The files of a wallet are touched by its own writers only.              *)
LEMMA FileStays ==
  ASSUME Sound, AKind, NEW a \in Agents,
         \A j \in Jobs : WritesFile(j) => job[j].agent # a
  PROVE  policy'[a] = policy[a] /\ temp'[a] = temp[a] /\ owed'[a] = owed[a]
<1>1. ASSUME NEW j \in Jobs, WritesFile(j)
      PROVE  policy'[a] = policy[a] /\ temp'[a] = temp[a] /\ owed'[a] = owed[a]
  <2>1. job[j].agent # a /\ job[j].agent \in Agents
    BY <1>1, JobType DEF WritesFile, Sound
  <2> QED BY <1>1, <2>1 DEF WritesFile, Sound, TypeOK
<1> QED BY <1>1, StepGrows DEF Grows

LEMMA WritersWrite ==
  ASSUME Sound, NEW j \in Jobs, WritesFile(j)
  PROVE  /\ Writer(j) /\ job[j].agent \in Agents /\ job[j] \in Requests
         /\ job[j].pc \in WritingPcs =>
              job[j].op \in {"spawn", "patch"} /\ job[j].doc \in Documents
<1>1. /\ job[j] # Idle /\ job[j] \in Requests /\ job[j].agent \in Agents
      /\ Place(j) /\ job[j].doc \in {NoDoc} \cup Documents
      /\ job[j].pc \in {"open", "write", "rename", "rm"}
  BY JobType DEF WritesFile, Sound, PlacesOK
<1>2. CASE job[j].pc = "rm"
  BY <1>1, <1>2
  DEF Place, Requests, Ops, SpawnPcs, KeyedPcs, NamingPcs, WritingPcs, Writer
<1>3. CASE job[j].pc \in WritingPcs
  BY <1>1, <1>3 DEF Place, Requests, Ops, WritingPcs, Writer
<1> QED BY <1>1, <1>2, <1>3 DEF WritingPcs


LEMMA WriteAtStep ==
  ASSUME Sound, PolicyOK, AKind, NEW i \in Jobs
  PROVE  WriteAt(i)'
<1> DEFINE q == job[i]
           p == job'[i]
           a == job[i].agent
           Fit ==
             /\ p.pc = "write" => p.fd = "temp" /\ temp'[a] = Empty
             /\ p.pc = "rename" => temp'[a] = p.doc
             /\ p.op = "patch" /\ p.pc \in WritingPcs => owed'[a] \subseteq p.doc
<1> SUFFICES ASSUME Writer(i)', p.agent \notin clashed'
             PROVE  WriteAt(i)'
  BY DEF WriteAt
<1>1. \A k \in Jobs : Writer(k)' /\ job'[k].agent = p.agent => k = i
  BY OneWriter
<1>2. CASE ~SameRequest(i)
  <2>1. PICK ask \in Asks, doc \in {NoDoc} \cup Documents, pc \in Pcs :
          Starts(i, ask, doc, pc)
    BY <1>2, RequestsStay DEF Writer
  <2>2. p = NewJob(ask, doc, pc)
    BY <2>1, PutFacts DEF Starts, Sound
  <2>3. p.pc \in {"key", "read", "rm", "look", "retired", "aliases"}
    BY <2>1, <2>2 DEF Starts, NewJob
  <2> HIDE DEF p
  <2> QED BY <1>1, <2>3 DEF WriteAt, WritingPcs, p
<1>3. CASE SameRequest(i)
  <2>1. /\ Writer(i) /\ p.agent = a /\ p.op = q.op /\ q # Idle
        /\ q \in Requests /\ a \in Agents /\ a \notin clashed /\ Place(i)
    BY <1>3, JobType, Persists DEF SameRequest, Writer, Sound, PlacesOK
  <2>2. /\ \A k \in Jobs : Writer(k) /\ job[k].agent = a => k = i
        /\ q.pc = "write" => q.fd = "temp" /\ temp[a] = Empty
        /\ q.pc = "rename" => temp[a] = q.doc
        /\ q.op = "patch" /\ q.pc \in WritingPcs => owed[a] \subseteq q.doc
    BY <2>1 DEF PolicyOK, WriteAt
  <2> SUFFICES Fit
    <3> HIDE DEF p
    <3> QED BY <1>1, <2>1 DEF WriteAt, p
  <2>3. \A j \in Jobs : WritesFile(j) /\ job[j].agent = a => j = i
    BY <2>2, WritersWrite
  <2>4. CASE WritesFile(i)
    <3>1. CASE q.pc = "open"
      <4>1. /\ p = [q EXCEPT !.pc = "write", !.fd = "temp"]
            /\ temp' = [temp EXCEPT ![a] = Empty] /\ owed' = owed
        BY <2>4, <3>1 DEF WritesFile
      <4>2. p.pc = "write" /\ p.fd = "temp" /\ p.doc = q.doc
        BY <2>1, <4>1 DEF Requests
      <4>3. temp'[a] = Empty /\ owed'[a] = owed[a]
        BY <2>1, <4>1 DEF Sound, TypeOK
      <4> HIDE DEF p
      <4> QED BY <2>1, <2>2, <3>1, <4>2, <4>3 DEF WritingPcs
    <3>2. CASE q.pc = "write"
      <4>1. /\ p = [q EXCEPT !.pc = "rename", !.fd = "none"]
            /\ owed' = owed
            /\ q.fd = "temp" => temp'[a] \in Written(temp[a], q.doc)
        BY <2>4, <3>2 DEF WritesFile
      <4>2. p.pc = "rename" /\ p.doc = q.doc
        BY <2>1, <4>1 DEF Requests
      <4>3. temp'[a] = q.doc
        BY <2>2, <3>2, <4>1 DEF Written
      <4> HIDE DEF p
      <4> QED BY <2>1, <2>2, <3>2, <4>1, <4>2, <4>3 DEF WritingPcs
    <3>3. CASE q.pc = "rename"
      <4>1. p = [q EXCEPT !.pc = "token"]
        BY <1>3, <2>4, <3>3 DEF WritesFile, SameRequest
      <4>2. p.pc = "token"
        BY <2>1, <4>1 DEF Requests
      <4> HIDE DEF p
      <4> QED BY <4>2 DEF WritingPcs
    <3>4. CASE q.pc = "rm"
      BY <1>3, <2>4, <3>4 DEF WritesFile, SameRequest
    <3> QED BY <2>4, <3>1, <3>2, <3>3, <3>4 DEF WritesFile
  <2>5. CASE ~WritesFile(i)
    <3>1. temp'[a] = temp[a] /\ owed'[a] = owed[a]
      BY <2>1, <2>3, <2>5, FileStays
    <3>2. ASSUME p = q
          PROVE  Fit
      BY <2>2, <3>1, <3>2
    <3>3. Beside(i) => p = q
      BY <2>3 DEF Beside
    <3>4. ASSUME p.pc \notin {"write", "rename"},
                 p.op = "patch" => p.pc # "open"
          PROVE  Fit
      BY <3>4 DEF WritingPcs
    <3>5. ASSUME NEW doc \in Documents, Merges(i, doc)
          PROVE  Fit
      <4>1. /\ p.pc = "open" /\ p.doc = doc
            /\ doc = Merged(Effective(a), q.doc)
        BY <3>5, MergesTo DEF Changes, Merges
      <4>2. owed[a] \subseteq Effective(a)
        BY <2>1 DEF PolicyOK, PolicyKept
      <4> HIDE DEF p
      <4> QED BY <3>1, <4>1, <4>2 DEF Merged
    <3>6. ASSUME q.pc \in KeyedPcs \ WritingPcs
          PROVE  p.op # "patch"
      BY <2>1, <3>6, AddrOfJob
    <3>7. ASSUME NEW pc \in Pcs, Turns(i, pc)
          PROVE  Fit
      <4>1. p.pc = pc /\ Turn(q, pc)
        BY <3>7, TurnsTo DEF Changes, Turns
      <4>2. pc \notin {"write", "rename"}
        BY <4>1 DEF Turn, NextName
      <4>3. pc = "open" => q.pc \in {"name", "alias"}
        BY <4>1 DEF Turn, NextName
      <4> HIDE DEF p, Fit
      <4> QED BY <3>4, <3>6, <4>1, <4>2, <4>3
              DEF KeyedPcs, NamingPcs, WritingPcs
    <3>8. CASE Acts1(i)
      <4> HIDE DEF Fit
      <4> QED BY <3>4, <3>5, <3>7, <3>8, LoadsTo, MeasuresTo, ListsTo, OpensTo,
                 SealsTo DEF Acts1, Changes, What
    <3>9. ASSUME NEW what \in What, NEW r \in Requests, Pays(i, what, r)
          PROVE  Fit
      <4>1. p.pc \in {"fund", "name"}
        BY <3>9, PaysTo, NothingElseAssumption DEF Changes
      <4> HIDE DEF Fit, p
      <4> QED BY <3>4, <4>1
    <3>10. ASSUME NEW n \in AllNames, NEW x \in Addrs, NEW r \in Requests,
                  NamesIt(i, n, x, r)
           PROVE  Fit
      <4>1. r # Idle
        BY NothingElseAssumption
      <4>2. p.pc = AfterRegistration(q) /\ q.pc \in {"register", "registerAlias"}
        BY <3>10, <4>1, NamesTo DEF Changes, NamesIt, Registering
      <4>3. p.pc \notin {"write", "rename"}
        BY <4>2 DEF AfterRegistration, NextName
      <4> HIDE DEF Fit, p
      <4> QED BY <3>4, <3>6, <4>2, <4>3 DEF KeyedPcs, NamingPcs, WritingPcs
    <3>11. ASSUME NEW n \in AllNames, NEW r \in Requests, Unnames(i, n, r)
           PROVE  Fit
      <4>1. p.pc = "clear"
        BY <3>11, UnnamesTo, NothingElseAssumption DEF Changes
      <4> HIDE DEF Fit, p
      <4> QED BY <3>4, <4>1
    <3>12. ASSUME NEW ask \in Asks, NEW doc \in {NoDoc} \cup Documents,
                  NEW pc \in Pcs, Starts(i, ask, doc, pc)
           PROVE  FALSE
      BY <3>12, <2>1 DEF Starts
    <3> HIDE DEF Fit
    <3> QED BY <1>3, <2>5, <3>2, <3>3, <3>8, <3>9, <3>10, <3>11, <3>12,
               WhoActsExactly DEF Acts, Acts2, SameRequest
  <2> QED BY <2>4, <2>5
<1> QED BY <1>2, <1>3

(* What is in force for a wallet whose file can be read is a document.     *)
InForce(file, r) ==
  IF file # NoFile THEN file ELSE IF r = NoRow THEN {} ELSE Defaults[r.kind]

LEMMA InForceIsDocument ==
  ASSUME NEW file \in {NoFile} \cup Documents, NEW r \in Rows \cup {NoRow}
  PROVE  InForce(file, r) \in Documents /\ InForce(file, r) \notin Unreadable
<1>1. InForce(file, r) \in Documents
  BY WalletsAssumption DEF InForce, Rows, Documents
<1> QED BY <1>1, NothingElseAssumption DEF Unreadable, Documents

LEMMA PolicyKeptStep ==
  ASSUME Sound, PolicyOK, AKind, TypeOK'
  PROVE  PolicyKept'
<1> SUFFICES ASSUME NEW a \in Agents, a \notin clashed'
             PROVE  Effective(a)' \notin Unreadable /\ owed'[a] \subseteq Effective(a)'
  BY DEF PolicyKept
<1>1. a \notin clashed /\ Effective(a) \notin Unreadable
      /\ owed[a] \subseteq Effective(a)
  BY Persists DEF PolicyOK, PolicyKept
<1>2. ASSUME policy'[a] = policy[a], owed'[a] = owed[a]
      PROVE  Effective(a)' \notin Unreadable /\ owed'[a] \subseteq Effective(a)'
  <2>1. CASE row[a] # NoRow \/ policy[a] # NoFile
    <3>1. row[a] # NoRow => row'[a] = row[a]
      BY Persists
    <3>2. Effective(a)' = Effective(a)
      BY <1>2, <2>1, <3>1 DEF Effective
    <3> QED BY <1>1, <1>2, <3>2
  <2>2. CASE row[a] = NoRow /\ policy[a] = NoFile
    <3>1. owed'[a] = {}
      BY <1>1, <1>2, <2>2 DEF Effective
    <3>2. policy'[a] = NoFile /\ row'[a] \in Rows \cup {NoRow}
      BY <1>2, <2>2 DEF TypeOK
    <3>3. Effective(a)' \notin Unreadable
      BY <3>2, InForceIsDocument DEF Effective, InForce
    <3> QED BY <3>1, <3>3
  <2> QED BY <2>1, <2>2
<1>3. ASSUME NEW j \in Jobs, WritesFile(j), job[j].agent = a
      PROVE  Effective(a)' \notin Unreadable /\ owed'[a] \subseteq Effective(a)'
  <2> DEFINE q == job[j]
  <2>1. /\ Writer(j) /\ q \in Requests
        /\ q.pc \in WritingPcs => q.op \in {"spawn", "patch"} /\ q.doc \in Documents
    BY <1>3, WritersWrite
  <2>2. /\ q.pc = "write" => q.fd = "temp"
        /\ q.pc = "rename" => temp[a] = q.doc
        /\ q.op = "patch" /\ q.pc \in WritingPcs => owed[a] \subseteq q.doc
    BY <1>1, <1>3, <2>1 DEF PolicyOK, WriteAt
  <2>3. CASE q.pc \in {"open", "write"}
    <3>1. policy' = policy /\ owed' = owed
      BY <1>3, <2>2, <2>3 DEF WritesFile
    <3> QED BY <1>2, <3>1
  <2>4. CASE q.pc = "rename"
    <3>1. /\ policy'[a] = q.doc
          /\ owed'[a] = IF q.op = "spawn" THEN q.doc ELSE owed[a] \cup q.doc
          /\ q.doc \in Documents
      BY <1>3, <2>1, <2>2, <2>4 DEF WritesFile, Sound, TypeOK, WritingPcs
    <3>2. q.doc # NoFile /\ q.doc \notin Unreadable
      BY <3>1, NothingElseAssumption DEF Documents, Unreadable
    <3>3. Effective(a)' = q.doc
      BY <3>1, <3>2 DEF Effective
    <3> QED BY <2>1, <2>2, <2>4, <3>1, <3>2, <3>3 DEF WritingPcs
  <2>5. CASE q.pc = "rm"
    <3>1. policy'[a] = NoFile /\ owed'[a] = {}
      BY <1>3, <2>5 DEF WritesFile, Sound, TypeOK
    <3>2. row'[a] \in Rows \cup {NoRow}
      BY DEF TypeOK
    <3>3. Effective(a)' \notin Unreadable
      BY <3>1, <3>2, InForceIsDocument DEF Effective, InForce
    <3> QED BY <3>1, <3>3
  <2> QED BY <1>3, <2>3, <2>4, <2>5 DEF WritesFile
<1> QED BY <1>2, <1>3, FileStays

LEMMA PolicyStep ==
  ASSUME Sound, PolicyOK, AKind, TypeOK'
  PROVE  PolicyOK'
<1>1. \A i \in Jobs : WriteAt(i)'
  BY WriteAtStep
<1> QED BY <1>1, PolicyKeptStep DEF PolicyOK

LEMMA PolicyAtFirst == Init => PolicyOK
<1> SUFFICES ASSUME Init PROVE PolicyOK
  OBVIOUS
<1>1. \A a \in Agents : policy[a] = NoFile /\ row[a] = NoRow /\ owed[a] = {}
  BY DEF Init
<1>2. \A a \in Agents : Effective(a) \notin Unreadable
  BY <1>1, InForceIsDocument DEF Effective, InForce
<1> QED BY <1>1, <1>2 DEF Init, PolicyOK, PolicyKept, WriteAt, Writer



-----------------------------------------------------------------------------
(* The invariant *)

LEMMA InvAtFirst == Init => Inv
BY SoundAtFirst, MoneyAtFirst, NamesAtFirst, RetireAtFirst, PolicyAtFirst
DEF Inv

LEMMA NextKeepsInv == Inv /\ [Next]_vars => Inv'
<1> SUFFICES ASSUME Inv, [Next]_vars PROVE Inv'
  OBVIOUS
<1>1. Sound /\ MoneyOK /\ NamesOK /\ RetireOK /\ PolicyOK
  BY DEF Inv
<1>2. AKind
  BY <1>1, NextIsAKind DEF Sound
<1>3. TypeOK' /\ PlacesOK' /\ KeysOK'
  BY <1>1, <1>2, TypeStep, PlacesStep, KeysStep
<1>4. MoneyOK' /\ NamesOK' /\ RetireOK' /\ PolicyOK'
  BY <1>1, <1>2, <1>3, MoneyStep, NamesStep, RetireStep, PolicyStep
<1> QED BY <1>3, <1>4 DEF Inv, Sound

(* Types, the place of each request and what it has seen, the keys, the    *)
(* money, the names, the retirements and the policy files, together: each  *)
(* part needs others to be kept.                                           *)
THEOREM InvHolds == Spec => []Inv
BY InvAtFirst, NextKeepsInv, PTL DEF Spec

-----------------------------------------------------------------------------
(* What the service promises *)

LEMMA WholeIfInv == Inv => SpawnedIsWhole
<1> SUFFICES ASSUME Inv, NEW a \in Agents, row[a] # NoRow PROVE Whole(a)
  BY DEF SpawnedIsWhole
<1> DEFINE x == row[a].addr
<1>1. keyfile[a] = x
  BY AddrOfRow DEF Inv
<1>2. /\ Balance(x, "gas") >= Gas /\ Balance(x, "play") >= row[a].fund
      /\ token[a] # 0
  BY DEF Inv, MoneyOK, MarkedIsFunded, Bal, Balance
<1>3. ASSUME names, row[a].kind # "burner", a \notin moved
      PROVE  Resolve(reg, a) = x /\ ReverseOf(reg, x) = a
  BY <1>1, <1>3 DEF Inv, NamesOK, IdName, Plain, Resolve, ReverseOf
<1> QED BY <1>1, <1>2, <1>3 DEF Whole

(* spawn (spawn.ts:139-282) writes the marker last.  Whatever died, failed *)
(* or was run twice before it, and whoever else was at work on the wallet, *)
(* a marked wallet has its key file, its gas, what its spawn asked for, a  *)
(* token, and - unless it is a burner or its owner moved it - its id as a  *)
(* name that pays it and is its address's primary one.                     *)
THEOREM SpawnIsWhole == Spec => []SpawnedIsWhole
BY InvHolds, WholeIfInv, PTL

(* Money goes only to an address whose key is kept, even when two spawns   *)
(* of a wallet race for the key file; and a wallet that never had two      *)
(* spawns at once was given no more than one ration of gas and the most    *)
(* any of its spawns asked for, however often they were retried.           *)
THEOREM MoneyIsGivenOnce == Spec => []FundedOnce
<1>1. Inv => FundedOnce
  BY DEF Inv, Sound, KeysOK, MoneyOK, FundedOnce
<1> QED BY <1>1, InvHolds, PTL

(* A reader of a policy finds a whole document with every field that       *)
(* answered writes have set, at any moment of any write and after any      *)
(* crash, for a wallet that never had two policy writes in hand at once.   *)
THEOREM PolicyIsKept == Spec => []PolicyKept
<1>1. Inv => PolicyKept
  BY DEF Inv, PolicyOK
<1> QED BY <1>1, InvHolds, PTL

(* Once a retirement is answered, no alias pays the wallet but its primary *)
(* name, those registered after the freeze and those an owner moved.       *)
LEMMA UnnamedIfInv == Inv => RetiredIsUnnamed
<1> SUFFICES ASSUME Inv, NEW a \in gone, NEW n \in Aliases \ (late \cup moved),
                    Resolve(reg, n) = row[a].addr
             PROVE  ReverseOf(reg, row[a].addr) = n
  BY DEF RetiredIsUnnamed
<1>1. UnnamedBut(a, {}) /\ a \in Agents
  BY DEF Inv, RetireOK, Sound, TypeOK
<1>2. row[a].addr # NoAddr
  BY <1>1, AddrOfRow, NothingElseAssumption DEF UnnamedBut, Inv
<1>3. n \in DOMAIN reg.rec /\ reg.rec[n].target = row[a].addr
  BY <1>2 DEF Resolve
<1>4. row[a].addr \in DOMAIN reg.back /\ reg.back[row[a].addr] = n
  BY <1>1, <1>3 DEF UnnamedBut, PrimaryBut
<1> QED BY <1>4 DEF ReverseOf

(* A wallet whose retirement was answered is paid under no alias it had    *)
(* when it was retired, but for a burner's primary name (spawn.ts:302-328).*)
THEOREM RetirementUnnames == Spec => []RetiredIsUnnamed
BY InvHolds, UnnamedIfInv, PTL

-----------------------------------------------------------------------------
(* Redirection *)

(* At most one name changes what it stands for, and not from one address   *)
(* to another.                                                             *)
OneNameTurns ==
  \E n : /\ \A m : m # n => Resolve(reg', m) = Resolve(reg, m)
         /\ \/ Resolve(reg', n) = Resolve(reg, n)
            \/ Resolve(reg', n) = NoAddr \/ Resolve(reg, n) = NoAddr

LEMMA LandsOnOneName ==
  ASSUME NEW tx, Lands(tx), RegistryOK(reg),
         tx.what = "clear" => tx.name \in DOMAIN reg.rec
  PROVE  OneNameTurns
<1>1. CASE reg' = reg
  BY <1>1 DEF OneNameTurns
<1>2. CASE /\ ~Taken(reg, tx.name)
           /\ reg' = RegisterFor(reg, tx.name, tx.to, tx.to)
  <2>1. reg'.rec = With(reg.rec, tx.name, [owner |-> tx.to, target |-> tx.to])
    BY <1>2 DEF RegisterFor
  <2>2. \A m : m # tx.name => Resolve(reg', m) = Resolve(reg, m)
    BY <2>1 DEF Resolve, With
  <2>3. Resolve(reg, tx.name) = NoAddr
    BY <1>2 DEF Resolve, Taken
  <2> QED BY <2>2, <2>3 DEF OneNameTurns
<1>3. CASE tx.what = "clear" /\ reg' = SetTarget(reg, tx.name, NoAddr)
  <2>1. /\ DOMAIN reg'.rec = DOMAIN reg.rec /\ reg'.rec[tx.name].target = NoAddr
        /\ \A m \in DOMAIN reg.rec \ {tx.name} : reg'.rec[m] = reg.rec[m]
    BY <1>3, AfterSetTarget
  <2>2. \A m : m # tx.name => Resolve(reg', m) = Resolve(reg, m)
    BY <2>1 DEF Resolve
  <2>3. Resolve(reg', tx.name) = NoAddr
    BY <2>1 DEF Resolve
  <2> QED BY <2>2, <2>3 DEF OneNameTurns
<1> QED BY <1>1, <1>2, <1>3 DEF Lands

LEMMA RegistersOneName ==
  ASSUME Inv, NEW j, NEW pc, NEW name, NEW addr, NEW job1,
         Registers(j, pc, name, addr, job1)
  PROVE  OneNameTurns
<1> DEFINE tx == Registration(name, addr)
<1>1. reg' = reg \/ Lands(tx)
  BY DEF Registers, Submits, chain
<1>2. tx.what # "clear" /\ RegistryOK(reg)
  BY DEF Registration, Inv, Sound, TypeOK
<1> HIDE DEF tx
<1>3. CASE reg' = reg
  BY <1>3 DEF OneNameTurns
<1> QED BY <1>1, <1>2, <1>3, LandsOnOneName

(* Whatever is not an owner's own move turns at most one name.             *)
LEMMA OnlyOwnersRedirect ==
  ASSUME Inv, [Next]_vars
  PROVE  OneNameTurns \/ \E a \in Agents : OwnerMoves(a)
<1>1. ASSUME reg' = reg
      PROVE  OneNameTurns
  BY <1>1 DEF OneNameTurns
<1>2. ASSUME NEW j \in Jobs, Arrives(j)
      PROVE  OneNameTurns
  BY <1>1, <1>2
  DEF Arrives, SpawnArrives, PatchArrives, ClearArrives, AliasArrives,
      RetireArrives, Begin, chain
<1>3. ASSUME NEW j \in Jobs, Spawns(j)
      PROVE  OneNameTurns
  <2>1. CASE SpawnNames(j)
    <3>1. CASE SpawnSkipsNames(j)
      BY <1>1, <3>1 DEF SpawnSkipsNames, chain
    <3>2. ASSUME NEW name, NEW pc, NEW send, NEW next,
                 SpawnLooks(j, name, pc, send, next)
          PROVE  OneNameTurns
      BY <1>1, <3>2 DEF SpawnLooks, chain
    <3> QED BY <2>1, <3>1, <3>2, RegistersOneName DEF SpawnNames
  <2>2. CASE SpawnFunds(j)
    <3>1. ASSUME NEW pc, NEW what, NEW wanted, NEW next,
                 SpawnMeasures(j, pc, what, wanted, next)
          PROVE  OneNameTurns
      BY <1>1, <3>1 DEF SpawnMeasures, chain
    <3>2. ASSUME NEW what \in What, NEW next, SpawnSends(j, what, next)
          PROVE  OneNameTurns
      <4> DEFINE tx == Payment(what, job[j].addr, job[j].missing)
      <4>1. reg' = reg \/ Lands(tx)
        BY <3>2 DEF SpawnSends, Submits
      <4>2. tx.what = what
        BY DEF Payment
      <4> HIDE DEF tx
      <4> QED BY <1>1, <4>1, <4>2 DEF Lands, What
    <3> QED BY <2>2, <3>1, <3>2 DEF SpawnFunds, What
  <2>3. CASE SpawnFindsKey(j) \/ SpawnLoadsKey(j) \/ SpawnOpensKey(j)
             \/ SpawnWritesKey(j) \/ SpawnEnds(j)
    BY <1>1, <2>3
    DEF SpawnFindsKey, SpawnLoadsKey, SpawnOpensKey, SpawnWritesKey, SpawnEnds,
        chain
  <2> QED BY <1>3, <2>1, <2>2, <2>3 DEF Spawns
<1>4. ASSUME NEW j \in Jobs, RetireClears(j)
      PROVE  OneNameTurns
  <2>1. PICK n \in job[j].todo : reg' = reg \/ Lands(Clearing(n))
    BY <1>4 DEF RetireClears, Submits
  <2>2. n \in DOMAIN reg.rec /\ RegistryOK(reg)
    BY <1>4, <2>1
    DEF RetireClears, At, Inv, NamesOK, NameAt, Sound, TypeOK
  <2>3. Clearing(n).name = n
    BY DEF Clearing
  <2> QED BY <1>1, <2>1, <2>2, <2>3, LandsOnOneName
<1>5. ASSUME NEW j \in Jobs, Proceeds(j)
      PROVE  OneNameTurns
  <2>1. CASE AliasRegisters(j)
    BY <2>1, RegistersOneName DEF AliasRegisters
  <2>2. CASE AliasLooks(j) \/ RetireLists(j) \/ RetireEnds(j)
             \/ PatchReads(j) \/ ClearRemoves(j)
    BY <1>1, <2>2
    DEF AliasLooks, RetireLists, RetireEnds, PatchReads, ClearRemoves, chain
  <2>3. CASE WriteOpens(j) \/ WriteWrites(j) \/ WriteRenames(j)
    BY <1>1, <2>3 DEF WriteOpens, WriteWrites, WriteRenames, chain
  <2> QED BY <1>3, <1>4, <1>5, <2>1, <2>2, <2>3 DEF Proceeds
<1>6. ASSUME NEW a \in Agents, RotateToken(a)
      PROVE  OneNameTurns
  BY <1>1, <1>6 DEF RotateToken, chain
<1>7. CASE Crash
  BY <1>1, <1>7 DEF Crash
<1>8. CASE UNCHANGED vars
  BY <1>1, <1>8 DEF vars, chain
<1>9. CASE LandsLate
  <2>1. PICK tx \in wire : Lands(tx)
    BY <1>9 DEF LandsLate
  <2>2. RegistryOK(reg) /\ (tx.what = "clear" => tx.name \in DOMAIN reg.rec)
    BY DEF Inv, Sound, TypeOK, NamesOK, NameOnWire
  <2> QED BY <2>1, <2>2, LandsOnOneName
<1> QED BY <1>2, <1>5, <1>6, <1>7, <1>8, <1>9 DEF Next

(* A name is paid by two readings of which one turns at most.              *)
LEMMA OneNamePaysTheSame ==
  ASSUME OneNameTurns, NEW name \in AllNames
  PROVE  \/ PaidAs(reg, name) = NoAddr \/ PaidAs(reg', name) = NoAddr
         \/ PaidAs(reg, name) = PaidAs(reg', name)
<1>1. PICK n : /\ \A m : m # n => Resolve(reg', m) = Resolve(reg, m)
               /\ \/ Resolve(reg', n) = Resolve(reg, n)
                  \/ Resolve(reg', n) = NoAddr \/ Resolve(reg, n) = NoAddr
  BY DEF OneNameTurns
<1>2. CASE name \notin DOMAIN Peer
  BY <1>1, <1>2 DEF PaidAs, PickReading
<1>3. CASE name \in DOMAIN Peer
  <2>1. Peer[name] # name
    BY <1>3, NamesAssumption DEF Range
  <2> QED BY <1>1, <1>3, <2>1 DEF PaidAs, PickReading
<1> QED BY <1>2, <1>3

(* registerFor refuses a taken name and retirement points a name nowhere   *)
(* (NameRegistry.sol:183, spawn.ts:325), and a bare name whose two readings*)
(* differ is refused (resolver.ts:279-285), so only a step by which an     *)
(* owner moves a name can make a name that pays one wallet pay another.    *)
THEOREM NamesNeverRedirect == Spec => NeverRedirected
<1>1. Inv /\ [Next]_vars => [\A name \in AllNames : NamePaysTheSame(name)]_vars
  BY OnlyOwnersRedirect, OneNamePaysTheSame DEF NamePaysTheSame
<1> QED BY <1>1, InvHolds, PTL DEF Spec, NeverRedirected
=============================================================================
