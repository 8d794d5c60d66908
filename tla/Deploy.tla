------------------------------- MODULE Deploy -------------------------------
(***************************************************************************)
(* What a deployment manifest asks of the chain, and which transactions    *)
(* bring it there: svc/src/manifest.ts (the grammar), svc/src/deploy.ts    *)
(* (addresses, plan, sends, assertions) and the identity that              *)
(* svc/src/deployment.ts compares.  Operators only; Boot.tla is the service*)
(* that carries a deployment out, one transaction at a time.               *)
(*                                                                         *)
(* A manifest is its modules in order and its converter pairs.  A module   *)
(* is [kind, key, code, refs, seed]: `code` stands for the contract and its*)
(* constructor arguments (a token's: its symbol), `refs` for the keys those*)
(* name with @, `seed` for initialSupply.  CREATE2 makes an address a      *)
(* function of kind, key and code, so an address is that triple.           *)
(***************************************************************************)
EXTENDS Naturals, Sequences, FiniteSets, SequencesExt

Singletons == {"names", "converter", "escrow", "judgehook"}
Kinds == {"token", "contract"} \cup Singletons

Modules == [kind : Kinds, key : STRING, code : STRING,
            refs : SUBSET STRING, seed : Nat]
Pairs   == [source : STRING, target : STRING, rate : Nat]
ManifestType == [mods : Seq(Modules), pairs : Seq(Pairs), tld : STRING]

ModuleSpec(m) == /\ m.kind \in Kinds /\ m.seed \in Nat
                 /\ m.kind \in Singletons => m.key = m.kind
                 /\ m.kind # "token" => m.seed = 0

Before(ms, i) == {ms[j] : j \in 1..(i - 1)}
KeysOf(set) == {m.key : m \in set}
Of(ms, kind) == {m \in Range(ms) : m.kind = kind}

(* RATE_SCALE is 1 here: a rate is a number of whole units.  A pair and its*)
(* reverse may not multiply to more than one.                              *)
PairsGood(ms, pairs) ==
  /\ (Of(ms, "converter") # {}) = (pairs # <<>>)
  /\ \A p \in Range(pairs) :
       /\ p.source # p.target /\ p.rate > 0
       /\ {p.source, p.target} \subseteq KeysOf(Of(ms, "token"))
  /\ \A i, j \in DOMAIN pairs :
       i < j /\ pairs[i].source = pairs[j].target
             /\ pairs[i].target = pairs[j].source
       => pairs[i].rate * pairs[j].rate <= 1

(* The manifests readManifest accepts: one namespace of keys (which makes  *)
(* the singletons single), the registry before what is built on it, and a  *)
(* contract's arguments naming earlier modules.                            *)
Accepted(M) ==
  /\ M.mods # <<>>
  /\ \A i \in DOMAIN M.mods :
       LET m == M.mods[i] IN
       /\ ModuleSpec(m)
       /\ m.key \notin KeysOf(Before(M.mods, i))
       /\ \A p \in Before(M.mods, i) :
            ~(p.kind = "token" /\ m.kind = "token" /\ p.code = m.code)
       /\ m.kind \in {"escrow", "judgehook"}
            => "names" \in KeysOf(Before(M.mods, i))
       /\ m.refs \subseteq KeysOf(Before(M.mods, i))
  /\ PairsGood(M.mods, M.pairs)

-----------------------------------------------------------------------------
Addresses == Kinds \X STRING \X STRING

Addr(m) == <<m.kind, m.key, m.code>>
Planned(M) == {Addr(m) : m \in Range(M.mods)}
TokenAt(M, key) == Addr(CHOOSE m \in Of(M.mods, "token") : m.key = key)
AddrsOf(M, kind) == {Addr(m) : m \in Of(M.mods, kind)}

(* The record holds what the services need, and neither seeds nor rates.   *)
RecordFor(M) ==
  [mods |-> [i \in DOMAIN M.mods |-> Addr(M.mods[i])], tld |-> M.tld]
Recorded(rec) == Range(rec.mods)
TokensIn(rec) == {a \in Recorded(rec) : a[1] = "token"}

(* The names of columns, which the service lets no module take as its key. *)
(* The grammar of a manifest does not know of them.                        *)
Reserved == {"amount", "emissions", "spent", "stage", "token", "topic"}

(* The records loadDeployment accepts, whoever wrote them.                 *)
ValidRecord(rec) ==
  /\ rec.mods # <<>>
  /\ \A i, j \in DOMAIN rec.mods : i # j => rec.mods[i][2] # rec.mods[j][2]
  /\ \A a \in Recorded(rec) :
       /\ a[1] \in Kinds
       /\ IF a[1] \in Singletons THEN a[2] = a[1] ELSE a[2] \notin Reserved
       /\ a[1] = "names" => rec.tld # ""

(* The identity the store keeps: the modules in order, and not the tld.    *)
Identity(rec) == rec.mods

-----------------------------------------------------------------------------
(* The contracts of a chain: which addresses hold code, what the tokens    *)
(* have issued, the roles granted <<module, role, holder>>, the platform   *)
(* names registered, and the pairs set.                                    *)
Treasury == <<"treasury">>

NoContracts == [code |-> {}, supply |-> <<>>, roles |-> {}, names |-> {},
                pairs |-> {}]
Supply(c, a) == IF a \in DOMAIN c.supply THEN c.supply[a] ELSE 0

(* What the constructor gives the treasury *)
OwnRoles(kind) ==
  CASE kind = "token" -> {"admin", "minter", "freezer"}
    [] kind = "names" -> {"admin", "registrar"}
    [] kind = "converter" -> {"admin", "rate_admin"}
    [] OTHER -> {}

Performed(c, t) ==
  CASE t.op = "create" ->
         [c EXCEPT !.code = @ \cup {t.at},
                   !.roles = @ \cup {<<t.at, r, Treasury>> :
                                       r \in OwnRoles(t.at[1])}]
    [] t.op = "mint" ->
         [c EXCEPT !.supply = [a \in (DOMAIN @) \cup {t.at} |->
                                 Supply(c, a)
                                   + (IF a = t.at THEN t.amount ELSE 0)]]
    [] t.op = "name"  -> [c EXCEPT !.names = @ \cup {<<t.at, t.tld>>}]
    [] t.op = "pair"  -> [c EXCEPT !.pairs = @ \cup {<<t.at, t.from, t.to>>}]
    [] t.op = "grant" -> [c EXCEPT !.roles = @ \cup {<<t.at, t.role, t.to>>}]

Grant(a, role, who) == [op |-> "grant", at |-> a, role |-> role, to |-> who]

(* Every transaction a manifest can lead to, in the order sendDeployment   *)
(* comes to them: each module and its seed, the treasury's name, each pair *)
(* with its two roles, then the escrow's roles on every token.             *)
CreateAndSeed(m) ==
  <<[op |-> "create", at |-> Addr(m)]>> \o
  (IF m.seed > 0
   THEN <<[op |-> "mint", at |-> Addr(m), amount |-> m.seed]>> ELSE <<>>)

TreasuryName(M) ==
  IF Of(M.mods, "token") = {} THEN <<>>
  ELSE [i \in 1..Cardinality(AddrsOf(M, "names")) |->
          [op |-> "name", at |-> CHOOSE a \in AddrsOf(M, "names") : TRUE,
           tld |-> M.tld]]

PairAndRoles(M, p) ==
  LET c == CHOOSE a \in AddrsOf(M, "converter") : TRUE IN
  <<[op |-> "pair", at |-> c, from |-> TokenAt(M, p.source),
     to |-> TokenAt(M, p.target)],
    Grant(TokenAt(M, p.source), "burner", c),
    Grant(TokenAt(M, p.target), "minter", c)>>

EscrowRoles(M, m) ==
  IF m.kind # "token" \/ AddrsOf(M, "escrow") = {} THEN <<>>
  ELSE LET e == CHOOSE a \in AddrsOf(M, "escrow") : TRUE IN
       <<Grant(Addr(m), "burner", e), Grant(Addr(m), "minter", e)>>

Script(M) ==
  FlattenSeq([i \in DOMAIN M.mods |-> CreateAndSeed(M.mods[i])])
  \o TreasuryName(M)
  \o FlattenSeq([i \in DOMAIN M.pairs |-> PairAndRoles(M, M.pairs[i])])
  \o FlattenSeq([i \in DOMAIN M.mods |-> EscrowRoles(M, M.mods[i])])

(* Which of them are sent.  `absent` is what statusOf found without code,  *)
(* once, before the first; the rest is read as the deploy comes to it.  A  *)
(* token that was there already is seeded only if it never issued anything *)
(* and no record was written.                                              *)
NeededOnce(c, absent, recordExists, t) == \* a retry does not seed at all
  CASE t.op = "create" -> t.at \in absent
    [] t.op = "mint"   -> t.at \in absent
    [] t.op = "name"   -> <<t.at, t.tld>> \notin c.names
    [] t.op = "pair"   -> <<t.at, t.from, t.to>> \notin c.pairs
    [] t.op = "grant"  -> <<t.at, t.role, t.to>> \notin c.roles

Needed(c, absent, recordExists, t) ==
  CASE t.op = "create" -> t.at \in absent
    [] t.op = "mint"   -> \/ t.at \in absent
                          \/ ~recordExists /\ Supply(c, t.at) = 0
    [] t.op = "name"   -> <<t.at, t.tld>> \notin c.names
    [] t.op = "pair"   -> <<t.at, t.from, t.to>> \notin c.pairs
    [] t.op = "grant"  -> <<t.at, t.role, t.to>> \notin c.roles

(* assertDeployment and assertEscrowRoles: the treasury administers every  *)
(* module, nobody burns but who must, and the escrow and the judge hook    *)
(* administer nothing.                                                     *)
Holders(c, a, role) == {x[3] : x \in {y \in c.roles : y[1] = a /\ y[2] = role}}

TokenAsserted(c, M, a) ==
  /\ \A r \in OwnRoles("token") : Treasury \in Holders(c, a, r)
  /\ Treasury \notin Holders(c, a, "burner")
  /\ \A w \in AddrsOf(M, "converter") \cup AddrsOf(M, "escrow") :
       w \notin Holders(c, a, "admin") \cup Holders(c, a, "freezer")
  /\ \A e \in AddrsOf(M, "escrow") :
       e \in Holders(c, a, "burner") \cap Holders(c, a, "minter")

RegistryAsserted(c, M, a) ==
  /\ Treasury \in Holders(c, a, "registrar") \cap Holders(c, a, "admin")
  /\ \A w \in AddrsOf(M, "converter") \cup AddrsOf(M, "escrow") :
       w \notin Holders(c, a, "admin")
  /\ Of(M.mods, "token") # {} => <<a, M.tld>> \in c.names

ConverterAsserted(c, M, a) ==
  /\ Treasury \in Holders(c, a, "admin") \cap Holders(c, a, "rate_admin")
  /\ \A p \in Range(M.pairs) :
       LET s == TokenAt(M, p.source)  t == TokenAt(M, p.target) IN
       /\ <<a, s, t>> \in c.pairs
       /\ a \in Holders(c, s, "burner") \cap Holders(c, t, "minter")

Asserted(c, M) ==
  /\ Planned(M) \subseteq c.code
  /\ \A a \in AddrsOf(M, "token") : TokenAsserted(c, M, a)
  /\ \A a \in AddrsOf(M, "names") : RegistryAsserted(c, M, a)
  /\ \A a \in AddrsOf(M, "converter") : ConverterAsserted(c, M, a)
  /\ \A h \in AddrsOf(M, "judgehook"), x \in c.roles : x[3] # h
=============================================================================
