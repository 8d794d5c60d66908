----------------------------- MODULE BootProofs -----------------------------
(***************************************************************************)
(* Proofs about Boot: its type invariant and the four safety properties its*)
(* run checks, for all agents, ids, manifests and flags, and for any number*)
(* of volumes touched by hand (MaxSurgery and MaxMade are not used).       *)
(*                                                                         *)
(*   Steady     where a deploy and a live record can be, and what the disk *)
(*              and the store then say of them;                            *)
(*   WitnessOK  the watermark: comparing counts compares sets of intents;  *)
(*   RestartOK  what an untouched service leaves behind for its restart;   *)
(*   WholeOK    a record is whole on the chain, or none of its tokens is.  *)
(*                                                                         *)
(* The first sections say what the operators of Deploy compute: a script   *)
(* is concatenations (FlattenSeq) and a deployment a fold over it, both of *)
(* which the community modules define by recursive functions.              *)
(***************************************************************************)
EXTENDS Boot, SequenceTheorems, FiniteSetTheorems, WellFoundedInduction, TLAPS

-----------------------------------------------------------------------------
(* Sequences *)

(* A set of subsets of a finite set has a smallest member.                 *)
LEMMA SmallestSet ==
  ASSUME NEW S, IsFiniteSet(S), NEW Bad, Bad \subseteq SUBSET S, Bad # {}
  PROVE  \E s \in Bad : \A y \in Bad : y \subseteq s => y = s
<1>1. IsWellFoundedOn(StrictSubsetOrdering(S), SUBSET S)
  BY FS_StrictSubsetOrderingWellFounded, FS_FiniteSubsetsOfFinite
<1>2. PICK s \in Bad : \A y \in Bad : ~(<<y, s>> \in StrictSubsetOrdering(S))
  BY <1>1, WFMin
<1>3. \A y \in Bad : y \in SUBSET S /\ s \in SUBSET S
  OBVIOUS
<1>4. ASSUME NEW y \in Bad, y \subseteq s, y # s PROVE FALSE
  <2>1. <<y, s>> \in (SUBSET S) \X (SUBSET S)
    BY <1>3
  <2>2. <<y, s>> \in StrictSubsetOrdering(S)
    BY <2>1, <1>4 DEF StrictSubsetOrdering
  <2> QED BY <1>2, <2>2
<1> QED BY <1>4

(* So has a set of numbers.                                                *)
LEMMA LeastNumber ==
  ASSUME NEW T, T \subseteq Nat, T # {}
  PROVE  \E n \in T : \A m \in T : n <= m
<1>1. PICK top \in T : TRUE
  OBVIOUS
<1> DEFINE Bad == {s \in SUBSET (0 .. top) : \E k \in T : s = 0 .. k}
<1>2. top \in Nat /\ 0 .. top \in Bad
  BY <1>1
<1>3. IsFiniteSet(0 .. top)
  BY <1>2, FS_Interval
<1>4. PICK s \in Bad : \A y \in Bad : y \subseteq s => y = s
  <2> DEFINE All == 0 .. top
  <2>1. Bad \subseteq SUBSET All /\ Bad # {} /\ IsFiniteSet(All)
    BY <1>2, <1>3
  <2> HIDE DEF Bad, All
  <2> QED BY <2>1, SmallestSet
<1>5. PICK n \in T : s = 0 .. n
  OBVIOUS
<1>6. ASSUME NEW m \in T, ~(n <= m) PROVE FALSE
  <2>1. m \in Nat /\ n \in Nat /\ m < n
    BY <1>6
  <2>2. 0 .. m \subseteq 0 .. n /\ 0 .. m # 0 .. n
    <3>1. n \in 0 .. n /\ n \notin 0 .. m
      BY <2>1
    <3> QED BY <2>1, <3>1
  <2>3. 0 .. m \in Bad
    BY <1>5, <2>2
  <2> QED BY <1>4, <1>5, <2>2, <2>3
<1> QED BY <1>6

IsFlat(ss, n, f) ==
  f = [k \in 1 .. n |-> IF k = 1 THEN ss[k] ELSE f[k - 1] \o ss[k]]

LEMMA FlatExists ==
  ASSUME NEW ss, NEW n \in Nat
  PROVE  \E f : IsFlat(ss, n, f)
<1> DEFINE Bad == {k \in 0 .. n : ~ \E f : IsFlat(ss, k, f)}
<1>1. IsFlat(ss, 0, [k \in 1 .. 0 |-> ss])
  BY DEF IsFlat
<1>2. ASSUME NEW k \in 0 .. n, k # n, NEW f, IsFlat(ss, k, f)
      PROVE  \E g : IsFlat(ss, k + 1, g)
  <2> DEFINE g == [i \in 1 .. (k + 1) |->
                     IF i <= k THEN f[i]
                     ELSE IF i = 1 THEN ss[i] ELSE f[i - 1] \o ss[i]]
  <2>1. ASSUME NEW i \in 1 .. (k + 1)
        PROVE  g[i] = IF i = 1 THEN ss[i] ELSE g[i - 1] \o ss[i]
    <3>1. CASE i <= k
      <4>1. i \in 1 .. k /\ (i # 1 => i - 1 \in 1 .. k /\ i - 1 \in 1 .. (k + 1))
        BY <3>1
      <4>2. f[i] = IF i = 1 THEN ss[i] ELSE f[i - 1] \o ss[i]
        BY <1>2, <4>1 DEF IsFlat
      <4>3. i # 1 => g[i - 1] = f[i - 1]
        BY <4>1
      <4> QED BY <3>1, <4>2, <4>3
    <3>2. CASE ~(i <= k)
      <4>1. i # 1 => i - 1 \in 1 .. (k + 1) /\ i - 1 <= k
        BY <3>2
      <4>2. i # 1 => g[i - 1] = f[i - 1]
        BY <4>1
      <4> QED BY <3>2, <4>2
    <3> QED BY <3>1, <3>2
  <2>2. g = [i \in 1 .. (k + 1) |-> g[i]]
    OBVIOUS
  <2> HIDE DEF g
  <2>3. IsFlat(ss, k + 1, g)
    BY <2>1, <2>2 DEF IsFlat
  <2> QED BY <2>3
<1>3. Bad = {}
  <2> SUFFICES ASSUME Bad # {} PROVE FALSE
    OBVIOUS
  <2>1. Bad \subseteq Nat
    OBVIOUS
  <2>2. PICK k \in Bad : \A m \in Bad : k <= m
    BY <2>1, LeastNumber
  <2>3. k # 0
    BY <1>1, <2>2
  <2>4. k - 1 \in 0 .. n /\ k - 1 # n /\ ~(k <= k - 1)
    BY <2>2, <2>3
  <2>5. \E f : IsFlat(ss, k - 1, f)
    BY <2>2, <2>4
  <2>6. \E g : IsFlat(ss, (k - 1) + 1, g)
    BY <1>2, <2>4, <2>5
  <2>7. (k - 1) + 1 = k
    BY <2>4
  <2> QED BY <2>2, <2>6, <2>7
<1> QED BY <1>3

(* Where the elements of a concatenation come from, in their order.        *)
Laid(ss, n, F, w) ==
  /\ w \in [1 .. Len(F) -> Nat \X Nat]
  /\ \A p \in 1 .. Len(F) :
       /\ w[p][1] \in 1 .. n /\ w[p][2] \in 1 .. Len(ss[w[p][1]])
       /\ F[p] = ss[w[p][1]][w[p][2]]
  /\ \A p, q \in 1 .. Len(F) :
       p < q => \/ w[p][1] < w[q][1]
                \/ w[p][1] = w[q][1] /\ w[p][2] < w[q][2]
  /\ \A i \in 1 .. n : \A k \in 1 .. Len(ss[i]) :
       \E p \in 1 .. Len(F) : w[p] = <<i, k>>

LEMMA OneMoreLaid ==
  ASSUME NEW S, NEW n \in Nat, NEW ss \in [1 .. (n + 1) -> Seq(S)],
         NEW F \in Seq(S), NEW w, Laid(ss, n, F, w)
  PROVE  /\ F \o ss[n + 1] \in Seq(S)
         /\ \E v : Laid(ss, n + 1, F \o ss[n + 1], v)
<1> DEFINE L == Len(F)
           last == ss[n + 1]
           G == F \o last
           v == [p \in 1 .. Len(G) |-> IF p <= L THEN w[p] ELSE <<n + 1, p - L>>]
<1>1. n + 1 \in 1 .. (n + 1) /\ last \in Seq(S) /\ L \in Nat
  BY LenProperties
<1>2. /\ G \in Seq(S) /\ Len(G) = L + Len(last) /\ Len(last) \in Nat
      /\ \A p \in 1 .. Len(G) : G[p] = IF p <= L THEN F[p] ELSE last[p - L]
  BY <1>1, ConcatProperties, LenProperties
<1>3. \A p \in 1 .. Len(G) : IF p <= L THEN p \in 1 .. L
                                       ELSE p - L \in 1 .. Len(last)
  BY <1>1, <1>2
<1> HIDE DEF L, last, G
<1>4. ASSUME NEW p \in 1 .. Len(G)
      PROVE  /\ v[p] \in Nat \X Nat
             /\ v[p][1] \in 1 .. (n + 1) /\ v[p][2] \in 1 .. Len(ss[v[p][1]])
             /\ G[p] = ss[v[p][1]][v[p][2]]
  <2>1. CASE p <= L
    <3>1. p \in 1 .. L /\ v[p] = w[p] /\ G[p] = F[p]
      BY <1>2, <1>3, <2>1
    <3>2. /\ w[p] \in Nat \X Nat
          /\ w[p][1] \in 1 .. n /\ w[p][2] \in 1 .. Len(ss[w[p][1]])
          /\ F[p] = ss[w[p][1]][w[p][2]]
      BY <3>1 DEF Laid, L
    <3> QED BY <3>1, <3>2
  <2>2. CASE ~(p <= L)
    <3>1. v[p] = <<n + 1, p - L>> /\ G[p] = last[p - L]
          /\ p - L \in 1 .. Len(last)
      BY <1>2, <1>3, <2>2
    <3> HIDE DEF v
    <3>2. v[p][1] = n + 1 /\ v[p][2] = p - L /\ p - L \in Nat
      BY <3>1
    <3> QED BY <1>1, <3>1, <3>2 DEF last
  <2> QED BY <2>1, <2>2
<1>5. ASSUME NEW p \in 1 .. Len(G), NEW q \in 1 .. Len(G), p < q
      PROVE  \/ v[p][1] < v[q][1]
             \/ v[p][1] = v[q][1] /\ v[p][2] < v[q][2]
  <2>1. CASE q <= L
    <3>1. p \in 1 .. L /\ q \in 1 .. L /\ v[p] = w[p] /\ v[q] = w[q]
      BY <1>1, <1>5, <2>1
    <3> HIDE DEF v
    <3> QED BY <1>5, <3>1 DEF Laid, L
  <2>2. CASE ~(q <= L) /\ p <= L
    <3>1. p \in 1 .. L /\ v[p] = w[p] /\ v[q] = <<n + 1, q - L>>
      BY <1>1, <2>2
    <3>2. w[p][1] \in 1 .. n
      BY <3>1 DEF Laid, L
    <3> HIDE DEF v
    <3>3. v[q][1] = n + 1 /\ v[p][1] = w[p][1]
      BY <3>1
    <3> QED BY <3>2, <3>3
  <2>3. CASE ~(p <= L) /\ ~(q <= L)
    <3>1. v[p] = <<n + 1, p - L>> /\ v[q] = <<n + 1, q - L>>
      BY <2>3
    <3>2. p - L < q - L
      BY <1>1, <1>5
    <3> HIDE DEF v
    <3>3. /\ v[q][1] = n + 1 /\ v[p][1] = n + 1
          /\ v[p][2] = p - L /\ v[q][2] = q - L
      BY <3>1
    <3> QED BY <3>2, <3>3
  <2> QED BY <2>1, <2>2, <2>3
<1>6. ASSUME NEW i \in 1 .. (n + 1), NEW k \in 1 .. Len(ss[i])
      PROVE  \E p \in 1 .. Len(G) : v[p] = <<i, k>>
  <2>1. CASE i \in 1 .. n
    <3>1. PICK p \in 1 .. L : w[p] = <<i, k>>
      BY <2>1 DEF Laid, L
    <3>2. p \in 1 .. Len(G) /\ p <= L
      BY <1>1, <1>2
    <3> QED BY <3>1, <3>2
  <2>2. CASE i = n + 1
    <3>1. k \in 1 .. Len(last)
      BY <2>2 DEF last
    <3>2. L + k \in 1 .. Len(G) /\ ~(L + k <= L) /\ (L + k) - L = k
      BY <1>1, <1>2, <3>1
    <3>3. v[L + k] = <<n + 1, k>>
      BY <3>2
    <3>4. v[L + k] = <<i, k>>
      BY <2>2, <3>3
    <3> HIDE DEF v
    <3> QED BY <3>2, <3>4
  <2>3. i \in 1 .. n \/ i = n + 1
    OBVIOUS
  <2> HIDE DEF v
  <2> QED BY <2>1, <2>2, <2>3
<1>7. v \in [1 .. Len(G) -> Nat \X Nat]
  BY <1>4
<1> HIDE DEF v
<1>8. Laid(ss, n + 1, G, v)
  BY <1>4, <1>5, <1>6, <1>7 DEF Laid
<1> QED BY <1>2, <1>8 DEF G, last

(* FlattenSeq lays its parts out in order.                                 *)
LEMMA Flattens ==
  ASSUME NEW S, NEW n \in Nat \ {0}, NEW ss \in [1 .. n -> Seq(S)]
  PROVE  /\ FlattenSeq(ss) \in Seq(S)
         /\ \E w : Laid(ss, n, FlattenSeq(ss), w)
<1> DEFINE f == CHOOSE f : IsFlat(ss, n, f)
<1>1. ss \in Seq(Seq(S)) /\ Len(ss) = n
  BY LenProperties
<1>2. FlattenSeq(ss) = f[n]
  BY <1>1, Zenon DEF FlattenSeq, IsFlat
<1>3. IsFlat(ss, n, f)
  BY FlatExists, Zenon
<1> HIDE DEF f
<1> DEFINE Good(k) == f[k] \in Seq(S) /\ \E w : Laid(ss, k, f[k], w)
           Bad == {k \in 1 .. n : ~Good(k)}
<1>4. Bad = {}
  <2> SUFFICES ASSUME Bad # {} PROVE FALSE
    OBVIOUS
  <2>1. Bad \subseteq Nat
    OBVIOUS
  <2>2. PICK k \in Bad : \A m \in Bad : k <= m
    <3> HIDE DEF Bad
    <3> QED BY <2>1, LeastNumber
  <2>3. CASE k = 1
    <3>1. f[1] = ss[1] /\ ss[1] \in Seq(S)
      BY <1>3 DEF IsFlat
    <3> DEFINE w == [p \in 1 .. Len(ss[1]) |-> <<1, p>>]
    <3>2. w \in [1 .. Len(ss[1]) -> Nat \X Nat]
      OBVIOUS
    <3>3. \A p \in 1 .. Len(ss[1]) : w[p][1] = 1 /\ w[p][2] = p
      OBVIOUS
    <3>4. \A q \in 1 .. Len(ss[1]) : w[q] = <<1, q>>
      OBVIOUS
    <3>6. Len(ss[1]) \in Nat
      BY <3>1, LenProperties
    <3> HIDE DEF w
    <3>5. Laid(ss, 1, ss[1], w)
      <4>1. \A i \in 1 .. 1 : i = 1
        OBVIOUS
      <4>2. \A p \in 1 .. Len(ss[1]) :
              /\ w[p][1] \in 1 .. 1 /\ w[p][2] \in 1 .. Len(ss[w[p][1]])
              /\ ss[1][p] = ss[w[p][1]][w[p][2]]
        BY <3>3
      <4>3. \A p, q \in 1 .. Len(ss[1]) :
              p < q => w[p][1] = w[q][1] /\ w[p][2] < w[q][2]
        BY <3>3
      <4>4. \A i \in 1 .. 1 : \A j \in 1 .. Len(ss[i]) :
              \E p \in 1 .. Len(ss[1]) : w[p] = <<i, j>>
        BY <3>4, <4>1
      <4> QED BY <3>2, <4>2, <4>3, <4>4 DEF Laid
    <3> QED BY <2>2, <2>3, <3>1, <3>5
  <2>4. CASE k # 1
    <3>1. k - 1 \in 1 .. n /\ k - 1 \in Nat /\ k \in 1 .. n /\ ~(k <= k - 1)
      BY <2>2, <2>4
    <3>2. Good(k - 1)
      BY <2>2, <3>1
    <3>3. PICK w : Laid(ss, k - 1, f[k - 1], w)
      BY <3>2
    <3>4. f[k] = f[k - 1] \o ss[k]
      BY <1>3, <2>4, <3>1 DEF IsFlat
    <3> DEFINE part == [i \in 1 .. ((k - 1) + 1) |-> ss[i]]
    <3>5. (k - 1) + 1 = k /\ part \in [1 .. ((k - 1) + 1) -> Seq(S)]
          /\ \A i \in 1 .. k : part[i] = ss[i]
      BY <3>1
    <3> HIDE DEF part
    <3>6. Laid(part, k - 1, f[k - 1], w)
      <4>1. \A i \in 1 .. (k - 1) : part[i] = ss[i]
        BY <3>1, <3>5
      <4>2. \A p \in 1 .. Len(f[k - 1]) : w[p][1] \in 1 .. (k - 1)
        BY <3>3 DEF Laid
      <4> QED BY <3>3, <4>1, <4>2 DEF Laid
    <3> DEFINE i == k - 1
    <3>10. i \in Nat /\ part \in [1 .. (i + 1) -> Seq(S)]
           /\ f[i] \in Seq(S) /\ Laid(part, i, f[i], w) /\ i + 1 = k
      BY <3>1, <3>2, <3>5, <3>6
    <3> HIDE DEF i
    <3>11. /\ f[i] \o part[i + 1] \in Seq(S)
           /\ \E v : Laid(part, i + 1, f[i] \o part[i + 1], v)
      BY <3>10, OneMoreLaid
    <3>7. /\ f[k - 1] \o part[k] \in Seq(S)
          /\ \E v : Laid(part, k, f[k - 1] \o part[k], v)
      BY <3>10, <3>11 DEF i
    <3>8. PICK v : Laid(part, k, f[k], v)
      BY <3>1, <3>4, <3>5, <3>7
    <3>9. Laid(ss, k, f[k], v)
      <4>1. \A p \in 1 .. Len(f[k]) : v[p][1] \in 1 .. k
        BY <3>8 DEF Laid
      <4> QED BY <3>5, <3>8, <4>1 DEF Laid
    <3>12. f[k] \in Seq(S)
      BY <3>1, <3>4, <3>5, <3>7
    <3>13. Good(k)
      BY <3>9, <3>12
    <3> QED BY <2>2, <3>13
  <2> QED BY <2>3, <2>4
<1>5. Good(n)
  <2>1. n \in 1 .. n
    OBVIOUS
  <2> HIDE DEF Good
  <2> QED BY <1>4, <2>1
<1> QED BY <1>2, <1>5

-----------------------------------------------------------------------------
(* What a deployment is: the transactions of a manifest, in their order *)

Creates == [op : {"create"}, at : Addresses]
Mints   == [op : {"mint"}, at : Addresses, amount : Nat]
NamesTx == [op : {"name"}, at : Addresses, tld : STRING]
PairsTx == [op : {"pair"}, at : Addresses, from : Addresses, to : Addresses]

(* The other transactions grant nothing but burning and minting, and that  *)
(* to a converter or an escrow only.                                       *)
Workers == {a \in Addresses : a[1] \in {"converter", "escrow"}}
Grants == [op : {"grant"}, at : Addresses, role : {"burner", "minter"},
           to : Workers]
Wiring == NamesTx \cup PairsTx \cup Grants
Txs == Creates \cup Mints \cup Wiring

(* What holds of the order of a script: modules before their seeds, and    *)
(* one seed for each token that has one.                                   *)
InOrder(M, txs) ==
  /\ \A n \in 1 .. Len(txs) :
       txs[n].op = "create" => txs[n].at \in Planned(M)
  /\ \A n \in 1 .. Len(txs) : txs[n].op = "mint" =>
       /\ \E m \in Range(M.mods) : txs[n].at = Addr(m) /\ txs[n].amount = m.seed
       /\ txs[n].amount > 0
       /\ \E k \in 1 .. (n - 1) : txs[k] = [op |-> "create", at |-> txs[n].at]
  /\ \A n, k \in 1 .. Len(txs) :
       n # k /\ txs[n].op = "mint" /\ txs[k].op = "mint"
       => txs[n].at # txs[k].at
  /\ \A m \in Range(M.mods) : m.seed > 0 =>
       \E n \in 1 .. Len(txs) : txs[n].op = "mint" /\ txs[n].at = Addr(m)

IsScript(M, txs) == txs \in Seq(Txs) /\ InOrder(M, txs)

LEMMA ManifestShape ==
  ASSUME NEW M \in Manifests
  PROVE  /\ M.mods \in Seq(Modules) /\ M.pairs \in Seq(Pairs) /\ M.tld \in STRING
         /\ Len(M.mods) \in Nat \ {0} /\ Len(M.pairs) \in Nat
         /\ DOMAIN M.mods = 1 .. Len(M.mods)
         /\ DOMAIN M.pairs = 1 .. Len(M.pairs)
         /\ \A i \in 1 .. Len(M.mods) : M.mods[i] \in Modules
         /\ \A i \in 1 .. Len(M.pairs) : M.pairs[i] \in Pairs
<1>1. M \in ManifestType /\ M.mods # <<>>
  BY BootAssumption DEF Accepted
<1>2. M.mods \in Seq(Modules) /\ M.pairs \in Seq(Pairs) /\ M.tld \in STRING
  BY <1>1 DEF ManifestType
<1>3. Len(M.mods) # 0
  BY <1>1, <1>2, EmptySeq
<1> QED BY <1>2, <1>3, LenProperties, ElementOfSeq

LEMMA AddrType ==
  ASSUME NEW m \in Modules
  PROVE  Addr(m) \in Addresses /\ Addr(m)[1] = m.kind /\ Addr(m)[2] = m.key
BY DEF Addr, Addresses, Modules

(* The keys of a manifest are all different.                               *)
LEMMA KeysApart ==
  ASSUME NEW M \in Manifests, NEW i \in 1 .. Len(M.mods),
         NEW j \in 1 .. Len(M.mods), M.mods[i].key = M.mods[j].key
  PROVE  i = j
<1>1. \A k \in 1 .. Len(M.mods) :
        M.mods[k].key \notin KeysOf(Before(M.mods, k))
  BY ManifestShape, BootAssumption DEF Accepted
<1>2. ASSUME NEW k \in 1 .. Len(M.mods), NEW l \in 1 .. Len(M.mods), k < l,
             M.mods[k].key = M.mods[l].key
      PROVE  FALSE
  <2>1. k \in 1 .. (l - 1)
    BY <1>2, ManifestShape
  <2>2. M.mods[k].key \in KeysOf(Before(M.mods, l))
    BY <2>1 DEF KeysOf, Before
  <2> QED BY <1>1, <1>2, <2>2
<1>3. i \in Nat /\ j \in Nat
  BY ManifestShape
<1> QED BY <1>2, <1>3

LEMMA OneModuleAtAnAddress ==
  ASSUME NEW M \in Manifests, NEW i \in 1 .. Len(M.mods),
         NEW j \in 1 .. Len(M.mods), Addr(M.mods[i]) = Addr(M.mods[j])
  PROVE  i = j
BY KeysApart, AddrType, ManifestShape

LEMMA RangeIs ==
  ASSUME NEW M \in Manifests
  PROVE  /\ Range(M.mods) = {M.mods[i] : i \in 1 .. Len(M.mods)}
         /\ Range(M.pairs) = {M.pairs[i] : i \in 1 .. Len(M.pairs)}
         /\ \A m \in Range(M.mods) : m \in Modules /\ ModuleSpec(m)
         /\ \A p \in Range(M.pairs) : p \in Pairs
<1>1. \A i \in 1 .. Len(M.mods) : ModuleSpec(M.mods[i])
  BY BootAssumption, ManifestShape DEF Accepted
<1> QED BY <1>1, ManifestShape DEF Range

(* The modules, each followed by its seed                                  *)
Seeding(M) == FlattenSeq([i \in DOMAIN M.mods |-> CreateAndSeed(M.mods[i])])

LEMMA CreateAndSeedIs ==
  ASSUME NEW m \in Modules
  PROVE  /\ CreateAndSeed(m) \in Seq(Txs)
         /\ CreateAndSeed(m)[1] = [op |-> "create", at |-> Addr(m)]
         /\ Len(CreateAndSeed(m)) = IF m.seed > 0 THEN 2 ELSE 1
         /\ m.seed > 0 => CreateAndSeed(m)[2] =
              [op |-> "mint", at |-> Addr(m), amount |-> m.seed]
<1>1. [op |-> "create", at |-> Addr(m)] \in Txs
      /\ [op |-> "mint", at |-> Addr(m), amount |-> m.seed] \in Txs
  BY AddrType DEF Txs, Creates, Mints, Modules
<1> QED BY <1>1 DEF CreateAndSeed

-----------------------------------------------------------------------------
(* Carrying out all of a script, one transaction after the other *)

IsBuilt(c, txs, D, h) ==
  h = [s \in SUBSET D |->
         IF s = {} THEN c
         ELSE LET x == Max(s) IN Performed(h[s \ {x}], txs[x])]
Built(c, txs, D) == CHOOSE h : IsBuilt(c, txs, D, h)

LEMMA GreatestNumber ==
  ASSUME NEW n \in Nat, NEW s, s \subseteq 1 .. n, s # {}
  PROVE  Max(s) \in s /\ \A y \in s : y <= Max(s)
<1> DEFINE T == {n - y : y \in s}
<1>0. \A y \in s : n - y \in Nat
  <2> TAKE y \in s
  <2>1. y \in 1 .. n
    OBVIOUS
  <2> QED BY <2>1
<1>1. T \subseteq Nat /\ T # {}
  BY <1>0
<1>2. PICK m \in T : \A k \in T : m <= k
  <2> HIDE DEF T
  <2> QED BY <1>1, LeastNumber
<1>3. PICK x \in s : m = n - x
  OBVIOUS
<1>4. \A y \in s : x >= y
  <2> TAKE y \in s
  <2>1. n - y \in T
    OBVIOUS
  <2>2. n - x <= n - y
    BY <1>2, <1>3, <2>1
  <2>3. x \in Nat /\ y \in Nat
    OBVIOUS
  <2> QED BY <2>2, <2>3
<1>5. Max(s) \in s /\ \A y \in s : Max(s) >= y
  BY <1>4, Zenon DEF Max
<1> QED BY <1>5

LEMMA BuiltExists ==
  ASSUME NEW c, NEW txs, NEW n \in Nat
  PROVE  \E h : IsBuilt(c, txs, 1 .. n, h)
<1> DEFINE Bad == {k \in 0 .. n : ~ \E h : IsBuilt(c, txs, 1 .. k, h)}
<1>1. \E h : IsBuilt(c, txs, 1 .. 0, h)
  <2> DEFINE h == [s \in SUBSET (1 .. 0) |-> c]
  <2>1. \A s \in SUBSET (1 .. 0) : s = {}
    OBVIOUS
  <2>2. h = [s \in SUBSET (1 .. 0) |->
               IF s = {} THEN c
               ELSE LET x == Max(s) IN Performed(h[s \ {x}], txs[x])]
    BY <2>1
  <2> HIDE DEF h
  <2>3. IsBuilt(c, txs, 1 .. 0, h)
    BY <2>2, Zenon DEF IsBuilt
  <2> QED BY <2>3
<1>2. ASSUME NEW k \in Nat, NEW h, IsBuilt(c, txs, 1 .. k, h)
      PROVE  \E g : IsBuilt(c, txs, 1 .. (k + 1), g)
  <2> DEFINE Value(s) == IF s = {} THEN c
                         ELSE Performed(h[s \ {Max(s)}], txs[Max(s)])
             g == [s \in SUBSET (1 .. (k + 1)) |-> Value(s)]
  <2>1. \A s \in SUBSET (1 .. k) : h[s] = Value(s)
    BY <1>2 DEF IsBuilt
  <2>2. ASSUME NEW s \in SUBSET (1 .. (k + 1)), s # {}
        PROVE  s \ {Max(s)} \in SUBSET (1 .. k)
    <3>1. k + 1 \in Nat
      OBVIOUS
    <3>2. Max(s) \in s /\ \A y \in s : y <= Max(s)
      BY <2>2, <3>1, GreatestNumber
    <3>3. ASSUME NEW y \in s, y # Max(s) PROVE y \in 1 .. k
      <4>1. y \in 1 .. (k + 1) /\ Max(s) \in 1 .. (k + 1) /\ y <= Max(s)
        BY <3>2
      <4> QED BY <3>3, <4>1
    <3> QED BY <3>3
  <2>3. SUBSET (1 .. k) \subseteq SUBSET (1 .. (k + 1))
    OBVIOUS
  <2> HIDE DEF Value
  <2>4. \A s \in SUBSET (1 .. k) : g[s] = h[s]
    BY <2>1, <2>3
  <2>5. \A s \in SUBSET (1 .. (k + 1)) :
          Value(s) = IF s = {} THEN c
                     ELSE LET x == Max(s) IN Performed(g[s \ {x}], txs[x])
    BY <2>2, <2>4 DEF Value
  <2>6. g = [s \in SUBSET (1 .. (k + 1)) |->
               IF s = {} THEN c
               ELSE LET x == Max(s) IN Performed(g[s \ {x}], txs[x])]
    BY <2>5
  <2> HIDE DEF g
  <2>7. IsBuilt(c, txs, 1 .. (k + 1), g)
    BY <2>6, Zenon DEF IsBuilt
  <2> QED BY <2>7
<1>3. Bad = {}
  <2> SUFFICES ASSUME Bad # {} PROVE FALSE
    OBVIOUS
  <2>1. Bad \subseteq Nat
    OBVIOUS
  <2>2. PICK k \in Bad : \A m \in Bad : k <= m
    BY <2>1, LeastNumber
  <2>3. k # 0
    BY <1>1, <2>2
  <2>4. k - 1 \in 0 .. n /\ k - 1 \in Nat /\ ~(k <= k - 1)
    BY <2>2, <2>3
  <2>5. \E h : IsBuilt(c, txs, 1 .. (k - 1), h)
    BY <2>2, <2>4
  <2>6. \E g : IsBuilt(c, txs, 1 .. ((k - 1) + 1), g)
    BY <1>2, <2>4, <2>5
  <2>7. (k - 1) + 1 = k
    BY <2>4
  <2> QED BY <2>2, <2>6, <2>7
<1> QED BY <1>3

LEMMA FoldUnfolds ==
  ASSUME NEW c, NEW txs
  PROVE  FoldLeft(Performed, c, txs) = Built(c, txs, DOMAIN txs)[DOMAIN txs]
BY DEF FoldLeft, MapThenFoldSet, Built, IsBuilt

(* Folding a sequence of transactions is performing them in order.         *)
LEMMA FoldSteps ==
  ASSUME NEW c, NEW S, NEW txs \in Seq(S)
  PROVE  \E b : /\ b[0] = c
                /\ \A k \in 1 .. Len(txs) : b[k] = Performed(b[k - 1], txs[k])
                /\ FoldLeft(Performed, c, txs) = b[Len(txs)]
<1> DEFINE n == Len(txs)
           h == Built(c, txs, 1 .. n)
           b == [k \in 0 .. n |-> h[1 .. k]]
<1>1. n \in Nat /\ DOMAIN txs = 1 .. n
  BY LenProperties
<1>2. IsBuilt(c, txs, 1 .. n, h)
  <2>1. \E g : IsBuilt(c, txs, 1 .. n, g)
    BY <1>1, BuiltExists
  <2> HIDE DEF n
  <2> QED BY <2>1, Zenon DEF Built
<1>3. FoldLeft(Performed, c, txs) = h[1 .. n]
  BY <1>1, FoldUnfolds
<1> HIDE DEF n, h
<1>4. ASSUME NEW s \in SUBSET (1 .. n)
      PROVE  h[s] = IF s = {} THEN c
                    ELSE Performed(h[s \ {Max(s)}], txs[Max(s)])
  BY <1>2 DEF IsBuilt
<1>5. b[0] = c
  <2>1. 1 .. 0 = {} /\ 1 .. 0 \in SUBSET (1 .. n)
    OBVIOUS
  <2>2. h[1 .. 0] = c
    BY <1>4, <2>1
  <2> QED BY <1>1, <2>2
<1>6. ASSUME NEW k \in 1 .. n
      PROVE  b[k] = Performed(b[k - 1], txs[k])
  <2>1. k \in Nat /\ 1 .. k \in SUBSET (1 .. n) /\ k \in 1 .. k /\ 1 .. k # {}
        /\ k \in 0 .. n /\ k - 1 \in 0 .. n
    BY <1>1
  <2>2. Max(1 .. k) \in 1 .. k /\ \A y \in 1 .. k : y <= Max(1 .. k)
    BY <2>1, GreatestNumber
  <2>3. Max(1 .. k) = k
    BY <2>1, <2>2
  <2>4. (1 .. k) \ {k} = 1 .. (k - 1)
    BY <2>1
  <2> QED BY <1>4, <2>1, <2>3, <2>4
<1>7. b[n] = h[1 .. n]
  BY <1>1
<1> HIDE DEF b
<1> QED BY <1>3, <1>5, <1>6, <1>7 DEF n

LEMMA OpsOf ==
  /\ \A t \in Creates : t.op = "create" /\ t.at \in Addresses
                        /\ t = [op |-> "create", at |-> t.at]
  /\ \A t \in Mints : t.op = "mint" /\ t.at \in Addresses /\ t.amount \in Nat
  /\ \A t \in NamesTx : t.op = "name" /\ t.at \in Addresses /\ t.tld \in STRING
  /\ \A t \in PairsTx : t.op = "pair" /\ t.at \in Addresses
                        /\ t.from \in Addresses /\ t.to \in Addresses
  /\ \A t \in Grants : t.op = "grant" /\ t.at \in Addresses
                       /\ t.role \in {"burner", "minter"} /\ t.to \in Workers
BY DEF Creates, Mints, NamesTx, PairsTx, Grants

LEMMA SeedingInOrder ==
  ASSUME NEW M \in Manifests
  PROVE  IsScript(M, Seeding(M))
<1> DEFINE N == Len(M.mods)
           ss == [i \in 1 .. N |-> CreateAndSeed(M.mods[i])]
           F == Seeding(M)
<1>1. /\ N \in Nat \ {0} /\ DOMAIN M.mods = 1 .. N
      /\ \A i \in 1 .. N : M.mods[i] \in Modules
  BY ManifestShape
<1>2. F = FlattenSeq(ss)
  BY <1>1 DEF Seeding
<1>3. ss \in [1 .. N -> Seq(Txs)]
  BY <1>1, CreateAndSeedIs
<1> HIDE DEF ss
<1>4. F \in Seq(Txs) /\ \E w : Laid(ss, N, F, w)
  <2> HIDE DEF N, F
  <2> QED BY <1>1, <1>2, <1>3, Flattens
<1>5. PICK w : Laid(ss, N, F, w)
  BY <1>4
<1> HIDE DEF F
<1>6. Len(F) \in Nat
  BY <1>4, LenProperties
<1>7. ASSUME NEW p \in 1 .. Len(F)
      PROVE  /\ w[p][1] \in 1 .. N /\ w[p][2] \in {1, 2}
             /\ w[p] = <<w[p][1], w[p][2]>>
             /\ w[p][2] = 1 => F[p] = [op |-> "create", at |-> Addr(M.mods[w[p][1]])]
             /\ w[p][2] = 2 => /\ M.mods[w[p][1]].seed > 0
                               /\ F[p] = [op |-> "mint", at |-> Addr(M.mods[w[p][1]]),
                                          amount |-> M.mods[w[p][1]].seed]
  <2> DEFINE i == w[p][1]
             k == w[p][2]
  <2>1. /\ w[p] \in Nat \X Nat /\ i \in 1 .. N /\ k \in 1 .. Len(ss[i])
        /\ F[p] = ss[i][k]
    BY <1>5 DEF Laid
  <2>2. w[p] = <<i, k>>
    BY <2>1
  <2> HIDE DEF i, k
  <2>3. ss[i] = CreateAndSeed(M.mods[i]) /\ M.mods[i] \in Modules
    BY <1>1, <2>1 DEF ss
  <2>4. k \in 1 .. (IF M.mods[i].seed > 0 THEN 2 ELSE 1)
    BY <2>1, <2>3, CreateAndSeedIs
  <2>5. k = 1 => F[p] = [op |-> "create", at |-> Addr(M.mods[i])]
    BY <2>1, <2>3, CreateAndSeedIs
  <2>6. k = 2 => /\ M.mods[i].seed > 0
                 /\ F[p] = [op |-> "mint", at |-> Addr(M.mods[i]),
                            amount |-> M.mods[i].seed]
    <3>1. M.mods[i].seed \in Nat
      BY <2>3 DEF Modules
    <3>2. k = 2 => M.mods[i].seed > 0
      BY <2>4, <3>1
    <3>3. M.mods[i].seed > 0 =>
            CreateAndSeed(M.mods[i])[2] = [op |-> "mint", at |-> Addr(M.mods[i]),
                                           amount |-> M.mods[i].seed]
      BY <2>3, CreateAndSeedIs
    <3>4. k = 2 => F[p] = CreateAndSeed(M.mods[i])[2]
      BY <2>1, <2>3
    <3> QED BY <3>2, <3>3, <3>4
  <2>7. k \in {1, 2}
    BY <2>4
  <2> QED BY <2>1, <2>2, <2>5, <2>6, <2>7 DEF i, k
<1>8. ASSUME NEW i \in 1 .. N
      PROVE  /\ \E p \in 1 .. Len(F) : w[p] = <<i, 1>>
             /\ M.mods[i].seed > 0 => \E p \in 1 .. Len(F) : w[p] = <<i, 2>>
  <2>1. ss[i] = CreateAndSeed(M.mods[i]) /\ M.mods[i] \in Modules
    BY <1>1 DEF ss
  <2>2. /\ 1 \in 1 .. Len(ss[i])
        /\ M.mods[i].seed > 0 => 2 \in 1 .. Len(ss[i])
    <3>1. Len(ss[i]) = IF M.mods[i].seed > 0 THEN 2 ELSE 1
      BY <2>1, CreateAndSeedIs
    <3> QED BY <3>1
  <2> QED BY <1>5, <2>2 DEF Laid
<1>9. ASSUME NEW p \in 1 .. Len(F), NEW q \in 1 .. Len(F), w[p] = w[q]
      PROVE  p = q
  <2>1. p \in Nat /\ q \in Nat
    BY <1>6
  <2>2. w[p][1] \in 1 .. N /\ w[p][2] \in {1, 2}
    BY <1>7
  <2> DEFINE i == w[p][1]
             k == w[p][2]
  <2>3. i \in Nat /\ k \in Nat
    BY <1>1, <2>2
  <2>4. /\ p < q => (i < w[q][1]) \/ (i = w[q][1] /\ k < w[q][2])
        /\ q < p => (w[q][1] < i) \/ (w[q][1] = i /\ w[q][2] < k)
    BY <1>5 DEF Laid
  <2>5. w[q][1] = i /\ w[q][2] = k
    BY <1>9
  <2> HIDE DEF i, k
  <2>6. ~(p < q) /\ ~(q < p)
    BY <2>3, <2>4, <2>5
  <2> QED BY <2>1, <2>6
<1> DEFINE mod(p) == M.mods[w[p][1]]
<1>10. ASSUME NEW p \in 1 .. Len(F)
       PROVE  /\ mod(p) \in Range(M.mods) /\ mod(p) \in Modules
              /\ F[p].op = "create" => w[p][2] = 1 /\ F[p].at = Addr(mod(p))
              /\ F[p].op = "mint" => /\ w[p][2] = 2 /\ F[p].at = Addr(mod(p))
                                     /\ F[p].amount = mod(p).seed
                                     /\ mod(p).seed > 0
  <2>1. mod(p) \in Range(M.mods) /\ mod(p) \in Modules
    BY <1>1, <1>7, RangeIs
  <2>2. CASE w[p][2] = 1
    <3>2. F[p] = [op |-> "create", at |-> Addr(mod(p))]
      BY <1>7, <2>2
    <3>1. F[p].op = "create" /\ F[p].at = Addr(mod(p))
      BY <3>2
    <3> HIDE DEF mod
    <3> QED BY <2>1, <2>2, <3>1
  <2>3. CASE w[p][2] = 2
    <3>2. /\ F[p] = [op |-> "mint", at |-> Addr(mod(p)), amount |-> mod(p).seed]
          /\ mod(p).seed > 0
      BY <1>7, <2>3
    <3>1. /\ F[p].op = "mint" /\ F[p].at = Addr(mod(p))
          /\ F[p].amount = mod(p).seed /\ mod(p).seed > 0
      BY <3>2
    <3> HIDE DEF mod
    <3> QED BY <2>1, <2>3, <3>1
  <2> QED BY <1>7, <2>2, <2>3
<1>11. ASSUME NEW p \in 1 .. Len(F), F[p].op = "mint"
       PROVE  \E k \in 1 .. (p - 1) : F[k] = [op |-> "create", at |-> F[p].at]
  <2>1. w[p][1] \in 1 .. N /\ w[p][2] = 2 /\ F[p].at = Addr(mod(p))
    BY <1>7, <1>10, <1>11
  <2>2. PICK q \in 1 .. Len(F) : w[q] = <<w[p][1], 1>>
    BY <1>8, <2>1
  <2>3. w[q][1] = w[p][1] /\ w[q][2] = 1
    BY <2>2
  <2>4. F[q] = [op |-> "create", at |-> F[p].at]
    BY <1>7, <2>1, <2>3
  <2>5. ~(p < q)
    <3>1. p < q => \/ w[p][1] < w[q][1]
                   \/ w[p][1] = w[q][1] /\ w[p][2] < w[q][2]
      BY <1>5 DEF Laid
    <3> QED BY <3>1, <2>1, <2>3, <1>1
  <2>6. p # q
    BY <2>1, <2>3
  <2>7. q \in 1 .. (p - 1)
    BY <1>6, <2>5, <2>6
  <2> QED BY <2>4, <2>7
<1>12. ASSUME NEW p \in 1 .. Len(F), NEW q \in 1 .. Len(F), p # q,
              F[p].op = "mint", F[q].op = "mint", F[p].at = F[q].at
       PROVE  FALSE
  <2>1. /\ w[p][1] \in 1 .. N /\ w[q][1] \in 1 .. N
        /\ Addr(M.mods[w[p][1]]) = Addr(M.mods[w[q][1]])
        /\ w[p] = <<w[p][1], 2>> /\ w[q] = <<w[q][1], 2>>
    BY <1>7, <1>10, <1>12
  <2>2. w[p][1] = w[q][1]
    BY <2>1, OneModuleAtAnAddress
  <2>3. w[p] = w[q]
    BY <2>1, <2>2
  <2> QED BY <1>9, <1>12, <2>3
<1>13. ASSUME NEW m \in Range(M.mods), m.seed > 0
       PROVE  \E p \in 1 .. Len(F) : F[p].op = "mint" /\ F[p].at = Addr(m)
  <2>1. PICK i \in 1 .. N : m = M.mods[i]
    BY RangeIs
  <2>2. PICK p \in 1 .. Len(F) : w[p] = <<i, 2>>
    BY <1>8, <1>13, <2>1
  <2>3. w[p][1] = i /\ w[p][2] = 2
    BY <2>2
  <2>4. F[p] = [op |-> "mint", at |-> Addr(m), amount |-> m.seed]
    BY <1>7, <2>1, <2>3
  <2> QED BY <2>4
<1>14. ASSUME NEW p \in 1 .. Len(F), F[p].op = "create"
       PROVE  F[p].at \in Planned(M)
  BY <1>10, <1>14 DEF Planned
<1> HIDE DEF mod
<1>15. InOrder(M, F)
  <2>1. \A p \in 1 .. Len(F) : F[p].op = "mint" =>
          /\ \E m \in Range(M.mods) : F[p].at = Addr(m) /\ F[p].amount = m.seed
          /\ F[p].amount > 0
    BY <1>10
  <2> QED BY <1>11, <1>12, <1>13, <1>14, <2>1 DEF InOrder
<1> QED BY <1>4, <1>15 DEF IsScript, F

(* What follows the modules neither creates nor seeds.                     *)
LEMMA WiringKeepsOrder ==
  ASSUME NEW M \in Manifests, NEW txs, IsScript(M, txs), NEW rest \in Seq(Wiring)
  PROVE  IsScript(M, txs \o rest)
<1> DEFINE G == txs \o rest
           L == Len(txs)
<1>1. rest \in Seq(Txs) /\ txs \in Seq(Txs)
  <2>1. Wiring \subseteq Txs
    BY DEF Txs
  <2> QED BY <2>1, SeqMonotonic DEF IsScript
<1>2. /\ G \in Seq(Txs) /\ Len(G) = L + Len(rest) /\ L \in Nat /\ Len(rest) \in Nat
      /\ \A n \in 1 .. Len(G) : G[n] = IF n <= L THEN txs[n] ELSE rest[n - L]
  BY <1>1, ConcatProperties, LenProperties
<1>3. InOrder(M, txs)
  BY DEF IsScript
<1> HIDE DEF G, L
<1>4. ASSUME NEW n \in 1 .. Len(G), G[n].op \in {"create", "mint"}
      PROVE  n \in 1 .. L /\ G[n] = txs[n]
  <2>1. CASE n <= L
    BY <1>2, <2>1
  <2>2. CASE ~(n <= L)
    <3>1. n - L \in 1 .. Len(rest) /\ G[n] = rest[n - L]
      BY <1>2, <2>2
    <3>2. rest[n - L] \in Wiring
      BY <3>1, ElementOfSeq
    <3>3. G[n].op \notin {"create", "mint"}
      BY <3>1, <3>2, OpsOf DEF Wiring
    <3> QED BY <1>4, <3>3
  <2> QED BY <2>1, <2>2
<1>5. \A n \in 1 .. L : n \in 1 .. Len(G) /\ G[n] = txs[n]
  BY <1>2
<1>6. \A n \in 1 .. Len(G) : G[n].op = "create" => G[n].at \in Planned(M)
  BY <1>3, <1>4 DEF InOrder, L
<1>7. ASSUME NEW n \in 1 .. Len(G), G[n].op = "mint"
      PROVE  /\ \E m \in Range(M.mods) : G[n].at = Addr(m) /\ G[n].amount = m.seed
             /\ G[n].amount > 0
             /\ \E k \in 1 .. (n - 1) : G[k] = [op |-> "create", at |-> G[n].at]
  <2>1. n \in 1 .. L /\ G[n] = txs[n]
    BY <1>4, <1>7
  <2>2. /\ \E m \in Range(M.mods) : txs[n].at = Addr(m) /\ txs[n].amount = m.seed
        /\ txs[n].amount > 0
        /\ \E k \in 1 .. (n - 1) : txs[k] = [op |-> "create", at |-> txs[n].at]
    BY <1>3, <1>7, <2>1 DEF InOrder, L
  <2>3. \A k \in 1 .. (n - 1) : G[k] = txs[k]
    BY <1>2, <1>5, <2>1
  <2> QED BY <2>1, <2>2, <2>3
<1>8. \A n, k \in 1 .. Len(G) :
        n # k /\ G[n].op = "mint" /\ G[k].op = "mint" => G[n].at # G[k].at
  BY <1>3, <1>4 DEF InOrder, L
<1>9. \A m \in Range(M.mods) : m.seed > 0 =>
        \E n \in 1 .. Len(G) : G[n].op = "mint" /\ G[n].at = Addr(m)
  BY <1>3, <1>5 DEF InOrder, L
<1>10. InOrder(M, G)
  BY <1>6, <1>7, <1>8, <1>9 DEF InOrder
<1> QED BY <1>2, <1>10 DEF IsScript, G

LEMMA ModuleAddresses ==
  ASSUME NEW M \in Manifests, NEW kind
  PROVE  /\ AddrsOf(M, kind) \subseteq Planned(M) /\ Planned(M) \subseteq Addresses
         /\ \A a \in AddrsOf(M, kind) : a \in Addresses /\ a[1] = kind
         /\ \A m \in Of(M.mods, kind) : /\ m \in Range(M.mods) /\ m \in Modules
                                        /\ Addr(m) \in AddrsOf(M, kind)
BY RangeIs, AddrType DEF AddrsOf, Planned, Of

LEMMA TokenAtIs ==
  ASSUME NEW M \in Manifests, NEW p \in Range(M.pairs)
  PROVE  /\ TokenAt(M, p.source) \in AddrsOf(M, "token")
         /\ TokenAt(M, p.target) \in AddrsOf(M, "token")
<1>1. PairsGood(M.mods, M.pairs)
  BY BootAssumption DEF Accepted
<1>2. p.source \in KeysOf(Of(M.mods, "token"))
      /\ p.target \in KeysOf(Of(M.mods, "token"))
  BY <1>1 DEF PairsGood
<1>3. ASSUME NEW key \in KeysOf(Of(M.mods, "token"))
      PROVE  TokenAt(M, key) \in AddrsOf(M, "token")
  <2>1. \E m \in Of(M.mods, "token") : m.key = key
    BY DEF KeysOf
  <2>2. (CHOOSE m \in Of(M.mods, "token") : m.key = key) \in Of(M.mods, "token")
    BY <2>1
  <2> QED BY <2>2 DEF TokenAt, AddrsOf
<1> QED BY <1>2, <1>3

LEMMA WorkerAt ==
  ASSUME NEW M \in Manifests, NEW kind \in {"converter", "escrow"},
         AddrsOf(M, kind) # {}
  PROVE  /\ (CHOOSE a \in AddrsOf(M, kind) : TRUE) \in AddrsOf(M, kind)
         /\ (CHOOSE a \in AddrsOf(M, kind) : TRUE) \in Workers
<1>1. (CHOOSE a \in AddrsOf(M, kind) : TRUE) \in AddrsOf(M, kind)
  OBVIOUS
<1> QED BY <1>1, ModuleAddresses DEF Workers

LEMMA NameTxs ==
  ASSUME NEW M \in Manifests
  PROVE  TreasuryName(M) \in Seq(Wiring)
<1> DEFINE N == AddrsOf(M, "names")
<1>1. CASE Of(M.mods, "token") = {}
  BY <1>1, EmptySeq DEF TreasuryName
<1>2. CASE Of(M.mods, "token") # {}
  <2>1. IsFiniteSet(N)
    <3> DEFINE D == 1 .. Len(M.mods)
               f == [i \in D |-> Addr(M.mods[i])]
    <3>1. IsFiniteSet(D)
      <4>1. 1 \in Int /\ Len(M.mods) \in Int
        BY ManifestShape
      <4> QED BY <4>1, FS_Interval
    <3>2. f \in Surjection(D, Planned(M))
      BY RangeIs DEF Surjection, Planned
    <3> HIDE DEF f, D
    <3>3. IsFiniteSet(Planned(M))
      BY <3>1, <3>2, FS_Surjection
    <3> QED BY <3>3, FS_Subset, ModuleAddresses
  <2>2. Cardinality(N) \in Nat
    BY <2>1, FS_CardinalityType
  <2> DEFINE tx == [op |-> "name", at |-> CHOOSE a \in N : TRUE, tld |-> M.tld]
             C == Cardinality(N)
  <2>3. TreasuryName(M) = [i \in 1 .. C |-> tx]
    BY <1>2 DEF TreasuryName
  <2>4. CASE N = {}
    <3>1. C = 0
      BY <2>4, FS_EmptySet
    <3>2. TreasuryName(M) \in [1 .. 0 -> Wiring]
      BY <2>3, <3>1
    <3> QED BY <3>2, SeqDef
  <2>5. CASE N # {}
    <3>1. (CHOOSE a \in N : TRUE) \in N
      BY <2>5
    <3>2. tx \in Wiring
      BY <3>1, ModuleAddresses, ManifestShape DEF Wiring, NamesTx
    <3> HIDE DEF tx, C
    <3>3. C \in Nat
      BY <2>2 DEF C
    <3>4. TreasuryName(M) \in [1 .. C -> Wiring]
      BY <2>3, <3>2
    <3> QED BY <3>3, <3>4, SeqDef
  <2> QED BY <2>4, <2>5
<1> QED BY <1>1, <1>2

LEMMA PairTxs ==
  ASSUME NEW M \in Manifests, NEW p \in Range(M.pairs)
  PROVE  PairAndRoles(M, p) \in Seq(Wiring)
<1> DEFINE c == CHOOSE a \in AddrsOf(M, "converter") : TRUE
           s == TokenAt(M, p.source)
           t == TokenAt(M, p.target)
<1>1. M.pairs # <<>>
  BY ManifestShape, EmptySeq DEF Range
<1>2. PairsGood(M.mods, M.pairs)
  BY BootAssumption DEF Accepted
<1>3. Of(M.mods, "converter") # {}
  BY <1>1, <1>2, Zenon DEF PairsGood
<1>4. AddrsOf(M, "converter") # {}
  BY <1>3 DEF AddrsOf
<1>5. c \in Workers
  BY <1>4, WorkerAt
<1>6. s \in Addresses /\ t \in Addresses
  BY TokenAtIs, ModuleAddresses
<1> HIDE DEF c, s, t
<1>7. /\ [op |-> "pair", at |-> c, from |-> s, to |-> t] \in Wiring
      /\ Grant(s, "burner", c) \in Wiring /\ Grant(t, "minter", c) \in Wiring
  BY <1>5, <1>6 DEF Grant, Wiring, PairsTx, Grants, Workers
<1>8. PairAndRoles(M, p) =
        <<[op |-> "pair", at |-> c, from |-> s, to |-> t],
          Grant(s, "burner", c), Grant(t, "minter", c)>>
  BY DEF PairAndRoles, c, s, t
<1> QED BY <1>7, <1>8

LEMMA EscrowTxs ==
  ASSUME NEW M \in Manifests, NEW m \in Range(M.mods)
  PROVE  EscrowRoles(M, m) \in Seq(Wiring)
<1>1. CASE m.kind # "token" \/ AddrsOf(M, "escrow") = {}
  BY <1>1, EmptySeq DEF EscrowRoles
<1>2. CASE ~(m.kind # "token" \/ AddrsOf(M, "escrow") = {})
  <2> DEFINE e == CHOOSE a \in AddrsOf(M, "escrow") : TRUE
  <2>1. e \in Workers
    BY <1>2, WorkerAt
  <2>2. Addr(m) \in Addresses
    BY RangeIs, AddrType
  <2>3. EscrowRoles(M, m) = <<Grant(Addr(m), "burner", e), Grant(Addr(m), "minter", e)>>
    BY <1>2 DEF EscrowRoles
  <2> HIDE DEF e
  <2>4. Grant(Addr(m), "burner", e) \in Wiring /\ Grant(Addr(m), "minter", e) \in Wiring
    BY <2>1, <2>2 DEF Grant, Wiring, Grants
  <2> QED BY <2>3, <2>4
<1> QED BY <1>1, <1>2

(* The transactions of a manifest come in order.                           *)
LEMMA ScriptInOrder ==
  ASSUME NEW M \in Manifests
  PROVE  IsScript(M, Script(M))
<1> DEFINE pairs == [i \in DOMAIN M.pairs |-> PairAndRoles(M, M.pairs[i])]
           roles == [i \in DOMAIN M.mods |-> EscrowRoles(M, M.mods[i])]
<1>1. FlattenSeq(pairs) \in Seq(Wiring)
  <2>1. CASE Len(M.pairs) = 0
    <3>1. M.pairs = <<>> /\ DOMAIN M.pairs = {}
      BY <2>1, ManifestShape, EmptySeq
    <3>2. pairs = <<>>
      BY <3>1
    <3> HIDE DEF pairs
    <3>3. Len(pairs) = 0 /\ pairs \in Seq(Wiring)
      BY <3>2, EmptySeq
    <3> QED BY <3>3 DEF FlattenSeq
  <2>2. CASE Len(M.pairs) # 0
    <3> DEFINE n == Len(M.pairs)
    <3>1. n \in Nat \ {0} /\ DOMAIN M.pairs = 1 .. n
      BY <2>2, ManifestShape
    <3>2. pairs \in [1 .. n -> Seq(Wiring)]
      BY <3>1, PairTxs, RangeIs
    <3> HIDE DEF n, pairs
    <3> QED BY <3>1, <3>2, Flattens
  <2> QED BY <2>1, <2>2
<1>2. FlattenSeq(roles) \in Seq(Wiring)
  <2> DEFINE n == Len(M.mods)
  <2>1. n \in Nat \ {0} /\ DOMAIN M.mods = 1 .. n
    BY ManifestShape
  <2>2. roles \in [1 .. n -> Seq(Wiring)]
    BY <2>1, EscrowTxs, RangeIs
  <2> HIDE DEF n, roles
  <2> QED BY <2>1, <2>2, Flattens
<1>3. Script(M) = ((Seeding(M) \o TreasuryName(M)) \o FlattenSeq(pairs))
                    \o FlattenSeq(roles)
  BY DEF Script, Seeding
<1> HIDE DEF pairs, roles
<1> QED BY <1>1, <1>2, <1>3, SeedingInOrder, NameTxs, WiringKeepsOrder

-----------------------------------------------------------------------------
(* What a transaction does to the contracts *)

Roles == {"admin", "minter", "freezer", "registrar", "rate_admin", "burner"}
ContractsType ==
  [code : SUBSET Addresses,
   supply : UNION {[D -> Nat] : D \in SUBSET Addresses},
   roles : SUBSET (Addresses \X Roles \X (Workers \cup {Treasury})),
   names : SUBSET (Addresses \X STRING),
   pairs : SUBSET (Addresses \X Addresses \X Addresses)]

(* Only the treasury has a role that is not burning or minting, and it     *)
(* does not burn; a token has issued nothing or one of its seeds.          *)
RolesGiven(c) ==
  \A x \in c.roles :
    \/ x[3] = Treasury /\ x[2] # "burner"
    \/ x[3] \in Workers /\ x[2] \in {"burner", "minter"}
SeededOnly(c) ==
  \A a \in Addresses : /\ Supply(c, a) \in SeedsOf(a) \cup {0}
                       /\ Supply(c, a) # 0 => a \in c.code
ContractsOK(c) == c \in ContractsType /\ RolesGiven(c) /\ SeededOnly(c)

Grows(c, d) == /\ c.code \subseteq d.code /\ c.roles \subseteq d.roles
               /\ c.names \subseteq d.names /\ c.pairs \subseteq d.pairs

LEMMA TreasuryIsNoAddress == Treasury \notin Addresses
<1>1. \A a \in Addresses : DOMAIN a = 1 .. 3
  BY DEF Addresses
<1>2. DOMAIN Treasury = 1 .. 1
  BY DEF Treasury
<1>3. 1 .. 1 # 1 .. 3
  <2>1. 3 \in 1 .. 3 /\ 3 \notin 1 .. 1
    OBVIOUS
  <2> QED BY <2>1
<1> QED BY <1>1, <1>2, <1>3

LEMMA OwnRolesAre ==
  ASSUME NEW kind
  PROVE  OwnRoles(kind) \subseteq Roles \ {"burner"}
BY DEF OwnRoles, Roles

LEMMA SeedIsOne ==
  ASSUME NEW M \in Manifests, NEW m \in Range(M.mods)
  PROVE  m.seed \in SeedsOf(Addr(m))
BY DEF SeedsOf

LEMMA SupplyIsNat ==
  ASSUME NEW c \in ContractsType, NEW a
  PROVE  Supply(c, a) \in Nat
BY DEF Supply, ContractsType

(* Nothing on a new chain.                                                 *)
LEMMA NoContractsOK == ContractsOK(NoContracts)
<1>1. <<>> \in UNION {[D -> Nat] : D \in SUBSET Addresses}
      /\ DOMAIN <<>> = {}
  <2>1. <<>> \in Seq(Nat) /\ Len(<<>>) = 0
    BY EmptySeq
  <2>2. DOMAIN <<>> = 1 .. 0 /\ <<>> \in [1 .. 0 -> Nat]
    BY <2>1, LenProperties
  <2>3. 1 .. 0 = {} /\ {} \in SUBSET Addresses
    OBVIOUS
  <2>4. <<>> \in [{} -> Nat]
    BY <2>2, <2>3
  <2> QED BY <2>2, <2>3, <2>4
<1>2. NoContracts \in ContractsType
  BY <1>1 DEF NoContracts, ContractsType
<1>3. \A a : Supply(NoContracts, a) = 0
  BY <1>1 DEF NoContracts, Supply
<1> QED
  BY <1>2, <1>3 DEF ContractsOK, RolesGiven, SeededOnly, NoContracts

(* A transaction adds to what is there.                                    *)
LEMMA PerformedType ==
  ASSUME NEW c \in ContractsType, NEW t \in Txs
  PROVE  /\ Performed(c, t) \in ContractsType /\ Grows(c, Performed(c, t))
         /\ t.op = "create" => t.at \in Performed(c, t).code
<1> DEFINE d == Performed(c, t)
<1>1. t \in Creates \/ t \in Mints \/ t \in NamesTx \/ t \in PairsTx \/ t \in Grants
  BY DEF Txs, Wiring
<1>2. CASE t \in Creates
  <2>1. t.op = "create" /\ t.at \in Addresses
    BY <1>2, OpsOf
  <2> DEFINE given == {<<t.at, r, Treasury>> : r \in OwnRoles(t.at[1])}
  <2>2. d = [c EXCEPT !.code = @ \cup {t.at}, !.roles = @ \cup given]
    BY <2>1 DEF Performed
  <2>3. given \subseteq Addresses \X Roles \X (Workers \cup {Treasury})
    BY <2>1, OwnRolesAre
  <2> HIDE DEF given, d
  <2>4. d \in ContractsType /\ Grows(c, d) /\ t.at \in d.code
    BY <2>1, <2>2, <2>3 DEF ContractsType, Grows
  <2> QED BY <2>4 DEF d
<1>3. CASE t \in Mints
  <2>1. t.op = "mint" /\ t.at \in Addresses /\ t.amount \in Nat
    BY <1>3, OpsOf
  <2> DEFINE s == [a \in (DOMAIN c.supply) \cup {t.at} |->
                     Supply(c, a) + (IF a = t.at THEN t.amount ELSE 0)]
  <2>2. d = [c EXCEPT !.supply = s]
    BY <2>1 DEF Performed
  <2>3. /\ s \in [(DOMAIN c.supply) \cup {t.at} -> Nat]
        /\ (DOMAIN c.supply) \cup {t.at} \subseteq Addresses
    BY <2>1, SupplyIsNat DEF ContractsType
  <2> HIDE DEF s, d
  <2>4. d \in ContractsType /\ Grows(c, d)
    BY <2>2, <2>3 DEF ContractsType, Grows
  <2> QED BY <2>1, <2>4 DEF d
<1>4. CASE t \in NamesTx
  <2>1. t.op = "name" /\ t.at \in Addresses /\ t.tld \in STRING
    BY <1>4, OpsOf
  <2>2. d = [c EXCEPT !.names = @ \cup {<<t.at, t.tld>>}]
    BY <2>1 DEF Performed
  <2> HIDE DEF d
  <2>3. d \in ContractsType /\ Grows(c, d)
    BY <2>1, <2>2 DEF ContractsType, Grows
  <2> QED BY <2>1, <2>3 DEF d
<1>5. CASE t \in PairsTx
  <2>1. t.op = "pair" /\ t.at \in Addresses /\ t.from \in Addresses
        /\ t.to \in Addresses
    BY <1>5, OpsOf
  <2>2. d = [c EXCEPT !.pairs = @ \cup {<<t.at, t.from, t.to>>}]
    BY <2>1 DEF Performed
  <2> HIDE DEF d
  <2>3. d \in ContractsType /\ Grows(c, d)
    BY <2>1, <2>2 DEF ContractsType, Grows
  <2> QED BY <2>1, <2>3 DEF d
<1>6. CASE t \in Grants
  <2>1. t.op = "grant" /\ t.at \in Addresses /\ t.role \in Roles /\ t.to \in Workers
    BY <1>6, OpsOf DEF Roles
  <2>2. d = [c EXCEPT !.roles = @ \cup {<<t.at, t.role, t.to>>}]
    BY <2>1 DEF Performed
  <2> HIDE DEF d
  <2>3. d \in ContractsType /\ Grows(c, d)
    BY <2>1, <2>2 DEF ContractsType, Grows
  <2> QED BY <2>1, <2>3 DEF d
<1> QED BY <1>1, <1>2, <1>3, <1>4, <1>5, <1>6

(* A seed is added where nothing was, and a role is given to its holder.   *)
LEMMA PerformedIs ==
  ASSUME NEW c, ContractsOK(c), NEW t \in Txs,
         t.op = "mint" => /\ Supply(c, t.at) = 0 /\ t.at \in c.code
                          /\ t.amount \in SeedsOf(t.at)
  PROVE  /\ ContractsOK(Performed(c, t))
         /\ \A a \in Addresses :
              Supply(Performed(c, t), a) =
                IF t.op = "mint" /\ a = t.at THEN t.amount ELSE Supply(c, a)
<1> DEFINE d == Performed(c, t)
<1>1. /\ c \in ContractsType /\ RolesGiven(c) /\ SeededOnly(c)
      /\ \A a \in Addresses : Supply(c, a) \in Nat
      /\ d \in ContractsType /\ Grows(c, d)
  BY SupplyIsNat, PerformedType DEF ContractsOK
<1>2. t \in Creates \/ t \in Mints \/ t \in NamesTx \/ t \in PairsTx \/ t \in Grants
  BY DEF Txs, Wiring
<1>3. ASSUME d.supply = c.supply
      PROVE  /\ SeededOnly(d)
             /\ \A a \in Addresses : Supply(d, a) = Supply(c, a)
  <2>1. \A a \in Addresses : Supply(d, a) = Supply(c, a)
    BY <1>3 DEF Supply
  <2> HIDE DEF d
  <2> QED BY <1>1, <2>1 DEF SeededOnly, Grows
<1>4. CASE t \in Creates
  <2>1. t.op = "create" /\ t.at \in Addresses
    BY <1>4, OpsOf
  <2> DEFINE given == {<<t.at, r, Treasury>> : r \in OwnRoles(t.at[1])}
  <2>2. d = [c EXCEPT !.code = @ \cup {t.at}, !.roles = @ \cup given]
    BY <2>1 DEF Performed
  <2>3. \A x \in given : x[3] = Treasury /\ x[2] # "burner"
    BY OwnRolesAre
  <2> HIDE DEF given, d
  <2>4. d.supply = c.supply /\ d.roles = c.roles \cup given
    BY <1>1, <2>2 DEF ContractsType
  <2>5. RolesGiven(d)
    BY <1>1, <2>3, <2>4 DEF RolesGiven
  <2> QED BY <1>1, <1>3, <2>1, <2>4, <2>5 DEF ContractsOK, d
<1>5. CASE t \in Mints
  <2>1. t.op = "mint" /\ t.at \in Addresses /\ t.amount \in Nat
    BY <1>5, OpsOf
  <2> DEFINE s == [a \in (DOMAIN c.supply) \cup {t.at} |->
                     Supply(c, a) + (IF a = t.at THEN t.amount ELSE 0)]
  <2>2. d = [c EXCEPT !.supply = s]
    BY <2>1 DEF Performed
  <2>3. /\ (DOMAIN c.supply) \cup {t.at} \subseteq Addresses
        /\ DOMAIN s = (DOMAIN c.supply) \cup {t.at}
    BY <1>1, <2>1 DEF ContractsType
  <2>4. \A a \in DOMAIN s : s[a] = IF a = t.at THEN t.amount ELSE Supply(c, a)
    BY <1>1, <2>1, <2>3
  <2> HIDE DEF s, d
  <2>5. d.supply = s /\ d.roles = c.roles
    BY <1>1, <2>2 DEF ContractsType
  <2>6. \A a \in Addresses :
          Supply(d, a) = IF a = t.at THEN t.amount ELSE Supply(c, a)
    <3> TAKE a \in Addresses
    <3>1. CASE a \in DOMAIN s
      BY <2>4, <2>5, <3>1 DEF Supply
    <3>2. CASE a \notin DOMAIN s
      <4>1. a # t.at /\ a \notin DOMAIN c.supply
        BY <2>3, <3>2
      <4> QED BY <2>5, <3>2, <4>1 DEF Supply
    <3> QED BY <3>1, <3>2
  <2>7. SeededOnly(d)
    BY <1>1, <2>1, <2>6 DEF SeededOnly, Grows
  <2>8. RolesGiven(d)
    BY <1>1, <2>5 DEF RolesGiven
  <2> QED BY <1>1, <2>1, <2>6, <2>7, <2>8 DEF ContractsOK, d
<1>6. CASE t \in NamesTx \/ t \in PairsTx
  <2>1. t.op \in {"name", "pair"}
    BY <1>6, OpsOf
  <2>2. d.supply = c.supply /\ d.roles = c.roles
    BY <1>1, <2>1 DEF Performed, ContractsType
  <2> HIDE DEF d
  <2>3. RolesGiven(d)
    BY <1>1, <2>2 DEF RolesGiven
  <2> QED BY <1>1, <1>3, <2>1, <2>2, <2>3 DEF ContractsOK, d
<1>7. CASE t \in Grants
  <2>1. t.op = "grant" /\ t.role \in {"burner", "minter"} /\ t.to \in Workers
    BY <1>7, OpsOf
  <2> DEFINE x == <<t.at, t.role, t.to>>
  <2>2. d = [c EXCEPT !.roles = @ \cup {x}]
    BY <2>1 DEF Performed
  <2>3. x[3] \in Workers /\ x[2] \in {"burner", "minter"}
    BY <2>1
  <2> HIDE DEF d, x
  <2>4. d.supply = c.supply /\ d.roles = c.roles \cup {x}
    BY <1>1, <2>2 DEF ContractsType
  <2>5. RolesGiven(d)
    BY <1>1, <2>3, <2>4 DEF RolesGiven
  <2> QED BY <1>1, <1>3, <2>1, <2>4, <2>5 DEF ContractsOK, d
<1> QED BY <1>2, <1>4, <1>5, <1>6, <1>7

(* What passes the assertions passes them for ever.                        *)
LEMMA AssertedStays ==
  ASSUME NEW M \in Manifests, NEW c, NEW d, Asserted(c, M),
         Grows(c, d), ContractsOK(d)
  PROVE  Asserted(d, M)
<1>1. \A a, r : Holders(c, a, r) \subseteq Holders(d, a, r)
  BY DEF Holders, Grows
<1>2. /\ Planned(M) \subseteq c.code
      /\ \A a \in AddrsOf(M, "token") : TokenAsserted(c, M, a)
      /\ \A a \in AddrsOf(M, "names") : RegistryAsserted(c, M, a)
      /\ \A a \in AddrsOf(M, "converter") : ConverterAsserted(c, M, a)
  BY DEF Asserted
<1>3. \A x \in d.roles :
        \/ x[3] = Treasury /\ x[2] # "burner"
        \/ x[3] \in Workers /\ x[2] \in {"burner", "minter"}
  BY DEF ContractsOK, RolesGiven
<1>4. Treasury \notin Workers
  BY TreasuryIsNoAddress DEF Workers
<1>5. \A a : Treasury \notin Holders(d, a, "burner")
  BY <1>3, <1>4 DEF Holders
<1>6. \A w \in Workers : w # Treasury
  BY <1>4
<1>7. \A w \in AddrsOf(M, "converter") \cup AddrsOf(M, "escrow") : w \in Workers
  BY ModuleAddresses DEF Workers
<1>8. \A w \in Workers : \A a :
        w \notin Holders(d, a, "admin") \cup Holders(d, a, "freezer")
  BY <1>3, <1>6 DEF Holders
<1>9. Planned(M) \subseteq d.code
  BY <1>2 DEF Grows
<1>10. ASSUME NEW a \in AddrsOf(M, "token") PROVE TokenAsserted(d, M, a)
  <2>1. TokenAsserted(c, M, a)
    BY <1>2
  <2> QED BY <2>1, <1>1, <1>5, <1>7, <1>8 DEF TokenAsserted
<1>11. ASSUME NEW a \in AddrsOf(M, "names") PROVE RegistryAsserted(d, M, a)
  <2>1. RegistryAsserted(c, M, a)
    BY <1>2
  <2> QED BY <2>1, <1>1, <1>7, <1>8 DEF RegistryAsserted, Grows
<1>12. ASSUME NEW a \in AddrsOf(M, "converter") PROVE ConverterAsserted(d, M, a)
  <2>1. ConverterAsserted(c, M, a)
    BY <1>2
  <2> QED BY <2>1, <1>1 DEF ConverterAsserted, Grows
<1>13. ASSUME NEW h \in AddrsOf(M, "judgehook"), NEW x \in d.roles PROVE x[3] # h
  <2>1. h \in Addresses /\ h[1] = "judgehook"
    BY ModuleAddresses
  <2>2. h # Treasury /\ h \notin Workers
    BY <2>1, TreasuryIsNoAddress DEF Workers
  <2> QED BY <1>3, <2>2
<1> QED BY <1>9, <1>10, <1>11, <1>12, <1>13 DEF Asserted

(* A set that every transaction of a sequence stays in holds their fold.   *)
LEMMA FoldKeeps ==
  ASSUME NEW S, NEW c \in S, NEW T, NEW txs \in Seq(T),
         \A s \in S, t \in T : Performed(s, t) \in S
  PROVE  FoldLeft(Performed, c, txs) \in S
<1> DEFINE n == Len(txs)
<1>1. n \in Nat /\ \A k \in 1 .. n : txs[k] \in T
  OBVIOUS
<1>2. PICK b : /\ b[0] = c
               /\ \A k \in 1 .. n : b[k] = Performed(b[k - 1], txs[k])
               /\ FoldLeft(Performed, c, txs) = b[n]
  BY FoldSteps
<1> DEFINE Bad == {k \in 0 .. n : b[k] \notin S}
<1> HIDE DEF n
<1>3. ASSUME Bad # {} PROVE FALSE
  <2>5. Bad \subseteq Nat
    BY <1>1
  <2>1. PICK k \in Bad : \A m \in Bad : k <= m
    <3> HIDE DEF Bad
    <3> QED BY <2>5, <1>3, LeastNumber
  <2>2. k # 0
    BY <1>2, <2>1
  <2>3. k \in 1 .. n /\ k - 1 \in 0 .. n /\ ~(k <= k - 1)
    BY <1>1, <2>1, <2>2
  <2>4. b[k - 1] \in S
    BY <2>1, <2>3
  <2> QED BY <1>1, <1>2, <2>1, <2>3, <2>4
<1>4. b[n] \in S
  BY <1>1, <1>3
<1> QED BY <1>2, <1>4 DEF n

-----------------------------------------------------------------------------
(* The state *)

Keystores == [files : SUBSET Agents, mark : Nat \cup {NoMark}]
Chains    == [c : ContractsType, named : SUBSET Agents, paid : SUBSET Ids]
Volumes   == {"store", "keystore", "chain", "restore"}

(* Every variable holds what the code can put into it: the store's row of  *)
(* the identity, the watermark beside the keys, the record and the manifest*)
(* on disk, the deploy under way.                                          *)
TypeOK ==
  /\ mode \in {"admin", "container"} /\ proc \in {"up", "down"}
  /\ store \in Stores /\ disk \in Disks /\ keys \in Keystores
  /\ chain \in Chains /\ backup \in Copies \cup {NoCopy}
  /\ flags \in SUBSET {"ledger", "chain"}
  /\ live \in Records \cup {NoRecord} /\ deploy \in Deploys \cup {NoDeploy}
  /\ spawning \in SUBSET Agents
  /\ surgery \in SUBSET Volumes
  /\ broken \in BOOLEAN /\ forked \in BOOLEAN /\ halfway \in BOOLEAN
  /\ torn \in BOOLEAN /\ witnessed \in SUBSET Ids

LEMMA VerdictIs ==
  ASSUME NEW rec, NEW acked
  PROVE  /\ Verdict(rec, acked) \in {"ok", "unreadable",
              "chain_replaced_under_store", "ledger_wiped_beneath_live_game"}
         /\ Verdict(rec, acked) = "unreadable" <=> ~TokensRead(rec)
         /\ Verdict(rec, acked) = "chain_replaced_under_store"
              <=> TokensRead(rec) /\ ~DeploymentUnchanged(rec, acked)
         /\ Verdict(rec, acked) = "ok"
              <=> /\ TokensRead(rec) /\ DeploymentUnchanged(rec, acked)
                  /\ LedgerNotRestored(acked)
                  /\ LedgerLifetimeIntact(rec, acked)
BY DEF Verdict

(* What activation leaves behind, field by field.                          *)
LEMMA PrepareIs ==
  ASSUME TypeOK, NEW rec \in Records, NEW acked, Prepare(rec, acked)
  PROVE  /\ store' \in Stores /\ keys' \in Keystores
         /\ witnessed' \in SUBSET Ids /\ torn' \in BOOLEAN
         /\ store'.rows = store.rows /\ store'.made = store.made
         /\ store'.wallets = store.wallets /\ store'.line = store.line
         /\ store'.identity \in {store.identity, Identity(rec)}
         /\ store'.identity # store.identity => store.identity = NoIdentity
         /\ Verdict(rec, acked) # "unreadable" => store'.identity # NoIdentity
         /\ keys'.files = keys.files
         /\ Verdict(rec, acked) # "ok" => /\ keys' = keys /\ torn' = torn
                                          /\ witnessed' = witnessed
         /\ Verdict(rec, acked) = "ok" =>
              /\ keys'.mark = (IF keys.mark = NoMark \/ store.made > keys.mark
                               THEN store.made ELSE keys.mark)
              /\ witnessed' = Witnessing(acked)
<1>1. Identity(rec) \in Identities /\ Identity(rec) # NoIdentity
  BY SentinelAssumption DEF Identities
<1>2. store \in Stores /\ keys \in Keystores /\ witnessed \in SUBSET Ids
  BY DEF TypeOK
<1>3. store' = [store EXCEPT !.identity =
                  IF store.identity = NoIdentity
                     /\ Verdict(rec, acked) # "unreadable"
                  THEN Identity(rec) ELSE store.identity]
  BY DEF Prepare, RememberIdentity
<1>4. IF Verdict(rec, acked) # "ok" THEN keys' = keys /\ witnessed' = witnessed
      ELSE /\ keys' = [keys EXCEPT !.mark =
                         IF keys.mark = NoMark \/ store.made > keys.mark
                         THEN store.made ELSE keys.mark]
           /\ witnessed' = Witnessing(acked)
  BY DEF Prepare, RaiseWatermark
<1>5. Witnessing(acked) \in SUBSET Ids
  BY <1>2 DEF Witnessing, Stores
<1>8. torn' = torn \/ torn' = FALSE
  BY Zenon DEF Prepare, RaiseWatermark
<1>9. torn' \in BOOLEAN /\ (Verdict(rec, acked) # "ok" => torn' = torn)
  BY <1>8, Zenon DEF TypeOK, Prepare, RaiseWatermark
<1>6. CASE Verdict(rec, acked) # "ok"
  BY <1>1, <1>2, <1>3, <1>4, <1>6, <1>9 DEF Stores
<1>7. CASE Verdict(rec, acked) = "ok"
  <2>1. keys'.files = keys.files
        /\ keys'.mark = (IF keys.mark = NoMark \/ store.made > keys.mark
                         THEN store.made ELSE keys.mark)
        /\ keys' \in Keystores
    BY <1>2, <1>4, <1>7 DEF Stores, Keystores
  <2> QED BY <1>1, <1>2, <1>3, <1>4, <1>5, <1>7, <1>9, <2>1 DEF Stores
<1> QED BY <1>6, <1>7

(* What an activation leaves behind that broke off over the watermark.     *)
LEMMA BreaksIs ==
  ASSUME TypeOK, NEW rec \in Records, NEW acked, BreaksAtWatermark(rec, acked)
  PROVE  /\ Verdict(rec, acked) = "ok"
         /\ store' \in Stores /\ keys' \in Keystores
         /\ witnessed' \in SUBSET Ids /\ torn' \in BOOLEAN
         /\ store'.rows = store.rows /\ store'.made = store.made
         /\ store'.wallets = store.wallets /\ store'.line = store.line
         /\ store'.identity \in {store.identity, Identity(rec)}
         /\ keys'.files = keys.files
         /\ \/ keys' = keys /\ torn' = torn /\ witnessed' = witnessed
            \/ keys'.mark = NoMark /\ torn' = TRUE /\ witnessed' = {}
<1>1. Identity(rec) \in Identities
  BY DEF Identities
<1>2. store \in Stores /\ keys \in Keystores /\ witnessed \in SUBSET Ids
      /\ torn \in BOOLEAN
  BY DEF TypeOK
<1>3. /\ Verdict(rec, acked) = "ok"
      /\ store' = [store EXCEPT !.identity =
                     IF store.identity = NoIdentity THEN Identity(rec)
                     ELSE store.identity]
  BY DEF BreaksAtWatermark, RememberIdentity
<1>4. CASE UNCHANGED <<keys, torn, witnessed>>
  BY <1>1, <1>2, <1>3, <1>4 DEF Stores
<1>5. CASE keys' = [keys EXCEPT !.mark = NoMark] /\ torn' = TRUE /\ witnessed' = {}
  <2>1. keys'.files = keys.files /\ keys'.mark = NoMark /\ keys' \in Keystores
    BY <1>2, <1>5 DEF Keystores
  <2> QED BY <1>1, <1>2, <1>3, <1>5, <2>1 DEF Stores
<1> QED BY <1>4, <1>5 DEF BreaksAtWatermark

(* Either way the wallets and the count stay, and a mark goes only torn.   *)
LEMMA MarkAfter ==
  ASSUME TypeOK, NEW rec \in Records, NEW acked,
         Prepare(rec, acked) \/ BreaksAtWatermark(rec, acked)
  PROVE  /\ store'.wallets = store.wallets /\ store'.made = store.made
         /\ store'.identity \in {store.identity, Identity(rec)}
         /\ keys'.files = keys.files
         /\ \/ keys'.mark = keys.mark /\ torn' = torn
            \/ keys'.mark = store.made
            \/ keys'.mark = NoMark /\ torn' = TRUE
            \/ keys'.mark = keys.mark /\ keys.mark # NoMark
<1>1. CASE Prepare(rec, acked)
  <2>1. CASE Verdict(rec, acked) # "ok"
    BY <1>1, <2>1, PrepareIs
  <2>2. CASE Verdict(rec, acked) = "ok"
    <3>1. keys'.mark = (IF keys.mark = NoMark \/ store.made > keys.mark
                        THEN store.made ELSE keys.mark)
      BY <1>1, <2>2, PrepareIs
    <3> QED BY <1>1, <3>1, PrepareIs
  <2> QED BY <2>1, <2>2
<1>2. CASE BreaksAtWatermark(rec, acked)
  BY <1>2, BreaksIs
<1> QED BY <1>1, <1>2

LEMMA InitTypeOK == Init => TypeOK
<1> SUFFICES ASSUME Init PROVE TypeOK
  OBVIOUS
<1>1. store \in Stores
  BY DEF Init, EmptyStore, Stores
<1>2. disk \in Disks
  BY DEF Init, EmptyDisk, Disks
<1>3. chain \in Chains
  BY NoContractsOK DEF Init, EmptyChain, Chains, ContractsOK
<1>4. keys \in Keystores
  BY DEF Init, Keystores
<1> QED BY <1>1, <1>2, <1>3, <1>4 DEF Init, TypeOK

(* The record of an accepted manifest.                                     *)
LEMMA RecordsAre ==
  ASSUME NEW M \in Manifests
  PROVE  /\ RecordFor(M) \in Records /\ RecordFor(M) # NoRecord
         /\ Identity(RecordFor(M)) \in Identities
         /\ Identity(RecordFor(M)) # NoIdentity
BY SentinelAssumption DEF Records, Identities

LEMMA ScriptTxs ==
  ASSUME NEW M \in Manifests
  PROVE  /\ Script(M) \in Seq(Txs) /\ Len(Script(M)) \in Nat
         /\ \A n \in 1 .. Len(Script(M)) : Script(M)[n] \in Txs
<1>1. Script(M) \in Seq(Txs)
  BY ScriptInOrder DEF IsScript
<1> HIDE DEF Script
<1> QED BY <1>1

(* The next transaction is one of the script's, and the first that is      *)
(* needed: none before it is.                                              *)
LEMMA NextOneIs ==
  ASSUME TypeOK, deploy # NoDeploy, DeployRest # {}
  PROVE  /\ Min(DeployRest) \in DeployRest
         /\ \A n \in DeployRest : Min(DeployRest) <= n
         /\ DeployRest \subseteq 1 .. Len(Script(deploy.manifest))
<1>1. deploy \in Deploys
  BY DEF TypeOK
<1>2. deploy.at \in Nat \ {0} /\ deploy.manifest \in Manifests
  BY <1>1 DEF Deploys
<1>3. Len(Script(deploy.manifest)) \in Nat
  BY <1>2, ScriptTxs
<1>4. DeployRest \subseteq deploy.at .. Len(Script(deploy.manifest))
  BY DEF DeployRest
<1>5. DeployRest \subseteq Nat
  BY <1>2, <1>3, <1>4
<1>6. \E n \in DeployRest : \A m \in DeployRest : n <= m
  BY <1>5, LeastNumber
<1>7. Min(DeployRest) \in DeployRest /\ \A n \in DeployRest : Min(DeployRest) <= n
  BY <1>6 DEF Min
<1> QED BY <1>2, <1>3, <1>4, <1>7

(* A send, field by field.                                                 *)
LEMMA SendIs ==
  ASSUME TypeOK, DeploySends
  PROVE  LET n == Min(DeployRest)
             t == Script(deploy.manifest)[n] IN
         /\ deploy \in Deploys /\ deploy # NoDeploy /\ deploy.step = "send"
         /\ n \in deploy.at .. Len(Script(deploy.manifest))
         /\ n \in 1 .. Len(Script(deploy.manifest)) /\ t \in Txs
         /\ Needed(chain.c, deploy.absent, deploy.recordExists, t)
         /\ \A k \in deploy.at .. (n - 1) : k \notin DeployRest
         /\ chain.c \in ContractsType /\ chain'.c = Performed(chain.c, t)
         /\ chain' \in Chains /\ Grows(chain.c, chain'.c)
         /\ chain'.named = chain.named /\ chain'.paid = chain.paid
         /\ deploy' \in Deploys /\ deploy' # NoDeploy
         /\ deploy'.manifest = deploy.manifest /\ deploy'.at = n + 1
         /\ deploy'.absent = deploy.absent /\ deploy'.step = "send"
         /\ deploy'.recordExists = deploy.recordExists
<1>1. deploy \in Deploys /\ deploy # NoDeploy /\ DeployRest # {}
      /\ deploy.step = "send" /\ chain \in Chains
  BY DEF DeploySends, TypeOK
<1> DEFINE n == Min(DeployRest)
           txs == Script(deploy.manifest)
           t == txs[n]
<1>2. deploy.manifest \in Manifests /\ deploy.at \in Nat \ {0}
  BY <1>1 DEF Deploys
<1>3. /\ Len(txs) \in Nat /\ n \in DeployRest /\ n \in 1 .. Len(txs)
      /\ \A k \in DeployRest : n <= k
  BY <1>1, <1>2, NextOneIs, ScriptTxs
<1>4. n \in Nat /\ t \in Txs
  BY <1>2, <1>3, ScriptTxs
<1>5. /\ chain' = [chain EXCEPT !.c = Performed(chain.c, t)]
      /\ deploy' = [deploy EXCEPT !.at = n + 1]
  BY DEF DeploySends
<1>6. /\ n \in deploy.at .. Len(txs)
      /\ Needed(chain.c, deploy.absent, deploy.recordExists, t)
  BY <1>3 DEF DeployRest
<1>7. \A k \in deploy.at .. (n - 1) : k \notin DeployRest
  <2> HIDE DEF n
  <2> QED BY <1>2, <1>3, <1>4
<1> HIDE DEF n, t, txs
<1>8. chain.c \in ContractsType
  BY <1>1 DEF Chains
<1>9. Performed(chain.c, t) \in ContractsType /\ Grows(chain.c, Performed(chain.c, t))
  BY <1>4, <1>8, PerformedType
<1>10. /\ chain' \in Chains /\ chain'.c = Performed(chain.c, t)
       /\ chain'.named = chain.named /\ chain'.paid = chain.paid
  BY <1>1, <1>5, <1>9 DEF Chains
<1>11. /\ deploy' \in Deploys
       /\ deploy'.manifest = deploy.manifest /\ deploy'.at = n + 1
       /\ deploy'.absent = deploy.absent /\ deploy'.step = "send"
       /\ deploy'.recordExists = deploy.recordExists
  BY <1>1, <1>4, <1>5 DEF Deploys
<1>12. deploy' # NoDeploy
  BY <1>11, SentinelAssumption
<1> QED BY <1>1, <1>3, <1>4, <1>6, <1>7, <1>8, <1>9, <1>10, <1>11, <1>12 DEF n, t, txs

(* Every step keeps the types.                                             *)
LEMMA NextTypeOK == TypeOK /\ [Next]_vars => TypeOK'
<1> SUFFICES ASSUME TypeOK, [Next]_vars PROVE TypeOK'
  OBVIOUS
<1>0. /\ store \in Stores /\ disk \in Disks /\ keys \in Keystores
      /\ chain \in Chains /\ backup \in Copies \cup {NoCopy}
      /\ live \in Records \cup {NoRecord} /\ deploy \in Deploys \cup {NoDeploy}
      /\ flags \in SUBSET {"ledger", "chain"} /\ Flags \subseteq SUBSET {"ledger", "chain"}
  BY BootAssumption DEF TypeOK
<1>1. CASE UNCHANGED vars
  BY <1>1 DEF TypeOK, vars, volumes, history
<1>2. ASSUME NEW f \in Flags, ServeUndeployed(f) PROVE TypeOK'
  BY <1>2, <1>0 DEF TypeOK, ServeUndeployed, Serve, volumes, history
<1>3. ASSUME NEW f \in Flags,
             ServeRecorded(f) \/ ServeUnrepaired(f) \/ Exit(f) \/ ActivationBreaks(f)
      PROVE  TypeOK'
  <2>1. /\ disk.record \in Records
        /\ Prepare(disk.record, f) \/ BreaksAtWatermark(disk.record, f)
    BY <1>0, <1>3 DEF ServeRecorded, ServeUnrepaired, Exit, ActivationBreaks,
                      Loads, Disks
  <2>2. store' \in Stores /\ keys' \in Keystores /\ witnessed' \in SUBSET Ids
        /\ torn' \in BOOLEAN
    BY <2>1, PrepareIs, BreaksIs
  <2> QED
    BY <1>0, <1>3, <2>1, <2>2 DEF TypeOK, ServeRecorded, ServeUnrepaired, Exit,
       ActivationBreaks, Serve, GoLive
<1>4. CASE ExitOverRecord
  BY <1>4 DEF TypeOK, ExitOverRecord, volumes, history
<1>5. CASE Crash
  BY <1>5, <1>0 DEF TypeOK, Crash, Deploys, volumes, history
<1>6. ASSUME NEW M \in Manifests, DeployStarts(M) PROVE TypeOK'
  <2>1. Planned(M) \ chain.c.code \subseteq Addresses
    BY ModuleAddresses
  <2>2. deploy' \in Deploys
    BY <1>6, <2>1 DEF DeployStarts, Deploys
  <2> QED BY <1>6, <2>2 DEF TypeOK, DeployStarts, volumes, history
<1>7. ASSUME NEW M \in Manifests, ContainerDeploys(M) PROVE TypeOK'
  <2>1. NoContracts \in ContractsType
    BY NoContractsOK DEF ContractsOK
  <2>2. FoldLeft(Performed, NoContracts, Script(M)) \in ContractsType
    BY <2>1, ScriptTxs, PerformedType, FoldKeeps
  <2>3. chain' \in Chains
    BY <1>0, <1>7, <2>2 DEF ContainerDeploys, Chains
  <2>4. disk' \in Disks
    BY <1>7, RecordsAre DEF ContainerDeploys, Disks
  <2> QED BY <1>7, <2>3, <2>4 DEF TypeOK, ContainerDeploys, history
<1>8. CASE DeploySends
  <2>1. chain' \in Chains /\ deploy' \in Deploys
    BY <1>8, SendIs
  <2> QED BY <1>8, <2>1 DEF TypeOK, DeploySends, history
<1>9. CASE DeployFails \/ DeployRepeats
  BY <1>0, <1>9 DEF TypeOK, DeployFails, DeployRepeats, Sent, Deploys, volumes, history
<1>10. CASE DeployPrepares
  <2>1. deploy \in Deploys /\ deploy # NoDeploy
    BY <1>0, <1>10 DEF DeployPrepares, Sent
  <2> DEFINE rec == RecordFor(deploy.manifest)
  <2>2. rec \in Records /\ Prepare(rec, flags)
    BY <1>10, <2>1, RecordsAre DEF DeployPrepares, Deploys
  <2> HIDE DEF rec
  <2>3. store' \in Stores /\ keys' \in Keystores /\ witnessed' \in SUBSET Ids
        /\ torn' \in BOOLEAN
    BY <2>2, PrepareIs
  <2>4. deploy' \in Deploys \cup {NoDeploy}
    BY <1>10, <2>1 DEF DeployPrepares, Deploys
  <2> QED BY <1>10, <2>3, <2>4 DEF TypeOK, DeployPrepares
<1>21. CASE DeployBreaks
  <2>1. RecordFor(deploy.manifest) \in Records
    BY <1>0, <1>21, RecordsAre DEF DeployBreaks, Sent, Deploys
  <2>2. store' \in Stores /\ keys' \in Keystores /\ witnessed' \in SUBSET Ids
        /\ torn' \in BOOLEAN
    BY <1>21, <2>1, BreaksIs DEF DeployBreaks
  <2> QED BY <1>21, <2>2 DEF TypeOK, DeployBreaks
<1>11. CASE WriteManifest
  BY <1>0, <1>11 DEF TypeOK, WriteManifest, Deploys, Disks, history
<1>12. CASE WriteRecord
  BY <1>0, <1>12, RecordsAre DEF TypeOK, WriteRecord, Deploys, Disks, history
<1>13. CASE Commit
  BY <1>0, <1>13, RecordsAre DEF TypeOK, Commit, GoLive, Deploys, volumes
<1>14. ASSUME NEW a \in Agents, SpawnBegins(a) \/ SpawnEnds(a) \/ SpawnFails(a)
       PROVE  TypeOK'
  <2>1. CASE SpawnBegins(a)
    BY <1>0, <2>1 DEF TypeOK, SpawnBegins, Keystores, history
  <2>2. CASE SpawnEnds(a)
    BY <1>0, <2>2 DEF TypeOK, SpawnEnds, Stores, Chains, history
  <2>3. CASE SpawnFails(a)
    BY <1>0, <2>3 DEF TypeOK, SpawnFails, volumes
  <2> QED BY <1>14, <2>1, <2>2, <2>3
<1>15. ASSUME NEW i \in Ids, Reserve(i) \/ Pay(i) \/ Release(i) PROVE TypeOK'
  <2>1. CASE Reserve(i)
    <3>1. store.made + 1 \in Nat /\ store.rows \cup {i} \in SUBSET Ids
      BY <1>0 DEF Stores
    <3>2. store' = [store EXCEPT !.rows = store.rows \cup {i},
                                 !.made = store.made + 1]
      BY <2>1 DEF Reserve
    <3>3. store' \in Stores
      BY <1>0, <3>1, <3>2 DEF Stores
    <3> QED BY <2>1, <3>3 DEF TypeOK, Reserve, history
  <2>2. CASE Pay(i)
    BY <1>0, <2>2 DEF TypeOK, Pay, Chains, history
  <2>3. CASE Release(i)
    BY <1>0, <2>3 DEF TypeOK, Release, Stores
  <2> QED BY <1>15, <2>1, <2>2, <2>3
<1>16. CASE WipeStore
  <2>1. store' \in Stores /\ disk' \in Disks
    BY <1>0, <1>16 DEF WipeStore, BesideStore, EmptyStore, EmptyDisk, Stores, Disks
  <2>2. surgery' \in SUBSET Volumes
    BY <1>16 DEF TypeOK, WipeStore, Operates, Volumes
  <2> QED BY <1>16, <2>1, <2>2 DEF TypeOK, WipeStore, Operates
<1>17. CASE WipeKeystore
  <2>1. surgery' \in SUBSET Volumes /\ keys' \in Keystores
    BY <1>17 DEF TypeOK, WipeKeystore, Operates, Volumes, Keystores
  <2> QED BY <1>17, <2>1 DEF TypeOK, WipeKeystore, Operates
<1>18. CASE WipeChain
  <2>1. surgery' \in SUBSET Volumes
    BY <1>18 DEF TypeOK, WipeChain, Operates, Volumes
  <2>2. chain' \in Chains
    BY <1>18, NoContractsOK DEF WipeChain, EmptyChain, Chains, ContractsOK
  <2> QED BY <1>18, <2>1, <2>2 DEF TypeOK, WipeChain, Operates
<1>19. CASE BackUp
  BY <1>0, <1>19 DEF TypeOK, BackUp, Copies, history
<1>20. CASE RestoreStore
  <2>1. backup \in Copies
    BY <1>0, <1>20 DEF RestoreStore
  <2>2. store' \in Stores /\ disk' \in Disks
    BY <1>0, <1>20, <2>1 DEF RestoreStore, BesideStore, Copies
  <2>3. surgery' \in SUBSET Volumes
    BY <1>20 DEF TypeOK, RestoreStore, Operates, Volumes
  <2>4. forked' \in BOOLEAN
    BY <1>20, Zenon DEF TypeOK, RestoreStore
  <2> QED BY <1>20, <2>2, <2>3, <2>4 DEF TypeOK, RestoreStore, Operates
<1> QED
  BY <1>1, <1>2, <1>3, <1>4, <1>5, <1>6, <1>7, <1>8, <1>9, <1>10, <1>11, <1>12,
     <1>13, <1>14, <1>15, <1>16, <1>17, <1>18, <1>19, <1>20, <1>21 DEF Next

(* The type invariant of Boot, for all agents, ids, manifests and flags.   *)
THEOREM BootTypeCorrect == Spec => []TypeOK
<1> QED BY InitTypeOK, NextTypeOK, PTL DEF Spec

-----------------------------------------------------------------------------
(* Where a deploy and a live record can be *)

Sending == deploy # NoDeploy /\ deploy.step = "send"
Sealed  == deploy # NoDeploy /\ deploy.step # "send"

(* Nothing is live and nothing under way in a process that is down; what is*)
(* live is what the disk records; a deploy past its sends found nothing    *)
(* live.                                                                   *)
PlacesOK ==
  /\ proc = "down" => /\ live = NoRecord /\ deploy = NoDeploy
                      /\ spawning = {} /\ flags = {}
  /\ deploy # NoDeploy => mode = "admin"
  /\ Sealed => live = NoRecord
  /\ live # NoRecord => disk.record = live

(* A record lies beside the manifest it was written for.                   *)
DiskOK(d) == d.record # NoRecord => /\ d.manifest \in Manifests
                                    /\ d.record = RecordFor(d.manifest)
DisksOK == DiskOK(disk) /\ (backup # NoCopy => DiskOK(backup.disk))

(* A deploy carries the manifest of the record it found, and the store is  *)
(* bound to it, or to nothing, before anything is written.                 *)
DeployOK ==
  deploy # NoDeploy =>
    /\ disk.record # NoRecord => disk.manifest = deploy.manifest
    /\ deploy.step \in {"manifest", "record"} => disk.manifest = deploy.manifest
    /\ deploy.step = "record" => disk.record = RecordFor(deploy.manifest)
    /\ deploy.recordExists => disk.record # NoRecord
    /\ disk.record # NoRecord => deploy.recordExists \/ deploy.step = "record"
    /\ store.identity \in {NoIdentity, Identity(RecordFor(deploy.manifest))}
    /\ Sealed => /\ store.identity = Identity(RecordFor(deploy.manifest))
                 /\ keys.mark # NoMark

LivesOn ==
  live # NoRecord => /\ store.identity = Identity(live) \/ "chain" \in flags
                     /\ keys.mark # NoMark

Steady == PlacesOK /\ DisksOK /\ DeployOK /\ LivesOn

LEMMA NextSteady == TypeOK /\ Steady /\ [Next]_vars => Steady'
<1> SUFFICES ASSUME TypeOK, Steady, [Next]_vars PROVE Steady'
  OBVIOUS
<1> USE DEF Steady
<1>0. /\ store \in Stores /\ disk \in Disks /\ keys \in Keystores
      /\ backup \in Copies \cup {NoCopy}
      /\ live \in Records \cup {NoRecord} /\ deploy \in Deploys \cup {NoDeploy}
      /\ deploy # NoDeploy => deploy.manifest \in Manifests
      /\ NoDeploy \notin Deploys /\ NoCopy \notin Copies /\ NoRecord \notin Records
      /\ \A n \in Nat : n # NoMark
  BY SentinelAssumption DEF TypeOK, Deploys
<1>1. CASE UNCHANGED vars
  BY <1>1 DEF PlacesOK, DisksOK, DiskOK, DeployOK, LivesOn, Sealed, vars, volumes, history
<1>2. ASSUME NEW f \in Flags, ServeUndeployed(f) PROVE Steady'
  BY <1>2, <1>0 DEF PlacesOK, DisksOK, DiskOK, DeployOK, LivesOn, Sealed,
     ServeUndeployed, Serve, volumes, history
<1>3. ASSUME NEW f \in Flags,
             ServeRecorded(f) \/ ServeUnrepaired(f) \/ Exit(f) \/ ActivationBreaks(f)
      PROVE  Steady'
  <2>1. /\ disk.record \in Records
        /\ ServeRecorded(f) => Prepare(disk.record, f)
        /\ proc = "down" /\ live = NoRecord /\ deploy = NoDeploy
        /\ spawning = {} /\ flags = {}
        /\ UNCHANGED <<disk, backup, mode, deploy, spawning>>
    BY <1>0, <1>3 DEF ServeRecorded, ServeUnrepaired, Exit, ActivationBreaks,
                      Loads, Disks, PlacesOK
  <2>2. PlacesOK'
    BY <1>3, <2>1 DEF PlacesOK, Sealed, ServeRecorded, ServeUnrepaired, Exit,
                      ActivationBreaks, Serve, GoLive
  <2>3. DisksOK' /\ DeployOK'
    BY <2>1 DEF DisksOK, DiskOK, DeployOK
  <2>4. CASE ServeRecorded(f)
    <3>1. live' = disk.record /\ flags' = f /\ Verdict(disk.record, f) = "ok"
      BY <2>4 DEF ServeRecorded, GoLive, Serve
    <3>2. DeploymentUnchanged(disk.record, f)
      BY <3>1, VerdictIs
    <3>3. store'.identity = Identity(disk.record) \/ "chain" \in f
      BY <2>1, <2>4, <3>1, <3>2, PrepareIs DEF DeploymentUnchanged
    <3>4. keys'.mark \in Nat
      <4>1. /\ keys'.mark = (IF keys.mark = NoMark \/ store.made > keys.mark
                             THEN store.made ELSE keys.mark)
        BY <2>1, <2>4, <3>1, PrepareIs
      <4> QED BY <1>0, <4>1 DEF Stores, Keystores
    <3> QED BY <1>0, <3>1, <3>3, <3>4, <2>2, <2>3 DEF LivesOn
  <2>5. CASE ~ServeRecorded(f)
    <3>1. live' = NoRecord
      BY <1>3, <2>1, <2>5 DEF ServeUnrepaired, Exit, ActivationBreaks
    <3> QED BY <3>1, <2>2, <2>3 DEF LivesOn
  <2> QED BY <2>4, <2>5
<1>4. CASE ExitOverRecord
  BY <1>4 DEF PlacesOK, DisksOK, DiskOK, DeployOK, LivesOn, Sealed, ExitOverRecord,
     volumes, history
<1>5. CASE Crash
  BY <1>5 DEF PlacesOK, DisksOK, DiskOK, DeployOK, LivesOn, Sealed, Crash, volumes
<1>6. ASSUME NEW M \in Manifests, DeployStarts(M) PROVE Steady'
  <2>1. /\ deploy' = [manifest |-> M, at |-> 1, step |-> "send",
                      absent |-> Planned(M) \ chain.c.code,
                      recordExists |-> disk.record # NoRecord]
        /\ mode = "admin" /\ proc = "up" /\ Preflight(M)
        /\ UNCHANGED <<mode, volumes, proc, flags, live, spawning>>
    BY <1>6 DEF DeployStarts
  <2>2. /\ store.identity \in {NoIdentity, Identity(RecordFor(M))}
        /\ disk.record # NoRecord => disk.manifest = M
    BY <2>1 DEF Preflight, DeploymentUnchanged
  <2> QED
    BY <2>1, <2>2 DEF PlacesOK, DisksOK, DiskOK, DeployOK, LivesOn, Sealed, volumes
<1>7. ASSUME NEW M \in Manifests, ContainerDeploys(M) PROVE Steady'
  BY <1>7, RecordsAre DEF PlacesOK, DisksOK, DiskOK, DeployOK, LivesOn, Sealed,
     ContainerDeploys, history
<1>8. CASE DeploySends
  <2>1. /\ deploy # NoDeploy /\ deploy' # NoDeploy
        /\ deploy.step = "send" /\ deploy'.step = "send"
        /\ deploy'.manifest = deploy.manifest
        /\ deploy'.recordExists = deploy.recordExists
    BY <1>8, SendIs
  <2>2. UNCHANGED <<mode, store, disk, keys, backup, proc, flags, live, spawning>>
    BY <1>8 DEF DeploySends
  <2> QED BY <2>1, <2>2 DEF PlacesOK, DisksOK, DiskOK, DeployOK, LivesOn, Sealed
<1>9. CASE DeployFails \/ DeployRepeats
  BY <1>9 DEF PlacesOK, DisksOK, DiskOK, DeployOK, LivesOn, Sealed, DeployFails,
     DeployRepeats, volumes, history
<1>10. CASE DeployPrepares
  <2>1. deploy \in Deploys /\ deploy # NoDeploy /\ deploy.step = "send" /\ live = NoRecord
    BY <1>0, <1>10 DEF DeployPrepares, Sent
  <2> DEFINE rec == RecordFor(deploy.manifest)
  <2>2. /\ rec \in Records /\ Prepare(rec, flags) /\ Identity(rec) # NoIdentity
        /\ deploy' = IF Verdict(rec, flags) = "ok"
                     THEN [deploy EXCEPT !.step = "prepared"] ELSE NoDeploy
        /\ UNCHANGED <<mode, disk, chain, backup, proc, flags, live, spawning>>
    BY <1>0, <1>10, <2>1, RecordsAre DEF DeployPrepares
  <2>3. PlacesOK' /\ LivesOn' /\ DisksOK'
    BY <1>0, <2>1, <2>2 DEF PlacesOK, LivesOn, DisksOK, DiskOK, Sealed, Deploys
  <2>4. CASE Verdict(rec, flags) = "ok"
    <3>1. /\ store.identity \in {NoIdentity, Identity(rec)}
          /\ disk.record # NoRecord => disk.manifest = deploy.manifest
          /\ deploy.recordExists => disk.record # NoRecord
          /\ disk.record # NoRecord => deploy.recordExists
      BY <2>1 DEF DeployOK
    <3> HIDE DEF rec
    <3>2. store'.identity = Identity(rec)
      BY <2>2, <2>4, <3>1, PrepareIs
    <3>3. keys'.mark = (IF keys.mark = NoMark \/ store.made > keys.mark
                        THEN store.made ELSE keys.mark)
      BY <2>2, <2>4, PrepareIs
    <3>4. keys'.mark # NoMark
      BY <1>0, <3>3 DEF Stores, Keystores
    <3>5. /\ deploy'.step = "prepared" /\ deploy'.manifest = deploy.manifest
          /\ deploy'.recordExists = deploy.recordExists /\ disk' = disk
      BY <2>1, <2>2, <2>4 DEF Deploys
    <3>6. DeployOK'
      BY <3>1, <3>2, <3>4, <3>5 DEF DeployOK, Sealed, rec
    <3> QED BY <2>3, <3>6
  <2>5. CASE Verdict(rec, flags) # "ok"
    BY <2>2, <2>3, <2>5 DEF DeployOK
  <2> QED BY <2>4, <2>5
<1>19. CASE DeployBreaks
  <2>1. deploy' = NoDeploy /\ live = NoRecord
        /\ UNCHANGED <<mode, disk, backup, proc, flags, live, spawning>>
    BY <1>19 DEF DeployBreaks
  <2> QED BY <2>1 DEF PlacesOK, DisksOK, DiskOK, DeployOK, LivesOn, Sealed
<1>11. CASE WriteManifest
  BY <1>0, <1>11 DEF PlacesOK, DisksOK, DiskOK, DeployOK, LivesOn, Sealed, WriteManifest,
     Deploys, Disks, history
<1>12. CASE WriteRecord
  BY <1>0, <1>12, RecordsAre DEF PlacesOK, DisksOK, DiskOK, DeployOK, LivesOn, Sealed,
     WriteRecord, Deploys, Disks, history
<1>13. CASE Commit
  BY <1>0, <1>13 DEF PlacesOK, DisksOK, DiskOK, DeployOK, LivesOn, Sealed, Commit,
     GoLive, volumes
<1>14. ASSUME NEW a \in Agents, SpawnBegins(a) \/ SpawnEnds(a) \/ SpawnFails(a)
       PROVE  Steady'
  <2>1. /\ UNCHANGED <<mode, disk, backup, proc, flags, live, deploy>>
        /\ store'.identity = store.identity /\ keys'.mark = keys.mark
        /\ spawning # {} \/ (proc = "up" /\ live # NoRecord)
    BY <1>0, <1>14 DEF SpawnBegins, SpawnEnds, SpawnFails, Game, volumes, history,
       Stores, Keystores
  <2> QED
    BY <2>1 DEF PlacesOK, DisksOK, DiskOK, DeployOK, LivesOn, Sealed
<1>15. ASSUME NEW i \in Ids, Reserve(i) \/ Pay(i) \/ Release(i) PROVE Steady'
  <2>1. /\ UNCHANGED <<mode, disk, backup, proc, flags, live, deploy, keys, spawning>>
        /\ store'.identity = store.identity
    BY <1>0, <1>15 DEF Reserve, Pay, Release, history, Stores
  <2> QED
    BY <2>1 DEF PlacesOK, DisksOK, DiskOK, DeployOK, LivesOn, Sealed
<1>16. ASSUME NEW what, Operates(what), UNCHANGED backup,
              disk' \in {disk, EmptyDisk} \/ (backup # NoCopy /\ disk' = backup.disk)
       PROVE  Steady'
  <2>1. /\ proc = "down" /\ UNCHANGED <<mode, proc, flags, live, deploy, spawning>>
    BY <1>16 DEF Operates
  <2>2. DisksOK'
    BY <1>16 DEF DisksOK, DiskOK, EmptyDisk
  <2> QED BY <2>1, <2>2 DEF PlacesOK, DeployOK, LivesOn, Sealed
<1>17. CASE WipeStore \/ WipeKeystore \/ WipeChain \/ RestoreStore
  BY <1>16, <1>17 DEF WipeStore, WipeKeystore, WipeChain, RestoreStore, BesideStore
<1>18. CASE BackUp
  <2>1. backup'.disk = disk /\ UNCHANGED <<mode, store, disk, keys, proc, flags,
                                           live, deploy, spawning>>
    BY <1>18 DEF BackUp
  <2> QED BY <2>1 DEF PlacesOK, DisksOK, DiskOK, DeployOK, LivesOn, Sealed
<1> QED
  BY <1>1, <1>2, <1>3, <1>4, <1>5, <1>6, <1>7, <1>8, <1>9, <1>10, <1>11, <1>12,
     <1>13, <1>14, <1>15, <1>17, <1>18, <1>19 DEF Next

LEMMA InitSteady == Init => Steady
BY DEF Init, Steady, PlacesOK, DisksOK, DiskOK, DeployOK, LivesOn, Sealed, EmptyDisk

-----------------------------------------------------------------------------
(* The watermark *)

(* A store with a row has counted it, a copy is of the store's lifetime or *)
(* an older one, and what was witnessed has a mark.                        *)
Counted ==
  /\ store.rows # {} => store.made > 0
  /\ backup # NoCopy => /\ backup.store.rows # {} => backup.store.made > 0
                        /\ backup.store.line <= store.line
  /\ witnessed # {} => keys.mark # NoMark /\ keys.mark > 0

(* The heart of it: a store, and the copy of one, that reach the mark hold *)
(* every row it was raised over; so counts suffice to compare two stores of*)
(* one lifetime.                                                           *)
MarkCovers ==
  ~forked =>
    /\ keys.mark # NoMark /\ store.made >= keys.mark => witnessed \subseteq store.rows
    /\ backup # NoCopy /\ backup.store.line = store.line =>
         /\ backup.store.made <= store.made
         /\ backup.store.made = store.made => store.rows \subseteq backup.store.rows
         /\ keys.mark # NoMark /\ backup.store.made >= keys.mark
              => witnessed \subseteq backup.store.rows

(* Whatever is served, or about to be, passed that comparison.             *)
Compared == ~forked /\ (live # NoRecord \/ Sealed) => witnessed \subseteq store.rows

WitnessOK == Counted /\ MarkCovers /\ Compared

(* Both sides of Counted and MarkCovers are numbers.                       *)
LEMMA Numbers ==
  ASSUME TypeOK
  PROVE  /\ store.made \in Nat /\ store.line \in Nat
         /\ store.rows \subseteq Ids /\ witnessed \subseteq Ids
         /\ keys.mark \in Nat \cup {NoMark}
         /\ \A n \in Nat : n # NoMark
         /\ backup # NoCopy => /\ backup.store.made \in Nat /\ backup.store.line \in Nat
                               /\ backup.store.rows \subseteq Ids
                               /\ backup.store \in Stores
BY SentinelAssumption DEF TypeOK, Stores, Keystores, Copies

(* Activation compares before it raises the mark.                          *)
LEMMA PrepareKeepsWitness ==
  ASSUME TypeOK, WitnessOK, NEW rec \in Records, NEW acked, Prepare(rec, acked),
         UNCHANGED <<backup, forked>>
  PROVE  /\ Counted' /\ MarkCovers'
         /\ Verdict(rec, acked) = "ok" /\ ~forked => witnessed' \subseteq store'.rows
         /\ Verdict(rec, acked) # "ok" => witnessed' = witnessed /\ store'.rows = store.rows
<1>1. /\ store'.rows = store.rows /\ store'.made = store.made
      /\ store'.line = store.line
      /\ Verdict(rec, acked) # "ok" => keys' = keys /\ witnessed' = witnessed
  BY PrepareIs
<1> USE Numbers DEF WitnessOK
<1>2. CASE Verdict(rec, acked) # "ok"
  BY <1>1, <1>2 DEF Counted, MarkCovers
<1>3. CASE Verdict(rec, acked) = "ok"
  <2>1. keys'.mark = (IF keys.mark = NoMark \/ store.made > keys.mark
                      THEN store.made ELSE keys.mark)
        /\ witnessed' = Witnessing(acked)
    BY <1>3, PrepareIs
  <2>2. keys'.mark \in Nat /\ keys'.mark >= store.made
    BY <2>1
  <2>3. ASSUME ~forked PROVE witnessed' = store.rows
    <3>1. CASE "ledger" \in acked
      BY <2>1, <3>1 DEF Witnessing
    <3>2. CASE "ledger" \notin acked
      <4>1. IF keys.mark = NoMark THEN store.made = 0 ELSE store.made >= keys.mark
        BY <1>3, <3>2, VerdictIs DEF LedgerNotRestored
      <4>2. witnessed \subseteq store.rows
        BY <2>3, <4>1 DEF Counted, MarkCovers
      <4> QED BY <2>1, <4>2 DEF Witnessing
    <3> QED BY <3>1, <3>2
  <2>4. Counted'
    <3>1. ASSUME witnessed' # {} PROVE keys'.mark > 0
      <4>1. CASE store.rows # {}
        BY <4>1, <2>2 DEF Counted
      <4>2. CASE store.rows = {}
        <5>1. witnessed # {}
          BY <2>1, <3>1, <4>2 DEF Witnessing
        <5> QED BY <2>1, <5>1 DEF Counted
      <4> QED BY <4>1, <4>2
    <3> QED BY <1>1, <2>2, <3>1 DEF Counted
  <2>5. MarkCovers'
    BY <1>1, <2>2, <2>3 DEF MarkCovers
  <2> QED BY <1>1, <1>3, <2>3, <2>4, <2>5
<1> QED BY <1>2, <1>3

(* A mark that is gone has nothing to cover.                               *)
LEMMA BreaksKeepsWitness ==
  ASSUME TypeOK, WitnessOK, NEW rec \in Records, NEW acked,
         BreaksAtWatermark(rec, acked), UNCHANGED <<backup, forked>>
  PROVE  Counted' /\ MarkCovers'
<1>1. /\ store'.rows = store.rows /\ store'.made = store.made
      /\ store'.line = store.line
      /\ \/ keys' = keys /\ witnessed' = witnessed
         \/ keys'.mark = NoMark /\ witnessed' = {}
  BY BreaksIs
<1> QED BY <1>1, Numbers DEF WitnessOK, Counted, MarkCovers

LEMMA InitWitness == Init => WitnessOK
BY DEF Init, WitnessOK, Counted, MarkCovers, Compared, Sealed, EmptyStore

LEMMA NextWitness == TypeOK /\ Steady /\ WitnessOK /\ [Next]_vars => WitnessOK'
<1> SUFFICES ASSUME TypeOK, Steady, WitnessOK, [Next]_vars PROVE WitnessOK'
  OBVIOUS
<1> USE DEF WitnessOK
<1>0. /\ PlacesOK /\ store.made \in Nat /\ store.line \in Nat
      /\ keys.mark \in Nat \cup {NoMark} /\ \A n \in Nat : n # NoMark
      /\ backup # NoCopy => backup.store.made \in Nat /\ backup.store.line \in Nat
      /\ store \in Stores /\ keys \in Keystores
      /\ deploy \in Deploys \cup {NoDeploy} /\ NoDeploy \notin Deploys
      /\ live \in Records \cup {NoRecord}
  BY Numbers, SentinelAssumption DEF TypeOK, Steady
<1>1. ASSUME UNCHANGED <<store, keys, backup, forked, witnessed>>,
             live' \in {live, NoRecord} \/ Sealed, Sealed' => Sealed
      PROVE  WitnessOK'
  BY <1>1 DEF Counted, MarkCovers, Compared
<1>2. CASE UNCHANGED vars
  BY <1>1, <1>2 DEF vars, volumes, history, Sealed
<1>3. ASSUME NEW f \in Flags,
             ServeRecorded(f) \/ ServeUnrepaired(f) \/ Exit(f) \/ ActivationBreaks(f)
      PROVE  WitnessOK'
  <2>1. /\ disk.record \in Records
        /\ Prepare(disk.record, f) \/ BreaksAtWatermark(disk.record, f)
        /\ UNCHANGED <<backup, forked, deploy>>
    BY <1>3 DEF ServeRecorded, ServeUnrepaired, Exit, ActivationBreaks,
                Loads, Disks, TypeOK
  <2>2. live = NoRecord /\ deploy = NoDeploy
    BY <1>0, <1>3 DEF ServeRecorded, ServeUnrepaired, Exit, ActivationBreaks, Loads,
                      PlacesOK
  <2>3. /\ Counted' /\ MarkCovers'
        /\ Prepare(disk.record, f) /\ Verdict(disk.record, f) = "ok" /\ ~forked
             => witnessed' \subseteq store'.rows
    BY <2>1, PrepareKeepsWitness, BreaksKeepsWitness
  <2>4. live' # NoRecord => Prepare(disk.record, f) /\ Verdict(disk.record, f) = "ok"
    BY <1>3, <2>2 DEF ServeRecorded, ServeUnrepaired, Exit, ActivationBreaks
  <2> QED BY <2>1, <2>2, <2>3, <2>4 DEF Compared, Sealed
<1>4. CASE DeployPrepares
  <2>1. /\ deploy \in Deploys /\ deploy # NoDeploy /\ live = NoRecord
        /\ RecordFor(deploy.manifest) \in Records
        /\ Prepare(RecordFor(deploy.manifest), flags)
        /\ UNCHANGED <<backup, forked, live>>
        /\ Verdict(RecordFor(deploy.manifest), flags) # "ok" => deploy' = NoDeploy
    BY <1>0, <1>4, RecordsAre DEF DeployPrepares, Sent, Deploys
  <2>2. /\ Counted' /\ MarkCovers'
        /\ Verdict(RecordFor(deploy.manifest), flags) = "ok" /\ ~forked
             => witnessed' \subseteq store'.rows
    BY <2>1, PrepareKeepsWitness
  <2> QED BY <2>1, <2>2 DEF Compared, Sealed
<1>16. CASE DeployBreaks
  <2>1. /\ RecordFor(deploy.manifest) \in Records
        /\ BreaksAtWatermark(RecordFor(deploy.manifest), flags)
        /\ UNCHANGED <<backup, forked>>
        /\ live' = NoRecord /\ deploy' = NoDeploy
    BY <1>0, <1>16, RecordsAre DEF DeployBreaks, Sent, Deploys
  <2>2. Counted' /\ MarkCovers'
    BY <2>1, BreaksKeepsWitness
  <2> QED BY <2>1, <2>2 DEF Compared, Sealed
<1>5. CASE \/ \E f \in Flags : ServeUndeployed(f)
           \/ ExitOverRecord \/ Crash
           \/ \E M \in Manifests : DeployStarts(M) \/ ContainerDeploys(M)
           \/ DeployFails \/ DeployRepeats
           \/ \E a \in Agents : SpawnFails(a)
           \/ \E i \in Ids : Pay(i)
  <2> USE DEF ServeUndeployed, ExitOverRecord, Crash, DeployStarts, ContainerDeploys,
              DeployFails, DeployRepeats, SpawnFails, Pay, volumes, history
  <2>1. UNCHANGED <<store, keys, backup, forked, witnessed>>
    BY <1>5
  <2>2. live' \in {live, NoRecord}
    BY <1>5
  <2>3. deploy' \in {deploy, NoDeploy} \/ deploy'.step = "send"
    <3>1. ASSUME NEW M \in Manifests, DeployStarts(M) PROVE deploy'.step = "send"
      BY <3>1
    <3> HIDE DEF DeployStarts
    <3> QED BY <1>5, <3>1
  <2> QED BY <1>1, <2>1, <2>2, <2>3 DEF Sealed
<1>6. CASE DeploySends
  BY <1>1, <1>6, SendIs DEF DeploySends, history, Sealed
<1>7. CASE WriteManifest \/ WriteRecord \/ Commit
  BY <1>1, <1>7 DEF WriteManifest, WriteRecord, Commit, volumes, history, Sealed
<1>8. ASSUME NEW a \in Agents, SpawnBegins(a) \/ SpawnEnds(a) PROVE WitnessOK'
  <2>1. /\ store'.rows = store.rows /\ store'.made = store.made
        /\ store'.line = store.line /\ keys'.mark = keys.mark
        /\ UNCHANGED <<backup, forked, witnessed, live, deploy>>
    BY <1>0, <1>8 DEF SpawnBegins, SpawnEnds, history, Stores, Keystores
  <2> QED BY <2>1 DEF Counted, MarkCovers, Compared, Sealed
<1>9. ASSUME NEW i \in Ids, Reserve(i) PROVE WitnessOK'
  <2>1. /\ store'.rows = store.rows \cup {i} /\ store'.made = store.made + 1
        /\ store'.line = store.line /\ live # NoRecord
        /\ UNCHANGED <<backup, forked, witnessed, live, deploy, keys>>
    BY <1>0, <1>9 DEF Reserve, Game, history, Stores
  <2> QED BY <1>0, <2>1 DEF Counted, MarkCovers, Compared
<1>10. ASSUME NEW i \in Ids, Release(i) PROVE WitnessOK'
  <2>1. /\ store'.rows = store.rows \ {i} /\ store'.made = store.made
        /\ store'.line = store.line /\ witnessed' = witnessed \ {i}
        /\ UNCHANGED <<backup, forked, live, deploy, keys>>
    BY <1>0, <1>10 DEF Release, Stores
  <2> QED BY <1>0, <2>1 DEF Counted, MarkCovers, Compared, Sealed
<1>11. CASE WipeStore
  <2>1. /\ store'.rows = {} /\ store'.made = 0 /\ store'.line = store.line + 1
        /\ UNCHANGED <<backup, forked, witnessed, live, deploy, keys>>
        /\ live = NoRecord /\ deploy = NoDeploy
    BY <1>0, <1>11 DEF WipeStore, Operates, EmptyStore, PlacesOK
  <2> QED BY <1>0, <2>1 DEF Counted, MarkCovers, Compared, Sealed
<1>12. CASE WipeKeystore
  <2>1. /\ keys'.mark = NoMark /\ witnessed' = {}
        /\ UNCHANGED <<store, backup, forked>>
    BY <1>12 DEF WipeKeystore, Operates
  <2> QED BY <2>1 DEF Counted, MarkCovers, Compared
<1>13. CASE WipeChain
  BY <1>1, <1>13 DEF WipeChain, Operates, Sealed
<1>14. CASE RestoreStore
  <2>1. /\ backup # NoCopy /\ store' = backup.store
        /\ ~forked' => ~forked /\ backup.store.line = store.line
        /\ UNCHANGED <<backup, witnessed, live, deploy, keys>>
        /\ live = NoRecord /\ deploy = NoDeploy
    BY <1>0, <1>14 DEF RestoreStore, Operates, PlacesOK
  <2> QED BY <1>0, <2>1 DEF Counted, MarkCovers, Compared, Sealed
<1>15. CASE BackUp
  <2>1. /\ backup'.store = store
        /\ UNCHANGED <<store, witnessed, live, deploy, keys, forked>>
    BY <1>15 DEF BackUp, history
  <2> QED BY <1>0, <2>1 DEF Counted, MarkCovers, Compared, Sealed
<1> QED
  BY <1>2, <1>3, <1>4, <1>5, <1>6, <1>7, <1>8, <1>9, <1>10, <1>11, <1>12, <1>13,
     <1>14, <1>15, <1>16 DEF Next

(* Whatever an operator wipes or puts back, and however often the service  *)
(* is started: an intent that was in the ledger when the standing mark rose*)
(* and has paid is in the ledger of every service that runs unacknowledged *)
(* on a store of that lifetime.                                            *)
THEOREM WitnessedStay == Spec => []WitnessedIdsStay
<1>1. Init => TypeOK /\ Steady /\ WitnessOK
  BY InitTypeOK, InitSteady, InitWitness
<1>2. TypeOK /\ Steady /\ WitnessOK /\ [Next]_vars
        => TypeOK' /\ Steady' /\ WitnessOK'
  BY NextTypeOK, NextSteady, NextWitness
<1>3. WitnessOK => WitnessedIdsStay
  BY DEF WitnessOK, Compared, WitnessedIdsStay
<1> QED BY <1>1, <1>2, <1>3, PTL DEF Spec

-----------------------------------------------------------------------------
(* Restarts *)

LEMMA RecordedIs ==
  ASSUME NEW M \in Manifests
  PROVE  /\ Recorded(RecordFor(M)) = Planned(M) /\ Planned(M) # {}
         /\ TokensIn(RecordFor(M)) = AddrsOf(M, "token")
<1>1. /\ DOMAIN M.mods = 1 .. Len(M.mods) /\ Len(M.mods) \in Nat \ {0}
      /\ Range(M.mods) = {M.mods[i] : i \in 1 .. Len(M.mods)}
      /\ \A m \in Range(M.mods) : m \in Modules
  BY ManifestShape, RangeIs
<1>2. RecordFor(M).mods = [i \in 1 .. Len(M.mods) |-> Addr(M.mods[i])]
  BY <1>1 DEF RecordFor
<1>3. Recorded(RecordFor(M)) = {Addr(M.mods[i]) : i \in 1 .. Len(M.mods)}
  BY <1>2 DEF Recorded, Range
<1>4. Planned(M) = {Addr(M.mods[i]) : i \in 1 .. Len(M.mods)}
  BY <1>1 DEF Planned
<1>5. 1 \in 1 .. Len(M.mods)
  BY <1>1
<1>6. \A m \in Range(M.mods) : Addr(m)[1] = m.kind
  BY <1>1, AddrType
<1>7. TokensIn(RecordFor(M)) = AddrsOf(M, "token")
  <2>1. TokensIn(RecordFor(M)) = {a \in Planned(M) : a[1] = "token"}
    BY <1>3, <1>4 DEF TokensIn
  <2> QED BY <2>1, <1>6 DEF Planned, AddrsOf, Of
<1> QED BY <1>3, <1>4, <1>5, <1>7

(* While no volume has been touched: the record's contracts are there and  *)
(* the store is bound to it; a store that is bound lies, in container mode,*)
(* beside a record; the mark is not above the count, and there is one if   *)
(* there is a count, or it was torn; a key file has a                      *)
(* wallet, a spawn under way, or a spawn that ended in between.  A deploy  *)
(* past its sends has all of its contracts.                                *)
Undisturbed ==
  surgery = {} =>
    /\ disk.record # NoRecord =>
         /\ Recorded(disk.record) \subseteq chain.c.code
         /\ store.identity \in {NoIdentity, Identity(disk.record)}
    /\ mode = "container" /\ store.identity # NoIdentity => disk.record # NoRecord
    /\ IF keys.mark = NoMark THEN store.made = 0 \/ torn
                             ELSE keys.mark <= store.made
    /\ keys.files # {} => store.wallets # {} \/ spawning # {} \/ broken
SealedOnChain == Sealed => Planned(deploy.manifest) \subseteq chain.c.code
RestartOK == Undisturbed /\ SealedOnChain

LEMMA InitRestart == Init => RestartOK /\ RefusalHasCause
BY DEF Init, RestartOK, Undisturbed, SealedOnChain, Sealed, EmptyStore, EmptyDisk,
   RefusalHasCause, LedgerRefused

LEMMA NextRestart == TypeOK /\ Steady /\ RestartOK /\ [Next]_vars => RestartOK'
<1> SUFFICES ASSUME TypeOK, Steady, RestartOK, [Next]_vars PROVE RestartOK'
  OBVIOUS
<1> USE DEF RestartOK
<1>0. /\ PlacesOK /\ DeployOK /\ LivesOn
      /\ store \in Stores /\ keys \in Keystores /\ chain \in Chains
      /\ deploy \in Deploys \cup {NoDeploy} /\ NoDeploy \notin Deploys
      /\ store.made \in Nat /\ keys.mark \in Nat \cup {NoMark}
      /\ \A n \in Nat : n # NoMark
  BY Numbers, SentinelAssumption DEF TypeOK, Steady
<1>1. ASSUME UNCHANGED <<surgery, disk, store, mode, keys, torn>>, Grows(chain.c, chain'.c),
             broken => broken', spawning' = spawning \/ spawning = {} \/ broken',
             Sealed' => Sealed /\ deploy'.manifest = deploy.manifest
      PROVE  RestartOK'
  <2>1. SealedOnChain'
    BY <1>1 DEF SealedOnChain, Grows
  <2>2. Undisturbed'
    BY <1>1 DEF Undisturbed, Grows
  <2> QED BY <2>1, <2>2
<1>2. Grows(chain.c, chain.c)
  BY DEF Grows
<1>3. CASE UNCHANGED vars
  BY <1>1, <1>2, <1>3 DEF vars, volumes, history, Sealed
<1>4. ASSUME NEW f \in Flags,
             ServeRecorded(f) \/ ServeUnrepaired(f) \/ Exit(f) \/ ActivationBreaks(f)
      PROVE  RestartOK'
  <2>1. /\ disk.record \in Records /\ disk.record # NoRecord
        /\ Prepare(disk.record, f) \/ BreaksAtWatermark(disk.record, f)
        /\ deploy = NoDeploy
        /\ UNCHANGED <<surgery, disk, mode, chain, deploy, spawning, broken>>
    BY <1>0, <1>4 DEF ServeRecorded, ServeUnrepaired, Exit, ActivationBreaks,
                Loads, Disks, TypeOK, PlacesOK
  <2>2. /\ store'.wallets = store.wallets /\ store'.made = store.made
        /\ store'.identity \in {store.identity, Identity(disk.record)}
        /\ keys'.files = keys.files
        /\ \/ keys'.mark = keys.mark /\ torn' = torn
           \/ keys'.mark = store.made
           \/ keys'.mark = NoMark /\ torn' = TRUE
           \/ keys'.mark = keys.mark /\ keys.mark # NoMark
    BY <2>1, MarkAfter
  <2> QED BY <1>0, <2>1, <2>2 DEF Undisturbed, SealedOnChain, Sealed
<1>5. CASE DeployPrepares \/ DeployBreaks
  <2> DEFINE rec == RecordFor(deploy.manifest)
  <2>1. /\ deploy \in Deploys /\ deploy # NoDeploy
        /\ rec \in Records
        /\ Prepare(rec, flags) \/ BreaksAtWatermark(rec, flags)
        /\ UNCHANGED <<surgery, disk, mode, chain, spawning, broken>>
        /\ Asserted(chain.c, deploy.manifest) /\ mode = "admin"
        /\ deploy' \in {NoDeploy, [deploy EXCEPT !.step = "prepared"]}
        /\ deploy.manifest \in Manifests
    BY <1>0, <1>5, RecordsAre DEF DeployPrepares, DeployBreaks, Sent, Deploys, PlacesOK
  <2>2. disk.record # NoRecord => disk.record = rec
    BY <2>1 DEF Steady, DisksOK, DiskOK, DeployOK
  <2>3. /\ store'.wallets = store.wallets /\ store'.made = store.made
        /\ store'.identity \in {store.identity, Identity(rec)}
        /\ keys'.files = keys.files
        /\ \/ keys'.mark = keys.mark /\ torn' = torn
           \/ keys'.mark = store.made
           \/ keys'.mark = NoMark /\ torn' = TRUE
           \/ keys'.mark = keys.mark /\ keys.mark # NoMark
    BY <2>1, MarkAfter
  <2>4. Planned(deploy.manifest) \subseteq chain.c.code
    BY <2>1 DEF Asserted
  <2>5. SealedOnChain'
    BY <2>1, <2>4 DEF SealedOnChain, Sealed, Deploys
  <2> HIDE DEF rec
  <2>6. Undisturbed'
    BY <1>0, <2>1, <2>2, <2>3 DEF Undisturbed
  <2> QED BY <2>5, <2>6
<1>6. CASE \/ \E f \in Flags : ServeUndeployed(f)
           \/ ExitOverRecord \/ Crash
           \/ \E M \in Manifests : DeployStarts(M)
           \/ DeployFails \/ DeployRepeats \/ Commit
           \/ BackUp
           \/ \E a \in Agents : SpawnFails(a)
           \/ \E i \in Ids : Pay(i)
  <2> USE DEF ServeUndeployed, ExitOverRecord, Crash, DeployStarts,
              DeployFails, DeployRepeats, Commit, BackUp, SpawnFails, Pay, volumes, history
  <2>1. UNCHANGED <<surgery, disk, store, mode, keys, torn>>
    BY <1>6
  <2>2. chain'.c = chain.c
    BY <1>0, <1>6 DEF Chains
  <2>3. (broken => broken') /\ (spawning' = spawning \/ spawning = {} \/ broken')
    <3>1. CASE Crash
      BY <3>1, Zenon
    <3>2. CASE \E a \in Agents : SpawnFails(a)
      BY <3>2, Zenon
    <3>3. CASE ~(Crash \/ \E a \in Agents : SpawnFails(a))
      <4>1. broken' = broken /\ spawning' = spawning
        BY <1>6, <3>3
      <4> QED BY <4>1, Zenon
    <3> QED BY <3>1, <3>2, <3>3
  <2>4. deploy' \in {deploy, NoDeploy} \/ deploy'.step = "send"
    <3>1. ASSUME NEW M \in Manifests, DeployStarts(M) PROVE deploy'.step = "send"
      BY <3>1
    <3> HIDE DEF DeployStarts
    <3> QED BY <1>6, <3>1
  <2> HIDE DEF ServeUndeployed, ExitOverRecord, Crash, DeployStarts,
              DeployFails, DeployRepeats, Commit, BackUp, SpawnFails, Pay
  <2> QED BY <1>1, <1>2, <2>1, <2>2, <2>3, <2>4 DEF Sealed
<1>7. ASSUME NEW M \in Manifests, ContainerDeploys(M) PROVE RestartOK'
  <2>1. /\ chain'.c = FoldLeft(Performed, NoContracts, Script(M))
        /\ Asserted(FoldLeft(Performed, NoContracts, Script(M)), M)
    BY <1>0, <1>7 DEF ContainerDeploys, Chains
  <2>2. /\ Planned(M) \subseteq chain'.c.code
        /\ disk'.record = RecordFor(M) /\ disk'.record # NoRecord
        /\ mode = "container" /\ chain.c.code = {} /\ deploy = NoDeploy
        /\ UNCHANGED <<mode, store, keys, deploy, spawning, surgery, broken, torn>>
    BY <1>0, <1>7, <2>1, RecordsAre
       DEF ContainerDeploys, NoContracts, Asserted, PlacesOK, history
  <2>3. ASSUME surgery = {} PROVE store.identity = NoIdentity
    <3>1. SUFFICES ASSUME disk.record # NoRecord PROVE FALSE
      BY <2>2, <2>3 DEF Undisturbed
    <3>2. disk.manifest \in Manifests /\ disk.record = RecordFor(disk.manifest)
      BY <3>1 DEF Steady, DisksOK, DiskOK
    <3>3. Recorded(disk.record) # {}
      BY <3>2, RecordedIs
    <3> QED BY <2>2, <2>3, <3>1, <3>3 DEF Undisturbed
  <2>4. Recorded(disk'.record) \subseteq chain'.c.code
    BY <2>2, RecordedIs
  <2> QED BY <2>2, <2>3, <2>4 DEF Undisturbed, SealedOnChain, Sealed
<1>8. CASE DeploySends
  <2>1. UNCHANGED <<surgery, disk, store, mode, keys, spawning, broken, torn>>
    BY <1>8 DEF DeploySends, history
  <2> QED BY <1>1, <1>8, <2>1, SendIs DEF Sealed
<1>9. CASE WriteManifest
  <2>1. /\ disk'.record = disk.record /\ deploy \in Deploys
        /\ deploy' = [deploy EXCEPT !.step = "manifest"] /\ deploy.step = "prepared"
        /\ deploy # NoDeploy
        /\ UNCHANGED <<surgery, store, mode, chain, keys, spawning, broken, torn>>
    BY <1>0, <1>9 DEF WriteManifest, history, TypeOK, Disks
  <2>2. SealedOnChain'
    BY <2>1 DEF SealedOnChain, Sealed, Deploys
  <2>3. Undisturbed'
    BY <2>1 DEF Undisturbed
  <2> QED BY <2>2, <2>3
<1>10. CASE WriteRecord
  <2>1. /\ disk'.record = RecordFor(deploy.manifest) /\ deploy \in Deploys
        /\ deploy' = [deploy EXCEPT !.step = "record"] /\ deploy.step = "manifest"
        /\ deploy # NoDeploy /\ Sealed
        /\ UNCHANGED <<surgery, store, mode, chain, keys, spawning, broken, torn>>
    BY <1>0, <1>10 DEF WriteRecord, history, TypeOK, Disks, Sealed
  <2>2. SealedOnChain'
    BY <2>1 DEF SealedOnChain, Sealed, Deploys
  <2>3. Recorded(disk'.record) \subseteq chain.c.code
    BY <2>1, RecordedIs DEF SealedOnChain, Deploys
  <2>4. store.identity = Identity(disk'.record) /\ mode = "admin"
    BY <1>0, <2>1 DEF DeployOK, PlacesOK
  <2>5. Undisturbed'
    BY <2>1, <2>3, <2>4 DEF Undisturbed
  <2> QED BY <2>2, <2>5
<1>11. ASSUME NEW a \in Agents, SpawnBegins(a) \/ SpawnEnds(a) PROVE RestartOK'
  <2>1. /\ store'.made = store.made /\ store'.identity = store.identity
        /\ keys'.mark = keys.mark /\ chain'.c = chain.c
        /\ UNCHANGED <<surgery, disk, mode, deploy, broken, torn>>
        /\ store'.wallets # {} \/ spawning' # {}
    BY <1>0, <1>11 DEF SpawnBegins, SpawnEnds, history, Stores, Keystores, Chains
  <2> QED BY <2>1 DEF Undisturbed, SealedOnChain, Sealed
<1>12. ASSUME NEW i \in Ids, Reserve(i) \/ Release(i) PROVE RestartOK'
  <2>1. /\ store'.made \in {store.made, store.made + 1}
        /\ store'.identity = store.identity /\ store'.wallets = store.wallets
        /\ live # NoRecord
        /\ UNCHANGED <<surgery, disk, mode, deploy, broken, torn, keys, chain,
                       spawning>>
    BY <1>0, <1>12 DEF Reserve, Release, Game, history, Stores
  <2> QED BY <1>0, <2>1 DEF Undisturbed, SealedOnChain, Sealed, LivesOn
<1>13. CASE WipeStore \/ WipeKeystore \/ WipeChain \/ RestoreStore
  <2>1. surgery' # {} /\ deploy' = NoDeploy
    BY <1>0, <1>13 DEF WipeStore, WipeKeystore, WipeChain, RestoreStore, Operates, PlacesOK
  <2> QED BY <2>1 DEF Undisturbed, SealedOnChain, Sealed
<1> QED
  BY <1>3, <1>4, <1>5, <1>6, <1>7, <1>8, <1>9, <1>10, <1>11, <1>12, <1>13 DEF Next

(* A restart that no operator has a hand in is refused for two reasons     *)
(* only.                                                                   *)
LEMMA ExitIs ==
  ASSUME TypeOK, Steady, RestartOK, NEW f \in Flags, Exit(f), surgery = {}
  PROVE  outcome' = "ledger_wiped_beneath_live_game" /\ (broken \/ torn)
<1>1. /\ disk.record \in Records /\ disk.record # NoRecord
      /\ Verdict(disk.record, f) # "ok" /\ outcome' = Verdict(disk.record, f)
      /\ spawning = {}
  BY DEF Exit, Loads, TypeOK, Disks, Steady, PlacesOK
<1>2. TokensRead(disk.record) /\ DeploymentUnchanged(disk.record, f)
  BY <1>1 DEF RestartOK, Undisturbed, TokensRead, TokensIn, DeploymentUnchanged
<1>3. LedgerNotRestored(f) \/ torn
  BY Numbers DEF RestartOK, Undisturbed, LedgerNotRestored
<1>4. torn \/ ~LedgerLifetimeIntact(disk.record, f)
  BY <1>1, <1>2, <1>3, VerdictIs
<1>5. broken \/ torn
  BY <1>1, <1>4 DEF LedgerLifetimeIntact, RestartOK, Undisturbed
<1> QED BY <1>1, <1>2, <1>5, VerdictIs

(* What runs was refused nothing.                                          *)
Started == proc = "up" => outcome = "none"

LEMMA NextStarted == Started /\ [Next]_vars => Started'
<1> SUFFICES ASSUME Started, [Next]_vars PROVE Started'
  OBVIOUS
<1>1. CASE \E f \in Flags : ServeUndeployed(f) \/ ServeRecorded(f) \/ ServeUnrepaired(f)
  BY <1>1 DEF ServeUndeployed, ServeRecorded, ServeUnrepaired, Serve, Started
<1>2. CASE \E f \in Flags : Exit(f) \/ ActivationBreaks(f)
  BY <1>2 DEF Exit, ActivationBreaks, Loads, Serve, Started
<1>3. CASE ExitOverRecord \/ Crash
  BY <1>3 DEF ExitOverRecord, Crash, Started
<1>4. CASE WipeStore \/ WipeKeystore \/ WipeChain \/ RestoreStore
  BY <1>4 DEF WipeStore, WipeKeystore, WipeChain, RestoreStore, Operates, Started
<1>5. CASE \/ UNCHANGED vars
           \/ \E M \in Manifests : DeployStarts(M) \/ ContainerDeploys(M)
           \/ DeploySends \/ DeployFails \/ DeployRepeats \/ DeployPrepares
           \/ DeployBreaks \/ WriteManifest \/ WriteRecord \/ Commit \/ BackUp
  <2>1. outcome' = outcome /\ proc' = proc
    BY <1>5 DEF vars, DeployStarts, ContainerDeploys, DeploySends, DeployFails,
       DeployRepeats, DeployPrepares, DeployBreaks, WriteManifest, WriteRecord,
       Commit, BackUp
  <2> QED BY <2>1 DEF Started
<1>6. CASE \/ \E a \in Agents : SpawnBegins(a) \/ SpawnEnds(a) \/ SpawnFails(a)
           \/ \E i \in Ids : Reserve(i) \/ Pay(i) \/ Release(i)
  <2>1. outcome' = outcome /\ proc' = proc
    BY <1>6 DEF SpawnBegins, SpawnEnds, SpawnFails, Reserve, Pay, Release
  <2> QED BY <2>1 DEF Started
<1> QED BY <1>1, <1>2, <1>3, <1>4, <1>5, <1>6 DEF Next

(* The service never refuses a restart nobody caused: not a token without  *)
(* code, nor a chain replaced, nor a ledger wiped, unless a volume was     *)
(* touched - or, for the last, a spawn ended between its key and its       *)
(* marker, or the last writing of the watermark was cut short.             *)
THEOREM RefusalsHaveCause == Spec => []RefusalHasCause
<1>1. Init => TypeOK /\ Steady /\ RestartOK /\ Started /\ RefusalHasCause
  BY InitTypeOK, InitSteady, InitRestart DEF Init, Started
<1>2. TypeOK /\ Steady /\ RestartOK /\ Started /\ RefusalHasCause /\ [Next]_vars
        => RefusalHasCause'
  <2> SUFFICES ASSUME TypeOK, Steady, RestartOK, Started, RefusalHasCause, [Next]_vars
               PROVE  RefusalHasCause'
    OBVIOUS
  <2>1. ASSUME NEW f \in Flags, Exit(f) PROVE RefusalHasCause'
    <3>1. surgery' = surgery /\ broken' = broken /\ torn' = torn
      <4>1. surgery' = surgery /\ broken' = broken
        BY <2>1 DEF Exit
      <4>2. disk.record \in Records /\ Prepare(disk.record, f)
            /\ Verdict(disk.record, f) # "ok"
        BY <2>1 DEF Exit, Loads, TypeOK, Disks
      <4>3. torn' = torn
        BY <4>2, PrepareIs
      <4> QED BY <4>1, <4>3
    <3>2. CASE surgery = {}
      <4>1. outcome' = "ledger_wiped_beneath_live_game" /\ (broken \/ torn)
        BY <2>1, <3>2, ExitIs
      <4>2. broken' \/ torn'
        BY <3>1, <4>1, Zenon
      <4>3. LedgerRefused'
        BY <4>1 DEF LedgerRefused
      <4> QED BY <4>2, <4>3, Zenon DEF RefusalHasCause
    <3>3. CASE surgery # {}
      BY <3>1, <3>3 DEF RefusalHasCause
    <3> QED BY <3>2, <3>3
  <2>2. CASE ~ \E f \in Flags : Exit(f)
    <3>1. CASE WipeStore \/ WipeKeystore \/ WipeChain \/ RestoreStore
      <4>1. surgery' # {}
        BY <3>1 DEF WipeStore, WipeKeystore, WipeChain, RestoreStore, Operates
      <4> QED BY <4>1 DEF RefusalHasCause
    <3>2. CASE \/ \E f \in Flags : ServeUndeployed(f) \/ ServeRecorded(f)
                                 \/ ServeUnrepaired(f) \/ ActivationBreaks(f)
               \/ ExitOverRecord
      <4>1. outcome' \in {"none", "invalid record"}
        BY <3>2 DEF ServeUndeployed, ServeRecorded, ServeUnrepaired, Serve,
           ActivationBreaks, ExitOverRecord
      <4> QED BY <4>1 DEF RefusalHasCause, LedgerRefused
    <3>3. CASE Crash \/ \E a \in Agents : SpawnFails(a)
      <4>1. outcome' = outcome /\ surgery' = surgery
        BY <3>3 DEF Crash, SpawnFails
      <4>2. (broken => broken') /\ torn' = torn
        BY <3>3, Zenon DEF Crash, SpawnFails
      <4> QED BY <4>1, <4>2 DEF RefusalHasCause, LedgerRefused
    <3>4. CASE \/ UNCHANGED vars
               \/ \E M \in Manifests : DeployStarts(M) \/ ContainerDeploys(M)
               \/ DeploySends \/ DeployFails \/ DeployRepeats
               \/ WriteManifest \/ WriteRecord \/ Commit \/ BackUp
               \/ \E a \in Agents : SpawnBegins(a) \/ SpawnEnds(a)
               \/ \E i \in Ids : Reserve(i) \/ Pay(i) \/ Release(i)
      <4>1. outcome' = outcome /\ surgery' = surgery /\ broken' = broken
            /\ torn' = torn
        BY <3>4 DEF vars, history, DeployStarts, ContainerDeploys, DeploySends,
           DeployFails, DeployRepeats, WriteManifest, WriteRecord,
           Commit, BackUp, SpawnBegins, SpawnEnds, Reserve, Pay, Release
      <4> QED BY <4>1 DEF RefusalHasCause, LedgerRefused
    <3>5. CASE DeployPrepares \/ DeployBreaks
      <4>1. outcome' = outcome /\ deploy # NoDeploy
        BY <3>5 DEF DeployPrepares, DeployBreaks, Sent
      <4>2. proc = "up"
        BY <4>1 DEF TypeOK, Steady, PlacesOK
      <4> QED BY <4>1, <4>2 DEF Started, RefusalHasCause, LedgerRefused
    <3> QED BY <2>2, <3>1, <3>2, <3>3, <3>4, <3>5 DEF Next
  <2> QED BY <2>1, <2>2
<1>3. TypeOK /\ Steady /\ RestartOK /\ Started /\ RefusalHasCause /\ [Next]_vars
        => TypeOK' /\ Steady' /\ RestartOK' /\ Started' /\ RefusalHasCause'
  BY <1>2, NextTypeOK, NextSteady, NextRestart, NextStarted
<1> QED BY <1>1, <1>3, PTL DEF Spec

-----------------------------------------------------------------------------
(* Seeds *)

(* The first transactions of a script are done, those before `at`: what    *)
(* was not there before is there, and was given its seed once.             *)
UpTo(c, M, absent, recordExists, at) ==
  LET txs == Script(M) IN
  /\ at \in 1 .. (Len(txs) + 1)
  /\ absent \subseteq Planned(M) /\ Planned(M) \ absent \subseteq c.code
  /\ \A n \in 1 .. Len(txs) : n < at /\ txs[n].op = "create"
       => txs[n].at \in c.code
  /\ \A n \in 1 .. Len(txs) : at <= n /\ txs[n].op = "mint" /\ txs[n].at \in absent
       => Supply(c, txs[n].at) = 0
  /\ \A n \in 1 .. Len(txs) :
       n < at /\ txs[n].op = "mint" /\ (txs[n].at \in absent \/ ~recordExists)
       => Supply(c, txs[n].at) \in SeedsOf(txs[n].at)

Tokens(M) == AddrsOf(M, "token")

(* A deployment that is whole: it passes the assertions and every token    *)
(* has issued one of its seeds.                                            *)
Whole(c, M) ==
  Asserted(c, M) /\ \A a \in Tokens(M) : Supply(c, a) \in SeedsOf(a)

LEMMA WholeStays ==
  ASSUME NEW M \in Manifests, NEW c, NEW d, Whole(c, M), Grows(c, d), ContractsOK(d),
         \A a \in Addresses : Supply(d, a) \in {Supply(c, a)} \cup SeedsOf(a)
  PROVE  Whole(d, M)
<1>1. Asserted(d, M)
  BY AssertedStays DEF Whole
<1>2. \A a \in Tokens(M) : a \in Addresses
  BY ModuleAddresses DEF Tokens
<1> QED BY <1>1, <1>2 DEF Whole

(* Before the first transaction.                                           *)
LEMMA NoneYet ==
  ASSUME NEW M \in Manifests, NEW c, ContractsOK(c), NEW rec
  PROVE  UpTo(c, M, Planned(M) \ c.code, rec, 1)
<1>1. /\ Len(Script(M)) \in Nat /\ Planned(M) \subseteq Addresses
      /\ \A a \in Addresses : Supply(c, a) # 0 => a \in c.code
  BY ScriptTxs, ModuleAddresses DEF ContractsOK, SeededOnly
<1> QED BY <1>1 DEF UpTo

(* The next transaction that is needed, those before it being none: it     *)
(* seeds a module that is there and was not seeded.                        *)
LEMMA OneMore ==
  ASSUME NEW M \in Manifests, NEW c, ContractsOK(c), NEW absent, NEW rec \in BOOLEAN,
         NEW at, UpTo(c, M, absent, rec, at),
         NEW n \in 1 .. Len(Script(M)), at <= n,
         \A k \in 1 .. Len(Script(M)) : at <= k /\ k < n
           => ~Needed(c, absent, rec, Script(M)[k]),
         Script(M)[n].op = "mint" => Needed(c, absent, rec, Script(M)[n])
  PROVE  LET d == Performed(c, Script(M)[n]) IN
         /\ ContractsOK(d) /\ UpTo(d, M, absent, rec, n + 1)
         /\ \A a \in Addresses : Supply(d, a) \in {Supply(c, a)} \cup SeedsOf(a)
<1> DEFINE txs == Script(M)
           t == txs[n]
           d == Performed(c, t)
<1>1. /\ Len(txs) \in Nat /\ \A k \in 1 .. Len(txs) : txs[k] \in Txs
      /\ InOrder(M, txs)
  BY ScriptTxs, ScriptInOrder DEF IsScript
<1> HIDE DEF txs
<1>2. /\ at \in 1 .. (Len(txs) + 1) /\ absent \subseteq Planned(M)
      /\ Planned(M) \ absent \subseteq c.code
      /\ \A k \in 1 .. Len(txs) : k < at /\ txs[k].op = "create"
           => txs[k].at \in c.code
      /\ \A k \in 1 .. Len(txs) : at <= k /\ txs[k].op = "mint" /\ txs[k].at \in absent
           => Supply(c, txs[k].at) = 0
      /\ \A k \in 1 .. Len(txs) :
           k < at /\ txs[k].op = "mint" /\ (txs[k].at \in absent \/ ~rec)
           => Supply(c, txs[k].at) \in SeedsOf(txs[k].at)
  BY DEF UpTo, txs
<1>3. n \in 1 .. Len(txs) /\ n \in Nat /\ at \in Nat /\ at <= n /\ t \in Txs
  BY <1>1, <1>2 DEF txs
<1>4. \A k \in 1 .. Len(txs) : at <= k /\ k < n => ~Needed(c, absent, rec, txs[k])
  BY DEF txs
<1>5. \A k \in 1 .. Len(txs) :
        /\ txs[k].op = "create" => txs[k].at \in Planned(M)
        /\ txs[k].op = "mint" => txs[k].at \in Planned(M)
  BY <1>1 DEF InOrder, Planned
<1>6. Planned(M) \subseteq Addresses
  BY ModuleAddresses
(* A create that was passed over is there.                                 *)
<1>7. \A k \in 1 .. Len(txs) : k < n /\ txs[k].op = "create" => txs[k].at \in c.code
  <2> TAKE k \in 1 .. Len(txs)
  <2> HAVE k < n /\ txs[k].op = "create"
  <2>1. CASE k < at
    BY <1>2, <2>1
  <2>2. CASE at <= k
    <3>1. txs[k].at \notin absent
      BY <1>4, <2>2 DEF Needed
    <3> QED BY <1>2, <1>5, <3>1
  <2> QED BY <1>3, <2>1, <2>2
(* A mint that was passed over was given.                                  *)
<1>8. \A k \in 1 .. Len(txs) :
        k < n /\ txs[k].op = "mint" /\ (txs[k].at \in absent \/ ~rec)
        => Supply(c, txs[k].at) \in SeedsOf(txs[k].at)
  <2> TAKE k \in 1 .. Len(txs)
  <2> HAVE k < n /\ txs[k].op = "mint" /\ (txs[k].at \in absent \/ ~rec)
  <2>1. CASE k < at
    BY <1>2, <2>1
  <2>2. CASE at <= k
    <3>1. ~Needed(c, absent, rec, txs[k])
      BY <1>4, <2>2
    <3>2. txs[k].at \notin absent /\ ~(~rec /\ Supply(c, txs[k].at) = 0)
      BY <3>1 DEF Needed
    <3>3. Supply(c, txs[k].at) # 0
      BY <3>2
    <3>4. txs[k].at \in Addresses
      BY <1>5, <1>6
    <3> QED BY <3>3, <3>4 DEF ContractsOK, SeededOnly
  <2> QED BY <1>3, <2>1, <2>2
<1>9. ASSUME t.op = "mint"
      PROVE  /\ Supply(c, t.at) = 0 /\ t.at \in c.code /\ t.amount \in SeedsOf(t.at)
  <2>1. Needed(c, absent, rec, t)
    BY <1>9 DEF txs
  <2>2. t.at \in absent \/ (~rec /\ Supply(c, t.at) = 0)
    BY <1>9, <2>1 DEF Needed
  <2>3. Supply(c, t.at) = 0
    BY <1>2, <1>3, <1>9, <2>2
  <2>4. /\ \E m \in Range(M.mods) : t.at = Addr(m) /\ t.amount = m.seed
        /\ \E k \in 1 .. (n - 1) : txs[k] = [op |-> "create", at |-> t.at]
    BY <1>1, <1>3, <1>9 DEF InOrder
  <2>5. t.amount \in SeedsOf(t.at)
    BY <2>4, SeedIsOne
  <2>6. PICK k \in 1 .. (n - 1) : txs[k] = [op |-> "create", at |-> t.at]
    BY <2>4
  <2>7. k \in 1 .. Len(txs) /\ k < n
    BY <1>1, <1>3
  <2>8. t.at \in c.code
    BY <1>7, <2>6, <2>7
  <2> QED BY <2>3, <2>5, <2>8
<1> HIDE DEF t, d
<1>10. /\ ContractsOK(d) /\ Grows(c, d)
       /\ t.op = "create" => t.at \in d.code
       /\ \A a \in Addresses :
            Supply(d, a) = IF t.op = "mint" /\ a = t.at THEN t.amount ELSE Supply(c, a)
  <2>1. t.op = "mint" => /\ Supply(c, t.at) = 0 /\ t.at \in c.code
                         /\ t.amount \in SeedsOf(t.at)
    BY <1>9
  <2>2. c \in ContractsType
    BY DEF ContractsOK
  <2> QED BY <1>3, <2>1, <2>2, PerformedIs, PerformedType DEF d
<1>11. \A a \in Addresses : Supply(d, a) \in {Supply(c, a)} \cup SeedsOf(a)
  BY <1>9, <1>10
<1>12. \A k \in 1 .. Len(txs) : k # n /\ txs[k].op = "mint"
         => Supply(d, txs[k].at) = Supply(c, txs[k].at)
  <2> TAKE k \in 1 .. Len(txs)
  <2> HAVE k # n /\ txs[k].op = "mint"
  <2>1. t.op = "mint" => txs[k].at # t.at
    BY <1>1, <1>3 DEF InOrder, t
  <2>2. txs[k].at \in Addresses
    BY <1>5, <1>6
  <2> QED BY <1>10, <2>1, <2>2
<1>13. n + 1 \in 1 .. (Len(txs) + 1)
  BY <1>1, <1>3
<1>14. \A k \in 1 .. Len(txs) : (k < n + 1 <=> k < n \/ k = n)
                                /\ (n + 1 <= k => k # n /\ at <= k)
  BY <1>1, <1>3
<1>15. \A k \in 1 .. Len(txs) : k < n + 1 /\ txs[k].op = "create"
         => txs[k].at \in d.code
  BY <1>7, <1>10, <1>14 DEF Grows, t
<1>16. \A k \in 1 .. Len(txs) : n + 1 <= k /\ txs[k].op = "mint" /\ txs[k].at \in absent
         => Supply(d, txs[k].at) = 0
  BY <1>2, <1>12, <1>14
<1>17. \A k \in 1 .. Len(txs) :
         k < n + 1 /\ txs[k].op = "mint" /\ (txs[k].at \in absent \/ ~rec)
         => Supply(d, txs[k].at) \in SeedsOf(txs[k].at)
  <2> TAKE k \in 1 .. Len(txs)
  <2> HAVE k < n + 1 /\ txs[k].op = "mint" /\ (txs[k].at \in absent \/ ~rec)
  <2>1. CASE k = n
    <3>1. t.op = "mint" /\ t.at \in Addresses
      BY <1>5, <1>6, <2>1 DEF t
    <3>2. Supply(d, t.at) = t.amount
      BY <1>10, <3>1
    <3> QED BY <1>9, <2>1, <3>1, <3>2 DEF t
  <2>2. CASE k < n
    BY <1>3, <1>8, <1>12, <2>2
  <2> QED BY <1>14, <2>1, <2>2
<1>18. Planned(M) \ absent \subseteq d.code
  BY <1>2, <1>10 DEF Grows
<1>19. UpTo(d, M, absent, rec, n + 1)
  BY <1>2, <1>13, <1>15, <1>16, <1>17, <1>18 DEF UpTo, txs
<1> QED BY <1>10, <1>11, <1>19 DEF d, t, txs

(* After the last transaction that is needed, with the assertions passed:  *)
(* whole, unless tokens that were there before had a record over them.     *)
LEMMA AllDone ==
  ASSUME NEW M \in Manifests, NEW c, ContractsOK(c), NEW absent, NEW rec \in BOOLEAN,
         NEW at, UpTo(c, M, absent, rec, at), Asserted(c, M),
         \A k \in 1 .. Len(Script(M)) : at <= k
           => ~(Script(M)[k].op = "mint" /\ Needed(c, absent, rec, Script(M)[k])),
         ~rec \/ Tokens(M) \subseteq absent
  PROVE  Whole(c, M)
<1> DEFINE txs == Script(M)
<1>1. Len(txs) \in Nat /\ InOrder(M, txs)
  BY ScriptTxs, ScriptInOrder DEF IsScript
<1> HIDE DEF txs
<1>2. at \in Nat
  BY <1>1 DEF UpTo, txs
<1>3. SUFFICES ASSUME NEW a \in Tokens(M) PROVE Supply(c, a) \in SeedsOf(a)
  BY DEF Whole
<1>4. PICK m \in Of(M.mods, "token") : a = Addr(m)
  BY <1>3 DEF Tokens, AddrsOf
<1>5. m \in Range(M.mods) /\ m \in Modules /\ a \in Addresses
  BY <1>4, ModuleAddresses, AddrType
<1>6. m.seed \in SeedsOf(a) /\ m.seed \in Nat
  BY <1>4, <1>5, SeedIsOne DEF Modules
<1>7. Supply(c, a) \in SeedsOf(a) \cup {0}
  BY <1>5 DEF ContractsOK, SeededOnly
<1>8. CASE m.seed = 0
  BY <1>6, <1>7, <1>8
<1>9. CASE m.seed > 0
  <2>1. PICK n \in 1 .. Len(txs) : txs[n].op = "mint" /\ txs[n].at = a
    BY <1>1, <1>4, <1>5, <1>9 DEF InOrder
  <2>2. n \in Nat /\ (n < at \/ at <= n)
    BY <1>1, <1>2
  <2>3. a \in absent \/ ~rec
    BY <1>3
  <2>4. CASE n < at
    BY <2>1, <2>3, <2>4 DEF UpTo, txs
  <2>5. CASE at <= n
    <3>1. ~Needed(c, absent, rec, txs[n])
      BY <2>1, <2>5 DEF txs
    <3>2. a \notin absent /\ ~(~rec /\ Supply(c, a) = 0)
      BY <2>1, <3>1 DEF Needed
    <3> QED BY <1>7, <2>3, <3>2
  <2> QED BY <2>2, <2>4, <2>5
<1> QED BY <1>6, <1>8, <1>9

(* On an empty chain the script is carried out one transaction after the   *)
(* other.                                                                  *)
LEMMA ContainerWhole ==
  ASSUME NEW M \in Manifests,
         Asserted(FoldLeft(Performed, NoContracts, Script(M)), M)
  PROVE  /\ ContractsOK(FoldLeft(Performed, NoContracts, Script(M)))
         /\ Whole(FoldLeft(Performed, NoContracts, Script(M)), M)
<1> DEFINE txs == Script(M)
           c == FoldLeft(Performed, NoContracts, txs)
           n == Len(txs)
           absent == Planned(M) \ NoContracts.code
           Good(d, k) == ContractsOK(d) /\ UpTo(d, M, absent, FALSE, k + 1)
<1>1. txs \in Seq(Txs) /\ n \in Nat /\ InOrder(M, txs)
  BY ScriptTxs, ScriptInOrder DEF IsScript
<1>2. PICK b : /\ b[0] = NoContracts
               /\ \A k \in 1 .. n : b[k] = Performed(b[k - 1], txs[k])
               /\ c = b[n]
  <2> HIDE DEF txs
  <2> QED BY <1>1, FoldSteps
<1>3. Good(b[0], 0)
  <2>1. UpTo(NoContracts, M, absent, FALSE, 1)
    BY NoContractsOK, NoneYet, Zenon
  <2>2. 0 + 1 = 1
    OBVIOUS
  <2> HIDE DEF absent
  <2> QED BY <1>2, <2>1, <2>2, NoContractsOK
<1>4. ASSUME NEW k \in 1 .. n, Good(b[k - 1], k - 1) PROVE Good(b[k], k)
  <2>1. k \in Nat /\ (k - 1) + 1 = k
    BY <1>1
  <2>2. ContractsOK(b[k - 1]) /\ UpTo(b[k - 1], M, absent, FALSE, k)
    BY <1>4, <2>1
  <2>3. txs[k].op = "mint" => Needed(b[k - 1], absent, FALSE, txs[k])
    <3>1. SUFFICES ASSUME txs[k].op = "mint" PROVE txs[k].at \in absent
      BY DEF Needed
    <3>2. txs[k].at \in Planned(M)
      BY <1>1, <3>1 DEF InOrder, Planned
    <3> QED BY <3>2 DEF NoContracts
  <2>4. b[k] = Performed(b[k - 1], txs[k])
    BY <1>2
  <2>5. /\ \A j \in 1 .. n : ~(k <= j /\ j < k)
        /\ k \in 1 .. n /\ k <= k
    BY <1>1, <2>1
  <2> HIDE DEF absent
  <2>6. ContractsOK(Performed(b[k - 1], txs[k]))
        /\ UpTo(Performed(b[k - 1], txs[k]), M, absent, FALSE, k + 1)
    BY <2>2, <2>3, <2>5, OneMore, Zenon
  <2> QED BY <2>4, <2>6
<1> DEFINE Bad == {k \in 0 .. n : ~Good(b[k], k)}
<1> HIDE DEF n, Good
<1>5. Bad = {}
  <2> SUFFICES ASSUME Bad # {} PROVE FALSE
    OBVIOUS
  <2>1. Bad \subseteq Nat
    BY <1>1
  <2>2. PICK k \in Bad : \A j \in Bad : k <= j
    <3> HIDE DEF Bad
    <3> QED BY <2>1, LeastNumber
  <2>3. k # 0
    BY <1>3, <2>2
  <2>4. k \in 1 .. n /\ k - 1 \in 0 .. n /\ ~(k <= k - 1)
    BY <1>1, <2>2, <2>3
  <2> QED BY <1>4, <2>2, <2>4
<1>6. Good(c, n)
  BY <1>1, <1>2, <1>5
<1>7. ContractsOK(c) /\ UpTo(c, M, absent, FALSE, n + 1)
  BY <1>6 DEF Good
<1>8. \A k \in 1 .. n : ~(n + 1 <= k)
  BY <1>1
<1>9. Whole(c, M)
  <2> HIDE DEF c, absent
  <2>1. Asserted(c, M)
    BY DEF c
  <2> QED BY <1>7, <1>8, <2>1, AllDone DEF n
<1> QED BY <1>7, <1>9

-----------------------------------------------------------------------------
(* What is served is whole *)

Excused   == halfway \/ Overlaid
Repairing == Sending /\ deploy.recordExists

ChainOK == ContractsOK(chain.c)
SendOK == Sending => UpTo(chain.c, deploy.manifest, deploy.absent,
                          deploy.recordExists, deploy.at)

(* A record whose chain nobody wiped is whole, in the copy too.            *)
RecordWhole(d) ==
  d.record # NoRecord /\ "chain" \notin surgery => Whole(chain.c, d.manifest)
KeptWhole == /\ RecordWhole(disk)
             /\ backup # NoCopy /\ mode = "admin" => RecordWhole(backup.disk)

(* As long as the store was neither wiped nor put back, a copied record is *)
(* the one on disk.                                                        *)
SameCopy ==
  {"store", "restore"} \cap surgery = {} /\ mode = "admin"
  /\ backup # NoCopy /\ backup.disk.record # NoRecord
  => disk = backup.disk

(* A record is whole or the chain has none of its tokens: there is nothing *)
(* in between to be activated, unless a repair stopped halfway.            *)
WholeOrNone ==
  disk.record # NoRecord /\ ~Excused /\ ~Repairing
  => Whole(chain.c, disk.manifest) \/ Tokens(disk.manifest) \cap chain.c.code = {}
RepairOK ==
  Repairing /\ ~Excused
  => Whole(chain.c, disk.manifest) \/ Tokens(disk.manifest) \subseteq deploy.absent
SealedWhole ==
  Sealed /\ (~Excused \/ ~deploy.recordExists) => Whole(chain.c, deploy.manifest)
LiveWhole ==
  live # NoRecord /\ ~Excused
  => TokensIn(live) = {} \/ Whole(chain.c, disk.manifest)

WholeOK == /\ ChainOK /\ SendOK /\ KeptWhole /\ SameCopy
           /\ WholeOrNone /\ RepairOK /\ SealedWhole /\ LiveWhole

LEMMA InitWhole == Init => WholeOK
<1> SUFFICES ASSUME Init PROVE WholeOK
  OBVIOUS
<1>1. ChainOK
  BY NoContractsOK DEF Init, EmptyChain, ChainOK
<1> QED
  BY <1>1 DEF Init, WholeOK, SendOK, KeptWhole, RecordWhole, SameCopy, WholeOrNone,
     RepairOK, SealedWhole, LiveWhole, Repairing, Sending, Sealed, EmptyDisk

(* All sent.                                                               *)
LEMMA SentWhole ==
  ASSUME TypeOK, Steady, WholeOK, Sent, ~Excused \/ ~deploy.recordExists
  PROVE  Whole(chain.c, deploy.manifest)
<1>1. /\ deploy \in Deploys /\ deploy # NoDeploy /\ Sending /\ DeployRest = {}
      /\ Asserted(chain.c, deploy.manifest)
  BY DEF Sent, Sending, TypeOK
<1>2. /\ deploy.manifest \in Manifests /\ deploy.recordExists \in BOOLEAN
      /\ deploy.at \in Nat
  BY <1>1 DEF Deploys
<1>3. UpTo(chain.c, deploy.manifest, deploy.absent, deploy.recordExists, deploy.at)
  BY <1>1 DEF WholeOK, SendOK
<1>4. \A k \in 1 .. Len(Script(deploy.manifest)) : deploy.at <= k
        => ~Needed(chain.c, deploy.absent, deploy.recordExists,
                   Script(deploy.manifest)[k])
  <2>1. Len(Script(deploy.manifest)) \in Nat
    BY <1>2, ScriptTxs
  <2>2. \A k \in deploy.at .. Len(Script(deploy.manifest)) :
          ~Needed(chain.c, deploy.absent, deploy.recordExists,
                  Script(deploy.manifest)[k])
    BY <1>1 DEF DeployRest
  <2> QED BY <1>2, <2>1, <2>2
<1>5. CASE ~deploy.recordExists \/ Tokens(deploy.manifest) \subseteq deploy.absent
  BY <1>1, <1>2, <1>3, <1>4, <1>5, AllDone DEF WholeOK, ChainOK
<1>6. CASE deploy.recordExists
  <2>1. Repairing /\ ~Excused /\ disk.manifest = deploy.manifest
    BY <1>1, <1>6 DEF Repairing, Steady, DeployOK
  <2>2. Whole(chain.c, deploy.manifest) \/ Tokens(deploy.manifest) \subseteq deploy.absent
    BY <2>1 DEF WholeOK, RepairOK
  <2> QED BY <1>5, <2>2
<1> QED BY <1>5, <1>6

(* A send.                                                                 *)
LEMMA SendKeepsWhole ==
  ASSUME TypeOK, Steady, WholeOK, DeploySends
  PROVE  /\ ContractsOK(chain'.c) /\ SendOK'
         /\ \A M \in Manifests : Whole(chain.c, M) => Whole(chain'.c, M)
<1> DEFINE n == Min(DeployRest)
           txs == Script(deploy.manifest)
           t == txs[n]
<1>1. /\ deploy \in Deploys /\ deploy # NoDeploy /\ deploy.step = "send"
      /\ n \in deploy.at .. Len(txs)
      /\ n \in 1 .. Len(txs) /\ t \in Txs
      /\ Needed(chain.c, deploy.absent, deploy.recordExists, t)
      /\ \A k \in deploy.at .. (n - 1) : k \notin DeployRest
      /\ chain.c \in ContractsType /\ chain'.c = Performed(chain.c, t)
      /\ Grows(chain.c, chain'.c)
      /\ deploy' # NoDeploy
      /\ deploy'.manifest = deploy.manifest /\ deploy'.at = n + 1
      /\ deploy'.absent = deploy.absent /\ deploy'.step = "send"
      /\ deploy'.recordExists = deploy.recordExists
  BY SendIs
<1> HIDE DEF n
<1>2. /\ deploy.manifest \in Manifests /\ deploy.recordExists \in BOOLEAN
      /\ deploy.at \in Nat /\ Len(txs) \in Nat
  BY <1>1, ScriptTxs DEF Deploys
<1>3. UpTo(chain.c, deploy.manifest, deploy.absent, deploy.recordExists, deploy.at)
      /\ ContractsOK(chain.c)
  BY <1>1 DEF WholeOK, SendOK, ChainOK, Sending
<1>4. \A k \in 1 .. Len(txs) : deploy.at <= k /\ k < n
        => ~Needed(chain.c, deploy.absent, deploy.recordExists, txs[k])
  <2> TAKE k \in 1 .. Len(txs)
  <2> HAVE deploy.at <= k /\ k < n
  <2> HIDE DEF txs
  <2>1. k \in deploy.at .. (n - 1) /\ k \in deploy.at .. Len(txs)
    BY <1>1, <1>2
  <2>2. k \notin DeployRest
    BY <1>1, <2>1
  <2> QED BY <2>1, <2>2 DEF DeployRest, txs
<1>5. deploy.at <= n
  <2> HIDE DEF txs
  <2> QED BY <1>1, <1>2
<1>6. /\ ContractsOK(Performed(chain.c, txs[n]))
      /\ UpTo(Performed(chain.c, txs[n]), deploy.manifest, deploy.absent,
              deploy.recordExists, n + 1)
      /\ \A a \in Addresses : Supply(Performed(chain.c, txs[n]), a)
                                \in {Supply(chain.c, a)} \cup SeedsOf(a)
  BY <1>1, <1>2, <1>3, <1>4, <1>5, OneMore, Zenon
<1>7. /\ ContractsOK(chain'.c)
      /\ \A a \in Addresses : Supply(chain'.c, a) \in {Supply(chain.c, a)} \cup SeedsOf(a)
  BY <1>1, <1>6
<1>8. SendOK'
  BY <1>1, <1>6 DEF SendOK
<1>9. \A M \in Manifests : Whole(chain.c, M) => Whole(chain'.c, M)
  BY <1>1, <1>7, WholeStays
<1> QED BY <1>7, <1>8, <1>9

LEMMA NextWhole == TypeOK /\ Steady /\ WholeOK /\ [Next]_vars => WholeOK'
<1> SUFFICES ASSUME TypeOK, Steady, WholeOK, [Next]_vars PROVE WholeOK'
  OBVIOUS
<1>0. /\ PlacesOK /\ DisksOK /\ DeployOK
      /\ ChainOK /\ SendOK /\ KeptWhole /\ SameCopy
      /\ WholeOrNone /\ RepairOK /\ SealedWhole /\ LiveWhole
      /\ chain \in Chains /\ disk \in Disks
      /\ deploy \in Deploys \cup {NoDeploy} /\ NoDeploy \notin Deploys
      /\ backup \in Copies \cup {NoCopy}
      /\ mode \in {"admin", "container"}
  BY SentinelAssumption DEF TypeOK, Steady, WholeOK
<1> USE DEF WholeOK
(* The chain, the disk and the deploy are left alone.                      *)
<1>1. ASSUME UNCHANGED <<mode, disk, backup, surgery, halfway, deploy>>,
             chain'.c = chain.c, live' \in {live, NoRecord}
      PROVE  WholeOK'
  <2>1. (Excused <=> Excused') /\ (Sending <=> Sending') /\ (Sealed <=> Sealed')
        /\ (Repairing <=> Repairing')
    BY <1>1 DEF Excused, Overlaid, Sending, Sealed, Repairing
  <2>2. ChainOK' /\ SendOK' /\ KeptWhole' /\ SameCopy'
    BY <1>0, <1>1, <2>1 DEF ChainOK, SendOK, KeptWhole, RecordWhole, SameCopy
  <2>3. WholeOrNone' /\ RepairOK' /\ SealedWhole' /\ LiveWhole'
    BY <1>0, <1>1, <2>1 DEF WholeOrNone, RepairOK, SealedWhole, LiveWhole
  <2> QED BY <2>2, <2>3
<1>2. CASE UNCHANGED vars
  BY <1>1, <1>2 DEF vars, volumes, history
<1>3. ASSUME NEW f \in Flags,
             ServeUndeployed(f) \/ ServeUnrepaired(f) \/ Exit(f) \/ ActivationBreaks(f)
      PROVE  WholeOK'
  BY <1>1, <1>3 DEF ServeUndeployed, ServeUnrepaired, Exit, ActivationBreaks, Serve,
     volumes, history
<1>4. CASE ExitOverRecord
  BY <1>1, <1>4 DEF ExitOverRecord, volumes, history
<1>5. ASSUME NEW a \in Agents, SpawnBegins(a) \/ SpawnEnds(a) \/ SpawnFails(a)
      PROVE  WholeOK'
  <2>1. chain'.c = chain.c
    BY <1>0, <1>5 DEF SpawnBegins, SpawnEnds, SpawnFails, volumes, Chains
  <2> QED
    BY <1>1, <1>5, <2>1 DEF SpawnBegins, SpawnEnds, SpawnFails, volumes, history
<1>6. ASSUME NEW i \in Ids, Reserve(i) \/ Pay(i) \/ Release(i) PROVE WholeOK'
  <2>1. chain'.c = chain.c
    BY <1>0, <1>6 DEF Reserve, Pay, Release, Chains
  <2> QED
    BY <1>1, <1>6, <2>1 DEF Reserve, Pay, Release, history
(* The deploy ends, and what is left of it is excused or whole.            *)
<1>7. ASSUME UNCHANGED <<mode, chain, disk, backup, surgery>>, deploy' = NoDeploy,
             halfway => halfway', live' \in {live, NoRecord},
             Repairing /\ ~Excused' => Whole(chain.c, disk.manifest)
      PROVE  WholeOK'
  <2>1. (Excused => Excused') /\ ~Sending' /\ ~Sealed' /\ ~Repairing'
    BY <1>7 DEF Excused, Overlaid, Sending, Sealed, Repairing
  <2>2. ChainOK' /\ SendOK' /\ KeptWhole' /\ SameCopy'
    BY <1>0, <1>7, <2>1 DEF ChainOK, SendOK, KeptWhole, RecordWhole, SameCopy
  <2>3. WholeOrNone' /\ RepairOK' /\ SealedWhole' /\ LiveWhole'
    BY <1>0, <1>7, <2>1 DEF WholeOrNone, RepairOK, SealedWhole, LiveWhole
  <2> QED BY <2>2, <2>3
<1>8. CASE Crash \/ DeployFails
  <2>1. UNCHANGED <<mode, chain, disk, backup, surgery>> /\ deploy' = NoDeploy
        /\ live' \in {live, NoRecord}
    BY <1>8 DEF Crash, DeployFails, volumes
  <2>2. (halfway => halfway') /\ (Repairing => halfway')
    BY <1>8, Zenon DEF Crash, DeployFails, Repairing, Sending
  <2>3. Repairing => Excused'
    BY <2>2 DEF Excused
  <2> QED BY <1>7, <2>1, <2>2, <2>3
<1>9. ASSUME Sent, Repairing, ~Excused PROVE Whole(chain.c, disk.manifest)
  BY <1>0, <1>9, SentWhole DEF DeployOK, Repairing, Sending
<1>10. CASE DeployRepeats
  <2>1. /\ UNCHANGED <<mode, chain, disk, backup, surgery, halfway, live>>
        /\ deploy' = NoDeploy /\ Sent
    BY <1>10 DEF DeployRepeats, volumes, history
  <2>2. Excused <=> Excused'
    BY <2>1 DEF Excused, Overlaid
  <2> QED BY <1>7, <1>9, <2>1, <2>2
<1>11. CASE DeployPrepares \/ DeployBreaks
  <2>1. /\ UNCHANGED <<mode, chain, disk, backup, surgery, halfway, live>>
        /\ deploy' \in {NoDeploy, [deploy EXCEPT !.step = "prepared"]} /\ Sent
    BY <1>11 DEF DeployPrepares, DeployBreaks
  <2>2. Excused <=> Excused'
    BY <2>1 DEF Excused, Overlaid
  <2>3. CASE deploy' = NoDeploy
    BY <1>7, <1>9, <2>1, <2>2, <2>3
  <2>4. CASE deploy' = [deploy EXCEPT !.step = "prepared"]
    <3>1. /\ deploy \in Deploys /\ deploy # NoDeploy /\ Sending
          /\ deploy'.step = "prepared" /\ deploy'.manifest = deploy.manifest
          /\ deploy'.recordExists = deploy.recordExists
      BY <1>0, <2>1, <2>4 DEF Sent, Sending, Deploys
    <3>2. ~Sending' /\ ~Repairing'
      BY <3>1 DEF Sending, Repairing
    <3>3. ChainOK' /\ SendOK' /\ KeptWhole' /\ SameCopy'
      BY <1>0, <2>1, <3>2 DEF ChainOK, SendOK, KeptWhole, RecordWhole, SameCopy
    <3>4. SealedWhole'
      BY <2>1, <2>2, <3>1, SentWhole DEF SealedWhole
    <3>5. disk.record # NoRecord => Repairing
      BY <1>0, <3>1 DEF DeployOK, Repairing, Sending
    <3>6. WholeOrNone' /\ RepairOK' /\ LiveWhole'
      BY <1>0, <1>9, <2>1, <2>2, <3>2, <3>5 DEF WholeOrNone, RepairOK, LiveWhole
    <3> QED BY <3>3, <3>4, <3>6
  <2> QED BY <2>1, <2>3, <2>4
<1>12. ASSUME NEW f \in Flags, ServeRecorded(f) PROVE WholeOK'
  <2>1. /\ live' = disk.record /\ disk.record # NoRecord /\ deploy = NoDeploy
        /\ Verdict(disk.record, f) = "ok"
        /\ UNCHANGED <<mode, chain, disk, backup, surgery, halfway, deploy>>
    BY <1>0, <1>12 DEF ServeRecorded, GoLive, Loads, PlacesOK
  <2>2. (Excused <=> Excused') /\ ~Sending /\ ~Sending' /\ ~Sealed' /\ ~Repairing
        /\ ~Repairing'
    BY <2>1 DEF Excused, Overlaid, Sending, Sealed, Repairing
  <2>3. ChainOK' /\ SendOK' /\ KeptWhole' /\ SameCopy'
    BY <1>0, <2>1, <2>2 DEF ChainOK, SendOK, KeptWhole, RecordWhole, SameCopy
  <2>4. WholeOrNone' /\ RepairOK' /\ SealedWhole'
    BY <1>0, <2>1, <2>2 DEF WholeOrNone, RepairOK, SealedWhole
  <2>5. LiveWhole'
    <3>1. TokensIn(disk.record) \subseteq chain.c.code
      BY <2>1, VerdictIs DEF TokensRead
    <3>2. TokensIn(disk.record) = Tokens(disk.manifest)
      BY <1>0, <2>1, RecordedIs DEF DisksOK, DiskOK, Tokens
    <3>3. ~Excused => TokensIn(disk.record) = {} \/ Whole(chain.c, disk.manifest)
      BY <1>0, <2>1, <2>2, <3>1, <3>2 DEF WholeOrNone
    <3> QED BY <2>1, <2>2, <3>3 DEF LiveWhole
  <2> QED BY <2>3, <2>4, <2>5
<1>13. ASSUME NEW M \in Manifests, DeployStarts(M) PROVE WholeOK'
  <2>1. /\ deploy' = [manifest |-> M, at |-> 1, step |-> "send",
                      absent |-> Planned(M) \ chain.c.code,
                      recordExists |-> disk.record # NoRecord]
        /\ deploy = NoDeploy /\ Preflight(M)
        /\ UNCHANGED <<mode, chain, disk, backup, surgery, halfway, live>>
    BY <1>13 DEF DeployStarts, volumes, history
  <2>2. /\ deploy'.manifest = M /\ deploy'.at = 1 /\ deploy'.step = "send"
        /\ deploy'.absent = Planned(M) \ chain.c.code
        /\ deploy'.recordExists <=> disk.record # NoRecord
    BY <2>1
  <2>3. /\ disk.record # NoRecord => disk.manifest = M
    BY <2>1 DEF Preflight
  <2>4. (Excused <=> Excused') /\ ~Sending /\ ~Sealed' /\ ~Repairing
        /\ (Repairing' => disk.record # NoRecord)
        /\ (disk.record # NoRecord => Repairing' \/ deploy' = NoDeploy)
    BY <2>1, <2>2 DEF Excused, Overlaid, Sending, Sealed, Repairing
  <2>5. ChainOK' /\ KeptWhole' /\ SameCopy' /\ LiveWhole' /\ SealedWhole'
    BY <1>0, <2>1, <2>4 DEF ChainOK, KeptWhole, RecordWhole, SameCopy, LiveWhole, SealedWhole
  <2>6. SendOK'
    BY <1>0, <2>1, <2>2, NoneYet DEF SendOK, ChainOK
  <2>7. RepairOK'
    <3>1. Tokens(M) \subseteq Planned(M)
      BY ModuleAddresses DEF Tokens
    <3> QED BY <1>0, <2>1, <2>2, <2>3, <2>4, <3>1 DEF RepairOK, WholeOrNone
  <2>8. WholeOrNone'
    BY <1>0, <2>1, <2>2, <2>4 DEF WholeOrNone
  <2> QED BY <2>5, <2>6, <2>7, <2>8
<1>14. CASE DeploySends
  <2>1. /\ deploy # NoDeploy /\ deploy' # NoDeploy
        /\ deploy.step = "send" /\ deploy'.step = "send"
        /\ deploy'.manifest = deploy.manifest /\ deploy'.absent = deploy.absent
        /\ deploy'.recordExists = deploy.recordExists
    BY <1>14, SendIs
  <2>2. /\ UNCHANGED <<mode, disk, backup, live, surgery, halfway>>
        /\ disk.record # NoRecord => disk.manifest \in Manifests
        /\ backup # NoCopy /\ backup.disk.record # NoRecord
             => backup.disk.manifest \in Manifests
    BY <1>0, <1>14 DEF DeploySends, history, DisksOK, DiskOK
  <2>3. /\ ContractsOK(chain'.c) /\ SendOK'
        /\ \A M \in Manifests : Whole(chain.c, M) => Whole(chain'.c, M)
    BY <1>14, SendKeepsWhole
  <2>4. (Excused <=> Excused') /\ ~Sealed' /\ (Repairing <=> Repairing')
        /\ (disk.record # NoRecord => Repairing)
    BY <1>0, <2>1, <2>2 DEF Excused, Overlaid, Sealed, Sending, Repairing, DeployOK
  <2>5. ChainOK' /\ KeptWhole' /\ SameCopy'
    BY <1>0, <2>2, <2>3 DEF ChainOK, KeptWhole, RecordWhole, SameCopy
  <2>6. WholeOrNone' /\ SealedWhole'
    BY <2>2, <2>4 DEF WholeOrNone, SealedWhole
  <2>7. RepairOK'
    BY <1>0, <2>1, <2>2, <2>3, <2>4 DEF RepairOK, DeployOK, Repairing
  <2>8. LiveWhole'
    BY <1>0, <2>2, <2>3, <2>4 DEF LiveWhole, PlacesOK
  <2> QED BY <2>3, <2>5, <2>6, <2>7, <2>8
<1>15. CASE WriteManifest \/ WriteRecord
  <2>1. /\ deploy # NoDeploy /\ Sealed /\ deploy' # NoDeploy /\ Sealed'
        /\ deploy'.manifest = deploy.manifest
        /\ deploy'.recordExists = deploy.recordExists
        /\ deploy.manifest \in Manifests /\ live = NoRecord
        /\ mode = "admin"
        /\ UNCHANGED <<mode, chain, backup, surgery, halfway, live>>
    <3>1. deploy # NoDeploy /\ deploy \in Deploys
      BY <1>0, <1>15 DEF WriteManifest, WriteRecord
    <3>2. PICK s \in {"manifest", "record"} : deploy' = [deploy EXCEPT !.step = s]
      BY <1>15 DEF WriteManifest, WriteRecord
    <3>3. /\ deploy' \in Deploys /\ deploy'.step # "send"
          /\ deploy'.manifest = deploy.manifest
          /\ deploy'.recordExists = deploy.recordExists
      BY <3>1, <3>2 DEF Deploys
    <3>4. Sealed
      BY <1>15, <3>1 DEF WriteManifest, WriteRecord, Sealed
    <3> QED BY <1>0, <1>15, <3>1, <3>3, <3>4 DEF WriteManifest, WriteRecord, Sealed,
               Deploys, PlacesOK, history
  <2>2. /\ disk' \in Disks /\ disk'.manifest = deploy.manifest
        /\ disk'.record # NoRecord => disk'.record = RecordFor(deploy.manifest)
        /\ disk'.record # NoRecord => disk.record # NoRecord \/ WriteRecord
        /\ disk.record # NoRecord => disk' = disk
    <3>1. CASE WriteManifest
      <4>1. disk' = [disk EXCEPT !.manifest = deploy.manifest]
        BY <3>1 DEF WriteManifest
      <4>2. disk.record # NoRecord => disk.manifest = deploy.manifest
                                      /\ disk.record = RecordFor(deploy.manifest)
        BY <1>0, <2>1 DEF DeployOK, DisksOK, DiskOK
      <4> QED BY <1>0, <2>1, <4>1, <4>2 DEF Disks
    <3>2. CASE WriteRecord
      <4>1. disk' = [disk EXCEPT !.record = RecordFor(deploy.manifest)]
            /\ disk.manifest = deploy.manifest
        BY <1>0, <2>1, <3>2 DEF WriteRecord, DeployOK
      <4>2. disk.record # NoRecord => disk.record = RecordFor(deploy.manifest)
        BY <1>0, <4>1 DEF DisksOK, DiskOK
      <4> QED BY <1>0, <2>1, <3>2, <4>1, <4>2, RecordsAre DEF Disks
    <3> QED BY <1>15, <3>1, <3>2
  <2>3. (Excused <=> Excused') /\ ~Sending /\ ~Sending' /\ ~Repairing /\ ~Repairing'
    BY <2>1 DEF Excused, Overlaid, Sending, Sealed, Repairing
  <2>4. ChainOK' /\ SendOK' /\ RepairOK' /\ SealedWhole' /\ LiveWhole'
    BY <1>0, <2>1, <2>3 DEF ChainOK, SendOK, RepairOK, SealedWhole, LiveWhole
  <2>5. SameCopy'
    BY <1>0, <2>1, <2>2 DEF SameCopy
  <2>6. "chain" \notin surgery => ~Overlaid
    BY DEF Overlaid
  <2>7. deploy.recordExists => disk.record # NoRecord
    BY <1>0, <2>1 DEF DeployOK
  <2>8. KeptWhole'
    <3>1. disk.record = NoRecord /\ "chain" \notin surgery => Whole(chain.c, deploy.manifest)
      BY <1>0, <2>1, <2>7 DEF SealedWhole
    <3>2. RecordWhole(disk)'
      BY <1>0, <2>1, <2>2, <3>1 DEF KeptWhole, RecordWhole
    <3> QED BY <1>0, <2>1, <3>2 DEF KeptWhole, RecordWhole
  <2>9. WholeOrNone'
    BY <1>0, <2>1, <2>2, <2>3, <2>7 DEF WholeOrNone, SealedWhole
  <2> QED BY <2>4, <2>5, <2>8, <2>9
<1>16. CASE Commit
  <2>1. /\ deploy # NoDeploy /\ deploy.step = "record" /\ Sealed
        /\ live' = RecordFor(deploy.manifest) /\ deploy' = NoDeploy
        /\ UNCHANGED <<mode, chain, disk, backup, surgery, halfway>>
    BY <1>16 DEF Commit, GoLive, volumes, Sealed
  <2>2. (Excused <=> Excused') /\ ~Sending' /\ ~Sealed' /\ ~Repairing /\ ~Repairing'
    BY <2>1 DEF Excused, Overlaid, Sending, Sealed, Repairing
  <2>3. ChainOK' /\ SendOK' /\ KeptWhole' /\ SameCopy' /\ WholeOrNone' /\ RepairOK'
        /\ SealedWhole'
    BY <1>0, <2>1, <2>2 DEF ChainOK, SendOK, KeptWhole, RecordWhole, SameCopy,
       WholeOrNone, RepairOK, SealedWhole
  <2>4. LiveWhole'
    BY <1>0, <2>1, <2>2 DEF LiveWhole, SealedWhole, DeployOK
  <2> QED BY <2>3, <2>4
<1>17. ASSUME NEW M \in Manifests, ContainerDeploys(M) PROVE WholeOK'
  <2>1. /\ mode = "container" /\ deploy = NoDeploy /\ live = NoRecord
        /\ chain'.c = FoldLeft(Performed, NoContracts, Script(M))
        /\ Asserted(FoldLeft(Performed, NoContracts, Script(M)), M)
        /\ disk'.manifest = M
        /\ UNCHANGED <<mode, deploy, live, backup, surgery, halfway>>
    BY <1>0, <1>17 DEF ContainerDeploys, Chains, PlacesOK, history
  <2>2. ContractsOK(chain'.c) /\ Whole(chain'.c, M)
    BY <2>1, ContainerWhole
  <2>3. ~Sending' /\ ~Sealed' /\ ~Repairing'
    BY <2>1 DEF Sending, Sealed, Repairing
  <2> QED
    BY <2>1, <2>2, <2>3 DEF ChainOK, SendOK, KeptWhole, RecordWhole, SameCopy,
       WholeOrNone, RepairOK, SealedWhole, LiveWhole
(* What an operator does to a volume while the service is down.            *)
<1>18. ASSUME NEW what, Operates(what)
       PROVE  /\ what \notin surgery /\ surgery' = surgery \cup {what}
              /\ deploy = NoDeploy /\ live = NoRecord
              /\ ~Sending' /\ ~Sealed' /\ ~Repairing /\ ~Repairing' /\ live' = NoRecord
              /\ mode' = mode /\ (Excused => Excused')
  <2>1. /\ what \notin surgery /\ surgery' = surgery \cup {what}
        /\ deploy = NoDeploy /\ live = NoRecord
        /\ UNCHANGED <<mode, deploy, live, halfway>>
    BY <1>0, <1>18 DEF Operates, PlacesOK
  <2> QED BY <2>1 DEF Sending, Sealed, Repairing, Excused, Overlaid
<1>19. CASE WipeStore
  <2>1. /\ disk' = (IF mode = "admin" THEN EmptyDisk ELSE disk)
        /\ UNCHANGED <<chain, backup>> /\ Operates("store")
    BY <1>19 DEF WipeStore, BesideStore
  <2>2. mode = "admin" => disk'.record = NoRecord
    BY <2>1 DEF EmptyDisk
  <2>3. mode # "admin" => disk' = disk
    BY <2>1
  <2> QED
    BY <1>0, <1>18, <2>1, <2>2, <2>3 DEF ChainOK, SendOK, KeptWhole, RecordWhole, SameCopy,
       WholeOrNone, RepairOK, SealedWhole, LiveWhole
<1>20. CASE WipeKeystore
  <2>1. UNCHANGED <<chain, disk, backup>> /\ Operates("keystore")
    BY <1>20 DEF WipeKeystore
  <2> QED
    BY <1>0, <1>18, <2>1 DEF ChainOK, SendOK, KeptWhole, RecordWhole, SameCopy,
       WholeOrNone, RepairOK, SealedWhole, LiveWhole
<1>21. CASE WipeChain
  <2>1. UNCHANGED <<disk, backup>> /\ Operates("chain") /\ chain'.c = NoContracts
    BY <1>21 DEF WipeChain, EmptyChain
  <2>2. ContractsOK(chain'.c) /\ chain'.c.code = {}
    BY <2>1, NoContractsOK DEF NoContracts
  <2> QED
    BY <1>0, <1>18, <2>1, <2>2 DEF ChainOK, SendOK, KeptWhole, RecordWhole, SameCopy,
       WholeOrNone, RepairOK, SealedWhole, LiveWhole
<1>22. CASE RestoreStore
  <2>1. /\ disk' = (IF mode = "admin" THEN backup.disk ELSE disk) /\ backup # NoCopy
        /\ UNCHANGED <<chain, backup>> /\ Operates("restore")
    BY <1>22 DEF RestoreStore, BesideStore
  <2>2. ChainOK' /\ SendOK' /\ KeptWhole' /\ SameCopy' /\ RepairOK' /\ SealedWhole'
        /\ LiveWhole'
    BY <1>0, <1>18, <2>1 DEF ChainOK, SendOK, KeptWhole, RecordWhole, SameCopy,
       RepairOK, SealedWhole, LiveWhole
  <2>3. WholeOrNone'
    <3>1. CASE mode # "admin"
      BY <1>0, <1>18, <2>1, <3>1 DEF WholeOrNone
    <3>2. CASE mode = "admin" /\ "chain" \notin surgery
      BY <1>0, <1>18, <2>1, <3>2 DEF WholeOrNone, KeptWhole, RecordWhole
    <3>3. CASE mode = "admin" /\ "chain" \in surgery
      <4>1. SUFFICES ASSUME backup.disk.record # NoRecord, ~Excused'
                     PROVE  disk' = disk
        BY <1>0, <1>18, <2>1, <3>3 DEF WholeOrNone
      <4>2. "store" \notin surgery /\ "restore" \notin surgery
        BY <1>18, <2>1, <3>3, <4>1 DEF Excused, Overlaid
      <4> QED BY <1>0, <2>1, <3>3, <4>1, <4>2 DEF SameCopy
    <3> QED BY <3>1, <3>2, <3>3
  <2> QED BY <2>2, <2>3
<1>23. CASE BackUp
  <2>1. /\ backup'.disk = disk
        /\ UNCHANGED <<mode, disk, chain, live, deploy, surgery, halfway>>
    BY <1>23 DEF BackUp, history
  <2>2. (Excused <=> Excused') /\ (Sending <=> Sending') /\ (Sealed <=> Sealed')
        /\ (Repairing <=> Repairing')
    BY <2>1 DEF Excused, Overlaid, Sending, Sealed, Repairing
  <2>3. ChainOK' /\ SendOK' /\ KeptWhole' /\ SameCopy'
    BY <1>0, <2>1, <2>2 DEF ChainOK, SendOK, KeptWhole, RecordWhole, SameCopy
  <2>4. WholeOrNone' /\ RepairOK' /\ SealedWhole' /\ LiveWhole'
    BY <1>0, <2>1, <2>2 DEF WholeOrNone, RepairOK, SealedWhole, LiveWhole
  <2> QED BY <2>3, <2>4
<1> QED
  BY <1>2, <1>3, <1>4, <1>5, <1>6, <1>8, <1>10, <1>11, <1>12, <1>13, <1>14, <1>15,
     <1>16, <1>17, <1>19, <1>20, <1>21, <1>22, <1>23 DEF Next

LEMMA BootInvariant == Spec => [](TypeOK /\ Steady /\ WholeOK)
<1>1. Init => TypeOK /\ Steady /\ WholeOK
  BY InitTypeOK, InitSteady, InitWhole
<1>2. TypeOK /\ Steady /\ WholeOK /\ [Next]_vars => TypeOK' /\ Steady' /\ WholeOK'
  BY NextTypeOK, NextSteady, NextWhole
<1> QED BY <1>1, <1>2, PTL DEF Spec

(* A token that is served was seeded once, from one of the manifests that  *)
(* lead to its address, however many deploys began and failed, and however *)
(* the volumes were wiped or put back; where a repair stopped halfway, or  *)
(* an old record lies over a new chain, it may not have been seeded yet.   *)
(* (Of a mint that lands later than the next deploy's read it says nothing:*)
(* DeploySends has none.)                                                  *)
THEOREM TokensSeededOnce == Spec => []SeededOnce
<1>1. TypeOK /\ Steady /\ WholeOK => SeededOnce
  <2> SUFFICES ASSUME Steady, WholeOK, live # NoRecord, NEW a \in TokensIn(live)
               PROVE  Supply(chain.c, a) \in
                        SeedsOf(a) \cup (IF halfway \/ Overlaid THEN {0} ELSE {})
    BY DEF SeededOnce
  <2>1. /\ disk.manifest \in Manifests /\ live = RecordFor(disk.manifest)
    BY DEF Steady, PlacesOK, DisksOK, DiskOK
  <2>2. a \in Tokens(disk.manifest) /\ a \in Addresses
    BY <2>1, RecordedIs, ModuleAddresses DEF Tokens
  <2>3. Supply(chain.c, a) \in SeedsOf(a) \cup {0}
    BY <2>2 DEF WholeOK, ChainOK, ContractsOK, SeededOnly
  <2>4. ~(halfway \/ Overlaid) => Supply(chain.c, a) \in SeedsOf(a)
    BY <2>2 DEF WholeOK, LiveWhole, Excused, Whole
  <2> QED BY <2>3, <2>4
<1> QED BY <1>1, BootInvariant, PTL

(* What is served is on disk and on the chain, whole, and the store is     *)
(* bound to it.                                                            *)
THEOREM ServedIsWhole == Spec => []LiveIsWhole
<1>1. TypeOK /\ Steady /\ WholeOK => LiveIsWhole
  <2> SUFFICES ASSUME Steady, WholeOK, live # NoRecord
               PROVE  /\ disk.record = live /\ RecordFor(disk.manifest) = live
                      /\ store.identity = Identity(live) \/ "chain" \in flags
                      /\ halfway \/ Overlaid \/ TokensIn(live) = {}
                         \/ Asserted(chain.c, disk.manifest)
    BY DEF LiveIsWhole
  <2>1. disk.record = live /\ RecordFor(disk.manifest) = live
    BY DEF Steady, PlacesOK, DisksOK, DiskOK
  <2>2. store.identity = Identity(live) \/ "chain" \in flags
    BY DEF Steady, LivesOn
  <2>3. halfway \/ Overlaid \/ TokensIn(live) = {} \/ Asserted(chain.c, disk.manifest)
    BY DEF WholeOK, LiveWhole, Excused, Whole
  <2> QED BY <2>1, <2>2, <2>3
<1> QED BY <1>1, BootInvariant, PTL
=============================================================================
