-------------------------- MODULE ContractsProofs --------------------------
(***************************************************************************)
(* Proofs about Contracts.tla for any tokens, accounts, rates and names.   *)
(***************************************************************************)
EXTENDS Contracts, FiniteSetTheorems, TLAPS

Balances == [Tokens -> [Accounts -> Nat]]
PairType == [rate : Rates, paused : BOOLEAN]
RecordType ==
  [alias : Alias, creator : Accounts, token : Tokens, amount : Nat,
   data : Modes, deadline : Nat, state : {"OPEN", "COMPLETED", "REFUNDED"}]

TypeOK ==
  /\ balance \in Balances
  /\ frozen \in [Tokens -> SUBSET Accounts]
  /\ pairs \in [DOMAIN pairs -> PairType]
  /\ records \in [DOMAIN records -> RecordType]
  /\ minted \in [Tokens -> Nat]

(* The rates of a two-way pair multiply to at most one.                    *)
NoPairLoops ==
  \A s, t \in Tokens :
    Exists(s, t) /\ Exists(t, s)
      => pairs[<<s, t>>].rate * pairs[<<t, s>>].rate <= Scale * Scale

-----------------------------------------------------------------------------
LEMMA PlusAdds ==
  ASSUME NEW b \in Balances, NEW t, NEW a, NEW n \in Nat
  PROVE  /\ Plus(b, t, a, n) \in Balances
         /\ \A u \in Tokens, c \in Accounts : Plus(b, t, a, n)[u][c] >= b[u][c]
<1>1. CASE t \in Tokens /\ a \in Accounts
  <2>1. Plus(b, t, a, n) \in Balances
    BY <1>1 DEF Plus, Balances
  <2>2. ASSUME NEW u \in Tokens, NEW c \in Accounts
        PROVE  Plus(b, t, a, n)[u][c] >= b[u][c]
    <3>1. CASE u = t /\ c = a
      BY <1>1, <3>1 DEF Plus, Balances
    <3>2. CASE u # t \/ c # a
      <4>1. Plus(b, t, a, n)[u][c] = b[u][c] /\ b[u][c] \in Nat
        BY <1>1, <3>2 DEF Plus, Balances
      <4> QED BY <4>1
    <3> QED BY <3>1, <3>2
  <2> QED BY <2>1, <2>2
<1>2. CASE t \notin Tokens \/ a \notin Accounts
  <2>1. Plus(b, t, a, n) = b
    BY <1>2 DEF Plus, Balances
  <2>2. \A u \in Tokens, c \in Accounts : b[u][c] \in Nat
    BY DEF Balances
  <2> QED BY <2>1, <2>2
<1> QED BY <1>1, <1>2

LEMMA PlusNowhere ==
  ASSUME NEW b \in Balances, NEW t, NEW a, NEW n, a \notin Accounts
  PROVE  Plus(b, t, a, n) = b
BY DEF Plus, Balances

LEMMA MinusTakes ==
  ASSUME NEW b \in Balances, NEW t \in Tokens, NEW a \in Accounts,
         NEW n \in Nat, b[t][a] >= n
  PROVE  /\ Minus(b, t, a, n) \in Balances
         /\ \A u \in Tokens, c \in Accounts :
              (u # t \/ c # a) => Minus(b, t, a, n)[u][c] = b[u][c]
BY DEF Minus, Balances

LEMMA RecordTypes ==
  ASSUME records \in [DOMAIN records -> RecordType], NEW id \in DOMAIN records,
         NEW st \in {"OPEN", "COMPLETED", "REFUNDED"}
  PROVE  /\ records[id].amount \in Nat
         /\ Settled(id, st) \in [DOMAIN records -> RecordType]
         /\ DOMAIN Settled(id, st) = DOMAIN records
<1>1. records[id] \in RecordType
  OBVIOUS
<1> DEFINE r == [records[id] EXCEPT !.state = st]
<1>2. r \in RecordType /\ records[id].amount \in Nat
  BY <1>1 DEF RecordType
<1>3. Settled(id, st) = [records EXCEPT ![id] = r]
  BY DEF Settled
<1> HIDE DEF r
<1> QED BY <1>2, <1>3

-----------------------------------------------------------------------------
LEMMA QuoteIsNat ==
  ASSUME NEW s, NEW t, NEW n \in Nat, pairs[<<s, t>>].rate \in Nat
  PROVE  Quote(s, t, n) \in Nat
<1> DEFINE m == n * pairs[<<s, t>>].rate
<1>1. m \in Nat
  OBVIOUS
<1> HIDE DEF m
<1>2. m \div Scale \in Nat
  BY <1>1, ContractsAssumption
<1> QED BY <1>2 DEF Quote, m

(* Every transaction keeps the types.                                      *)
LEMMA TypeStep ==
  ASSUME TypeOK, [Next]_vars
  PROVE  TypeOK'
<1> USE ContractsAssumption DEF TypeOK, NoMint
<1>1. ASSUME NEW t \in Tokens, NEW a \in Accounts, NEW n \in Amounts,
             Mint(t, a, n)
      PROVE  TypeOK'
  BY <1>1, PlusAdds DEF Mint
<1>2. ASSUME NEW t \in Tokens, NEW a \in Accounts, NEW b \in Accounts,
             NEW n \in Amounts, Send(t, a, b, n)
      PROVE  TypeOK'
  <2>1. n \in Nat /\ Minus(balance, t, a, n) \in Balances
    BY <1>2, MinusTakes DEF Send, MayPay
  <2> QED BY <1>2, <2>1, PlusAdds DEF Send
<1>3. ASSUME NEW t \in Tokens, NEW a \in Accounts, NEW v \in BOOLEAN,
             SetFrozen(t, a, v)
      PROVE  TypeOK'
  BY <1>3 DEF SetFrozen
<1>4. ASSUME NEW s \in Tokens, NEW t \in Tokens, NEW r \in Rates,
             SetPair(s, t, r)
      PROVE  TypeOK'
  <2> DEFINE p == [rate |-> r, paused |-> Exists(s, t) /\ pairs[<<s, t>>].paused]
  <2>1. p \in PairType
    <3>1. CASE Exists(s, t)
      <4>1. pairs[<<s, t>>].paused \in BOOLEAN
        BY <3>1 DEF Exists, PairType
      <4> QED BY <3>1, <4>1 DEF PairType
    <3>2. CASE ~Exists(s, t)
      BY <3>2 DEF PairType
    <3> QED BY <3>1, <3>2
  <2>2. pairs' = With(pairs, <<s, t>>, p)
    BY <1>4 DEF SetPair
  <2> HIDE DEF p
  <2>3. pairs' \in [DOMAIN pairs' -> PairType]
    BY <2>1, <2>2 DEF With
  <2> QED BY <1>4, <2>3 DEF SetPair
<1>5. ASSUME NEW s \in Tokens, NEW t \in Tokens, NEW v \in BOOLEAN,
             SetPaused(s, t, v)
      PROVE  TypeOK'
  <2> DEFINE p == [pairs[<<s, t>>] EXCEPT !.paused = v]
  <2>1. p \in PairType
    BY <1>5 DEF SetPaused, Exists, PairType
  <2>2. pairs' = [pairs EXCEPT ![<<s, t>>] = p]
    BY <1>5 DEF SetPaused
  <2> HIDE DEF p
  <2>3. pairs' \in [DOMAIN pairs' -> PairType]
    BY <2>1, <2>2
  <2> QED BY <1>5, <2>3 DEF SetPaused
<1>6. ASSUME NEW a \in Accounts, NEW s \in Tokens, NEW t \in Tokens,
             NEW n \in Amounts, Convert(a, s, t, n)
      PROVE  TypeOK'
  <2>1. n \in Nat /\ Minus(balance, s, a, n) \in Balances
    BY <1>6, MinusTakes DEF Convert, MayPay
  <2>2. pairs[<<s, t>>].rate \in Nat
    BY <1>6 DEF Convert, Exists, PairType
  <2>3. Quote(s, t, n) \in Nat
    BY <2>1, <2>2, QuoteIsNat
  <2> QED BY <1>6, <2>1, <2>3, PlusAdds DEF Convert
<1>7. ASSUME NEW id \in Ids, NEW c \in Alias, NEW t \in Tokens,
             NEW n \in Amounts, NEW d \in Modes, NEW l \in Deadlines,
             Create(id, c, t, n, d, l)
      PROVE  TypeOK'
  <2> DEFINE who == Resolve(reg, <<c, "treasury">>)
             r   == [alias |-> c, creator |-> who, token |-> t, amount |-> n,
                     data |-> d, deadline |-> l, state |-> "OPEN"]
  <2>1. who \in Accounts /\ balance' = Minus(balance, t, who, n)
        /\ MayPay(t, who, n) /\ records' = With(records, id, r)
    BY <1>7 DEF Create
  <2> HIDE DEF who
  <2>2. r \in RecordType /\ n \in Nat
    BY <2>1 DEF RecordType
  <2> HIDE DEF r
  <2>3. records' \in [DOMAIN records' -> RecordType]
    BY <2>1, <2>2 DEF With
  <2>4. balance' \in Balances
    BY <2>1, <2>2, MinusTakes DEF MayPay
  <2> QED BY <1>7, <2>3, <2>4 DEF Create
<1>8. ASSUME NEW id \in Ids, NEW w \in Alias, NEW l, NEW a \in Accounts,
             Complete(id, w, l, a)
      PROVE  TypeOK'
  <2>1. id \in DOMAIN records
    BY <1>8 DEF Complete, Open
  <2> QED BY <1>8, <2>1, RecordTypes, PlusAdds DEF Complete
<1>9. ASSUME NEW id \in Ids, Refund(id)
      PROVE  TypeOK'
  <2>1. id \in DOMAIN records
    BY <1>9 DEF Refund, Open
  <2> QED BY <1>9, <2>1, RecordTypes, PlusAdds DEF Refund
<1>10. ASSUME Passes \/ (\E n \in Moved, a \in Accounts : Repoint(n, a))
              \/ UNCHANGED vars
       PROVE  TypeOK'
  BY <1>10 DEF Passes, Repoint, vars
<1> QED BY <1>1, <1>2, <1>3, <1>4, <1>5, <1>6, <1>7, <1>8, <1>9, <1>10 DEF Next

(* The ledger of the tokens, the pairs and the escrows stay well formed.   *)
THEOREM TypeCorrect == Spec => []TypeOK
<1>1. Init => TypeOK
  BY DEF Init, TypeOK, Balances, NoMint
<1> QED BY <1>1, TypeStep, PTL DEF Spec

-----------------------------------------------------------------------------
LEMMA PairsStep ==
  ASSUME TypeOK, NoPairLoops, [Next]_vars
  PROVE  NoPairLoops'
<1>1. ASSUME NEW s \in Tokens, NEW t \in Tokens, NEW r \in Rates,
             SetPair(s, t, r)
      PROVE  NoPairLoops'
  <2> SUFFICES ASSUME NEW u \in Tokens, NEW v \in Tokens,
                      Exists(u, v)', Exists(v, u)'
               PROVE  (pairs[<<u, v>>].rate * pairs[<<v, u>>].rate)'
                        <= Scale * Scale
    BY DEF NoPairLoops
  <2> DEFINE p == [rate |-> r, paused |-> Exists(s, t) /\ pairs[<<s, t>>].paused]
  <2>1. pairs' = With(pairs, <<s, t>>, p) /\ NoLoop(s, t, r) /\ s # t
    BY <1>1 DEF SetPair
  <2>2. p.rate = r /\ r \in Nat /\ Scale \in Nat
    BY ContractsAssumption
  <2> HIDE DEF p
  <2>3. pairs'[<<s, t>>] = p
    BY <2>1 DEF With
  <2>4. \A x \in DOMAIN pairs' :
          x # <<s, t>> => x \in DOMAIN pairs /\ pairs'[x] = pairs[x]
    BY <2>1 DEF With
  <2>5. \A x \in DOMAIN pairs : pairs[x].rate \in Nat
    BY ContractsAssumption DEF TypeOK, PairType
  <2>6. CASE u = s /\ v = t
    <3>1. <<t, s>> \in DOMAIN pairs /\ pairs'[<<t, s>>] = pairs[<<t, s>>]
      BY <2>1, <2>4, <2>6 DEF Exists
    <3>2. r * pairs[<<t, s>>].rate <= Scale * Scale
      BY <2>1, <3>1 DEF NoLoop, Exists
    <3> QED BY <2>2, <2>3, <2>6, <3>1, <3>2
  <2>7. CASE u = t /\ v = s
    <3>1. <<t, s>> \in DOMAIN pairs /\ pairs'[<<t, s>>] = pairs[<<t, s>>]
      BY <2>1, <2>4, <2>7 DEF Exists
    <3>2. r * pairs[<<t, s>>].rate <= Scale * Scale
      BY <2>1, <3>1 DEF NoLoop, Exists
    <3>3. pairs[<<t, s>>].rate \in Nat
      BY <2>5, <3>1
    <3>4. pairs[<<t, s>>].rate * r = r * pairs[<<t, s>>].rate
      BY <2>2, <3>3
    <3> QED BY <2>2, <2>3, <2>7, <3>1, <3>2, <3>4
  <2>8. CASE ~(u = s /\ v = t) /\ ~(u = t /\ v = s)
    BY <2>4, <2>8 DEF Exists, NoPairLoops
  <2> QED BY <2>6, <2>7, <2>8
<1>2. ASSUME NEW s \in Tokens, NEW t \in Tokens, NEW v \in BOOLEAN,
             SetPaused(s, t, v)
      PROVE  NoPairLoops'
  <2> DEFINE p == [pairs[<<s, t>>] EXCEPT !.paused = v]
  <2>1. pairs' = [pairs EXCEPT ![<<s, t>>] = p] /\ <<s, t>> \in DOMAIN pairs
    BY <1>2 DEF SetPaused, Exists
  <2>2. p.rate = pairs[<<s, t>>].rate
    BY <2>1 DEF TypeOK, PairType
  <2> HIDE DEF p
  <2>3. DOMAIN pairs' = DOMAIN pairs
        /\ \A x \in DOMAIN pairs : pairs'[x].rate = pairs[x].rate
    BY <2>1, <2>2
  <2> QED BY <2>3 DEF NoPairLoops, Exists
<1>3. ASSUME pairs' = pairs
      PROVE  NoPairLoops'
  BY <1>3 DEF NoPairLoops, Exists
<1> QED
  BY <1>1, <1>2, <1>3 DEF Next, vars, Mint, Send, SetFrozen, Convert, Create,
     Complete, Refund, Passes, Repoint

(* Whatever the order in which pairs are set, re-rated and paused, the two *)
(* rates of a two-way pair never multiply to more than one.                *)
THEOREM LoopGuard == Spec => []NoPairLoops
<1>1. Init => NoPairLoops
  BY DEF Init, NoPairLoops, Exists
<1>2. TypeOK /\ NoPairLoops /\ [Next]_vars => NoPairLoops'
  BY PairsStep
<1> QED BY <1>1, <1>2, TypeCorrect, PTL DEF Spec

(* There and back again: at such rates, whatever the amount, the two       *)
(* floored conversions return no more than went in.                        *)
THEOREM RoundTripLoses ==
  ASSUME NEW s \in Tokens, NEW t \in Tokens, TypeOK, NoPairLoops,
         Exists(s, t), Exists(t, s), NEW n \in Nat
  PROVE  Quote(t, s, Quote(s, t, n)) <= n
<1> DEFINE r == pairs[<<s, t>>].rate
           q == pairs[<<t, s>>].rate
           m == (n * r) \div Scale
           k == (m * q) \div Scale
<1>1. r \in Nat /\ q \in Nat /\ Scale \in Nat /\ Scale > 0
      /\ r * q <= Scale * Scale
  BY ContractsAssumption DEF TypeOK, PairType, Exists, NoPairLoops
<1>2. Quote(t, s, Quote(s, t, n)) = k
  BY DEF Quote
<1> HIDE DEF r, q
<1>3. m \in Nat /\ m * Scale <= n * r
  BY <1>1
<1> HIDE DEF m
<1>4. k \in Nat /\ k * Scale <= m * q
  BY <1>1, <1>3
<1> HIDE DEF k
<1>5. (m * Scale) * q <= (n * r) * q
  BY <1>1, <1>3
<1>6. (k * Scale) * Scale <= (m * q) * Scale
  BY <1>1, <1>3, <1>4
<1>7. (n * r) * q = n * (r * q) /\ (m * Scale) * q = (m * q) * Scale
  BY <1>1, <1>3
<1>8. n * (r * q) <= n * (Scale * Scale)
  BY <1>1
<1>9. k * (Scale * Scale) <= n * (Scale * Scale)
  BY <1>1, <1>3, <1>4, <1>5, <1>6, <1>7, <1>8
<1>10. k <= n
  BY <1>1, <1>4, <1>9
<1> QED BY <1>2, <1>10

-----------------------------------------------------------------------------
LEMMA FrozenStep ==
  ASSUME TypeOK, [Next]_vars
  PROVE  \A t \in Tokens : \A a \in frozen[t] :
           balance'[t][a] >= balance[t][a]
<1> SUFFICES ASSUME NEW t \in Tokens, NEW a \in frozen[t]
             PROVE  balance'[t][a] >= balance[t][a]
  OBVIOUS
<1> USE ContractsAssumption DEF TypeOK
<1>1. ASSUME NEW u \in Tokens, NEW b \in Accounts, NEW n \in Nat,
             MayPay(u, b, n)
      PROVE  /\ Minus(balance, u, b, n) \in Balances
             /\ Minus(balance, u, b, n)[t][a] = balance[t][a]
  BY <1>1, MinusTakes DEF MayPay
<1>2. balance[t][a] \in Nat
  BY DEF Balances
<1>3. ASSUME NEW u \in Tokens, NEW b \in Accounts, NEW n \in Amounts,
             Mint(u, b, n)
      PROVE  balance'[t][a] >= balance[t][a]
  BY <1>3, PlusAdds DEF Mint
<1>4. ASSUME NEW u \in Tokens, NEW b \in Accounts, NEW c \in Accounts,
             NEW n \in Amounts, Send(u, b, c, n)
      PROVE  balance'[t][a] >= balance[t][a]
  <2>1. n \in Nat /\ MayPay(u, b, n)
    BY <1>4 DEF Send
  <2>2. /\ Minus(balance, u, b, n) \in Balances
        /\ Minus(balance, u, b, n)[t][a] = balance[t][a]
    BY <2>1, <1>1
  <2>3. balance'[t][a] >= Minus(balance, u, b, n)[t][a]
    BY <1>4, <2>1, <2>2, PlusAdds DEF Send
  <2> QED BY <2>2, <2>3
<1>5. ASSUME NEW b \in Accounts, NEW u \in Tokens, NEW v \in Tokens,
             NEW n \in Amounts, Convert(b, u, v, n)
      PROVE  balance'[t][a] >= balance[t][a]
  <2>1. n \in Nat /\ MayPay(u, b, n)
    BY <1>5 DEF Convert
  <2>2. /\ Minus(balance, u, b, n) \in Balances
        /\ Minus(balance, u, b, n)[t][a] = balance[t][a]
    BY <2>1, <1>1
  <2>3. pairs[<<u, v>>].rate \in Nat
    BY <1>5 DEF Convert, Exists, PairType
  <2>4. Quote(u, v, n) \in Nat
    BY <2>1, <2>3, QuoteIsNat
  <2>5. balance'[t][a] >= Minus(balance, u, b, n)[t][a]
    BY <1>5, <2>2, <2>4, PlusAdds DEF Convert
  <2> QED BY <2>2, <2>5
<1>6. ASSUME NEW id, NEW c, NEW u \in Tokens,
             NEW n \in Amounts, NEW d, NEW l, Create(id, c, u, n, d, l)
      PROVE  balance'[t][a] >= balance[t][a]
  <2> DEFINE who == Resolve(reg, <<c, "treasury">>)
  <2>1. who \in Accounts /\ balance' = Minus(balance, u, who, n)
        /\ MayPay(u, who, n) /\ n \in Nat
    BY <1>6 DEF Create
  <2> HIDE DEF who
  <2> QED BY <2>1, <1>1, <1>2
<1>7. ASSUME NEW id, NEW w, NEW l, NEW b,
             Complete(id, w, l, b) \/ Refund(id)
      PROVE  balance'[t][a] >= balance[t][a]
  <2>1. id \in DOMAIN records
    BY <1>7 DEF Complete, Refund, Open
  <2>2. records[id].amount \in Nat
    BY <2>1, RecordTypes
  <2> QED BY <1>7, <2>2, PlusAdds DEF Complete, Refund
<1>8. ASSUME balance' = balance
      PROVE  balance'[t][a] >= balance[t][a]
  BY <1>8, <1>2
<1> QED
  BY <1>3, <1>4, <1>5, <1>6, <1>7, <1>8
     DEF Next, vars, SetFrozen, SetPair, SetPaused, Passes, Repoint

(* The freeze holds against every way out of an account, for any number of *)
(* tokens, accounts and escrows.                                           *)
THEOREM FreezeHolds == Spec => FrozenPaysNothing
<1>1. TypeOK /\ [Next]_vars =>
        [\A t \in Tokens : \A a \in frozen[t] :
           balance'[t][a] >= balance[t][a]]_vars
  BY FrozenStep
<1> QED BY <1>1, TypeCorrect, PTL DEF Spec, FrozenPaysNothing

-----------------------------------------------------------------------------
(* Counting units *)

(* The units of a function are those of one argument and those of the      *)
(* others.                                                                 *)
LEMMA UnitsFinite ==
  ASSUME NEW S, IsFiniteSet(S), NEW f \in [S -> Nat]
  PROVE  IsFiniteSet(Units(f))
<1> DEFINE parts == {{x} \X (1 .. f[x]) : x \in S}
           m == [x \in S |-> {x} \X (1 .. f[x])]
<1>1. IsFiniteSet(parts)
  <2>1. m \in Surjection(S, parts)
    BY DEF Surjection
  <2> HIDE DEF m, parts
  <2> QED
    BY <2>1, FS_Surjection
<1>2. ASSUME NEW p \in parts PROVE IsFiniteSet(p)
  <2>1. PICK x \in S : p = {x} \X (1 .. f[x])
    OBVIOUS
  <2>2. IsFiniteSet({x})
    BY FS_Singleton
  <2>3. f[x] \in Int
    OBVIOUS
  <2>4. IsFiniteSet(1 .. f[x])
    BY <2>3, FS_Interval
  <2> QED
    BY <2>1, <2>2, <2>4, FS_Product
<1> HIDE DEF parts
<1>3. IsFiniteSet(UNION parts)
  BY <1>1, <1>2, FS_UNION
<1>4. DOMAIN f = S
  OBVIOUS
<1> QED
  BY <1>3, <1>4 DEF Units, parts

LEMMA CountIsNat ==
  ASSUME NEW S, IsFiniteSet(S), NEW f \in [S -> Nat]
  PROVE  Count(f) \in Nat
BY UnitsFinite, FS_CardinalityType DEF Count

(* A function with one more argument counts up to one value more.          *)
LEMMA CountGains ==
  ASSUME NEW S, IsFiniteSet(S), NEW x, x \notin S,
         NEW f \in [S -> Nat], NEW g \in [S \cup {x} -> Nat],
         \A y \in S : g[y] = f[y]
  PROVE  /\ Count(g) = Count(f) + g[x]
         /\ Count(f) \in Nat
<1> DEFINE A == {x} \X (1 .. g[x])
           B == Units(f)
<1>1. Units(g) = A \cup B
  BY DEF Units
<1>2. A \cap B = {}
  BY DEF Units
<1>3. IsFiniteSet(A) /\ Cardinality(A) = g[x]
  <2>1. IsFiniteSet({x}) /\ Cardinality({x}) = 1
    BY FS_Singleton
  <2>2. g[x] \in Nat /\ g[x] \in Int /\ 1 \in Int
    OBVIOUS
  <2>3. IsFiniteSet(1 .. g[x]) /\ Cardinality(1 .. g[x]) = g[x]
    BY <2>2, FS_Interval
  <2>4. IsFiniteSet(A) /\ Cardinality(A) = Cardinality({x}) * Cardinality(1 .. g[x])
    BY <2>1, <2>3, FS_Product
  <2> HIDE DEF A
  <2>5. 1 * g[x] = g[x]
    BY <2>2
  <2> QED
    BY <2>1, <2>3, <2>4, <2>5
<1>4. IsFiniteSet(B) /\ Cardinality(B) \in Nat
  BY UnitsFinite, FS_CardinalityType
<1>5. g[x] \in Nat
  OBVIOUS
<1> HIDE DEF A, B
<1>6. Cardinality(A \cup B) = Cardinality(A) + Cardinality(B) - Cardinality(A \cap B)
  BY <1>3, <1>4, FS_Union
<1>7. Cardinality(A \cap B) = 0
  BY <1>2, FS_EmptySet
<1>8. Cardinality(Units(g)) = g[x] + Cardinality(B)
  BY <1>1, <1>3, <1>4, <1>5, <1>6, <1>7
<1> QED
  BY <1>4, <1>5, <1>8 DEF B, Count

(* When one value changes, the count changes with it.                      *)
LEMMA CountMoves ==
  ASSUME NEW S, IsFiniteSet(S), NEW x \in S,
         NEW f \in [S -> Nat], NEW g \in [S -> Nat],
         \A y \in S : y # x => g[y] = f[y]
  PROVE  /\ Count(f) \in Nat /\ Count(g) \in Nat
         /\ Count(g) + f[x] = Count(f) + g[x]
<1> DEFINE R == S \ {x}
           h == [y \in R |-> f[y]]
<1>1. IsFiniteSet(R) /\ x \notin R /\ R \cup {x} = S
  BY FS_RemoveElement
<1>2. h \in [R -> Nat] /\ (\A y \in R : f[y] = h[y]) /\ \A y \in R : g[y] = h[y]
  OBVIOUS
<1>3. f \in [R \cup {x} -> Nat] /\ g \in [R \cup {x} -> Nat]
      /\ f[x] \in Nat /\ g[x] \in Nat
  BY <1>1
<1> HIDE DEF R, h
<1>4. Count(f) = Count(h) + f[x] /\ Count(h) \in Nat
  BY <1>1, <1>2, <1>3, CountGains
<1>5. Count(g) = Count(h) + g[x]
  BY <1>1, <1>2, <1>3, CountGains
<1> QED
  BY <1>3, <1>4, <1>5

-----------------------------------------------------------------------------
(* What there is of a token *)

LEMMA PlusCounts ==
  ASSUME NEW b \in Balances, NEW t \in Tokens, NEW a \in Accounts, NEW n \in Nat
  PROVE  \A u \in Tokens :
           /\ Count(b[u]) \in Nat
           /\ Count(Plus(b, t, a, n)[u]) =
                Count(b[u]) + (IF u = t THEN n ELSE 0)
<1>1. IsFiniteSet(Accounts)
  BY ContractsAssumption
<1>2. \A u \in Tokens : b[u] \in [Accounts -> Nat]
  BY DEF Balances
<1> DEFINE f == b[t]
           g == Plus(b, t, a, n)[t]
<1>3. /\ f \in [Accounts -> Nat] /\ g \in [Accounts -> Nat]
      /\ g[a] = f[a] + n
      /\ \A c \in Accounts : c # a => g[c] = f[c]
  BY DEF Plus, Balances
<1>4. \A u \in Tokens : u # t => Plus(b, t, a, n)[u] = b[u]
  BY DEF Plus, Balances
<1> HIDE DEF f, g
<1>5. Count(f) \in Nat /\ Count(g) \in Nat
      /\ Count(g) + f[a] = Count(f) + g[a]
  BY <1>1, <1>3, CountMoves
<1>6. Count(g) = Count(f) + n
  BY <1>3, <1>5
<1>7. \A u \in Tokens : Count(b[u]) \in Nat
  BY <1>1, <1>2, CountIsNat
<1> QED
  BY <1>4, <1>5, <1>6, <1>7 DEF f, g

LEMMA MinusCounts ==
  ASSUME NEW b \in Balances, NEW t \in Tokens, NEW a \in Accounts, NEW n \in Nat,
         b[t][a] >= n
  PROVE  \A u \in Tokens :
           /\ Count(b[u]) \in Nat
           /\ Count(Minus(b, t, a, n)[u]) =
                Count(b[u]) - (IF u = t THEN n ELSE 0)
<1> DEFINE m == Minus(b, t, a, n)
<1>1. m \in Balances
  BY MinusTakes
<1>2. Plus(m, t, a, n) = b
  <2>1. \A u \in Tokens, c \in Accounts : Plus(m, t, a, n)[u][c] = b[u][c]
    BY DEF Plus, Minus, Balances
  <2>2. Plus(m, t, a, n) \in Balances
    BY <1>1, PlusAdds
  <2> HIDE DEF m
  <2> DEFINE p == Plus(m, t, a, n)
  <2>3. p \in Balances /\ \A u \in Tokens, c \in Accounts : p[u][c] = b[u][c]
    BY <2>1, <2>2
  <2> HIDE DEF p
  <2>4. \A u \in Tokens : p[u] = b[u]
    BY <2>3 DEF Balances
  <2>5. p = b
    BY <2>3, <2>4 DEF Balances
  <2> QED
    BY <2>5 DEF p
<1> HIDE DEF m
<1>3. \A u \in Tokens :
        /\ Count(m[u]) \in Nat
        /\ Count(b[u]) = Count(m[u]) + (IF u = t THEN n ELSE 0)
  BY <1>1, <1>2, PlusCounts
<1> QED
  BY <1>3 DEF m

(* What the open escrows of a table owe.                                   *)
OwingIn(R, t) == {id \in DOMAIN R : R[id].token = t /\ R[id].state = "OPEN"}
OwedIn(R, t) == Count([id \in OwingIn(R, t) |-> R[id].amount])

(* One open escrow more: as many units more of its token.                  *)
LEMMA OwedGains ==
  ASSUME NEW R, IsFiniteSet(DOMAIN R), R \in [DOMAIN R -> RecordType],
         NEW Q, Q \in [DOMAIN Q -> RecordType],
         NEW id \in DOMAIN Q, Q[id].state = "OPEN",
         DOMAIN Q = DOMAIN R \cup {id},
         id \in DOMAIN R => R[id].state # "OPEN",
         \A x \in DOMAIN R : x # id => Q[x] = R[x]
  PROVE  \A u \in Tokens :
           /\ OwedIn(R, u) \in Nat
           /\ OwedIn(Q, u) = OwedIn(R, u)
                + (IF u = Q[id].token THEN Q[id].amount ELSE 0)
<1> TAKE u \in Tokens
<1> DEFINE S == OwingIn(R, u)
           T == OwingIn(Q, u)
           f == [x \in S |-> R[x].amount]
           g == [x \in T |-> Q[x].amount]
<1>1. IsFiniteSet(S)
  <2>1. S \subseteq DOMAIN R
    BY DEF OwingIn
  <2> QED
    BY <2>1, FS_Subset
<1>2. \A x \in S : x # id /\ x \in T /\ Q[x] = R[x]
  BY DEF OwingIn
<1>3. f \in [S -> Nat] /\ g \in [T -> Nat]
  BY DEF OwingIn, RecordType
<1>4. OwedIn(R, u) = Count(f) /\ OwedIn(Q, u) = Count(g)
  BY DEF OwedIn
<1>5. Count(f) \in Nat
  <2> HIDE DEF f, S
  <2> QED
    BY <1>1, <1>3, CountIsNat
<1>6. CASE u = Q[id].token
  <2>1. T = S \cup {id} /\ id \notin S
    BY <1>2, <1>6 DEF OwingIn
  <2>2. (\A x \in S : g[x] = f[x]) /\ g[id] = Q[id].amount
    BY <1>2, <2>1
  <2>3. /\ id \notin S /\ IsFiniteSet(S)
        /\ f \in [S -> Nat] /\ g \in [S \cup {id} -> Nat]
    BY <1>1, <1>3, <2>1
  <2> HIDE DEF S, T, f, g
  <2>4. Count(g) = Count(f) + g[id]
    <3>1. \A x \in S : g[x] = f[x]
      BY <2>2
    <3> QED
      BY <2>3, <3>1, CountGains, Z3
  <2> QED
    BY <1>4, <1>5, <1>6, <2>2, <2>4
<1>7. CASE u # Q[id].token
  <2>1. T = S
    BY <1>2, <1>7 DEF OwingIn
  <2>2. g = f
    BY <1>2, <2>1
  <2> HIDE DEF S, T, f, g
  <2> QED
    BY <1>4, <1>5, <1>7, <2>2
<1> QED
  BY <1>6, <1>7

-----------------------------------------------------------------------------
(* Only finitely many escrows were ever created.                           *)
FiniteEscrows == IsFiniteSet(DOMAIN records)

LEMMA FiniteStep ==
  ASSUME TypeOK, FiniteEscrows, [Next]_vars
  PROVE  FiniteEscrows'
<1>1. ASSUME NEW id, NEW c, NEW t, NEW n, NEW d, NEW l, Create(id, c, t, n, d, l)
      PROVE  FiniteEscrows'
  <2>1. DOMAIN records' = DOMAIN records \cup {id}
    BY <1>1 DEF Create, With
  <2> QED
    BY <2>1, FS_AddElement DEF FiniteEscrows
<1>2. ASSUME NEW id, NEW w, NEW l, NEW a, Complete(id, w, l, a) \/ Refund(id)
      PROVE  FiniteEscrows'
  <2>1. DOMAIN records' = DOMAIN records
    BY <1>2 DEF Complete, Refund, Settled, TypeOK
  <2> QED
    BY <2>1 DEF FiniteEscrows
<1>3. ASSUME records' = records
      PROVE  FiniteEscrows'
  BY <1>3 DEF FiniteEscrows
<1> QED
  BY <1>1, <1>2, <1>3 DEF Next, vars, Mint, Send, SetFrozen, SetPair, SetPaused,
     Convert, Passes, Repoint

(* All there is of a token, for any two tables.                            *)
TotalIn(b, R, t) == Count(b[t]) + OwedIn(R, t)

LEMMA TotalIs ==
  \A t \in Tokens : /\ Total(t) = TotalIn(balance, records, t)
                    /\ Total(t)' = TotalIn(balance', records', t)
BY DEF Total, TotalIn, Held, Owed, OwedFor, OwedIn, OwingIn

LEMMA TotalIsNat ==
  ASSUME TypeOK, FiniteEscrows
  PROVE  \A t \in Tokens :
           /\ Count(balance[t]) \in Nat
           /\ OwedIn(records, t) \in Nat
           /\ Total(t) \in Nat
<1> TAKE t \in Tokens
<1>1. Count(balance[t]) \in Nat
  BY ContractsAssumption, CountIsNat DEF TypeOK, Balances
<1> DEFINE f == [id \in OwingIn(records, t) |-> records[id].amount]
<1>2. OwingIn(records, t) \subseteq DOMAIN records
  BY DEF OwingIn
<1>3. IsFiniteSet(OwingIn(records, t))
  BY <1>2, FS_Subset DEF FiniteEscrows
<1>4. f \in [OwingIn(records, t) -> Nat]
  BY <1>2 DEF TypeOK, RecordType
<1> HIDE DEF f
<1>5. Count(f) \in Nat
  BY <1>3, <1>4, CountIsNat
<1>6. OwedIn(records, t) \in Nat
  BY <1>5 DEF f, OwedIn
<1> QED
  BY <1>1, <1>6, TotalIs DEF TotalIn

(* What a payment out of an account and one into an account do.            *)
LEMMA PaymentMoves ==
  ASSUME TypeOK, NEW s \in Tokens, NEW t \in Tokens, NEW a \in Accounts,
         NEW c \in Accounts, NEW n \in Nat, NEW m \in Nat,
         balance[s][a] >= n,
         balance' = Plus(Minus(balance, s, a, n), t, c, m)
  PROVE  \A u \in Tokens :
           Count(balance'[u]) = Count(balance[u])
             - (IF u = s THEN n ELSE 0) + (IF u = t THEN m ELSE 0)
<1> DEFINE b == Minus(balance, s, a, n)
<1>1. b \in Balances
  BY MinusTakes DEF TypeOK
<1>2. \A u \in Tokens :
        /\ Count(balance[u]) \in Nat
        /\ Count(b[u]) = Count(balance[u]) - (IF u = s THEN n ELSE 0)
  BY MinusCounts DEF TypeOK
<1> HIDE DEF b
<1>3. \A u \in Tokens :
        /\ Count(b[u]) \in Nat
        /\ Count(Plus(b, t, c, m)[u])
             = Count(b[u]) + (IF u = t THEN m ELSE 0)
  BY <1>1, PlusCounts
<1> QED
  BY <1>2, <1>3 DEF b

(* A settled escrow pays out what it owed; where the name now points       *)
(* nowhere in the table of accounts, less.                                 *)
LEMMA SettlingPaysOnce ==
  ASSUME TypeOK, FiniteEscrows, NEW id, Open(id),
         NEW st \in {"COMPLETED", "REFUNDED"}, NEW to,
         records' = Settled(id, st),
         balance' = Plus(balance, records[id].token, to, records[id].amount)
  PROVE  \A u \in Tokens : Total(u)' \in Nat /\ Total(u)' <= Total(u)
<1>1. id \in DOMAIN records /\ records[id].state = "OPEN"
  BY DEF Open
<1>2. /\ records[id].amount \in Nat /\ records[id].token \in Tokens
      /\ records[id] \in RecordType
  BY <1>1 DEF TypeOK, RecordType
<1>3. /\ records' \in [DOMAIN records' -> RecordType]
      /\ DOMAIN records' = DOMAIN records
  BY <1>1, RecordTypes DEF TypeOK
<1>4. /\ records'[id].state # "OPEN"
      /\ \A x \in DOMAIN records : x # id => records'[x] = records[x]
  BY <1>1, <1>2 DEF Settled, RecordType
<1>5. IsFiniteSet(DOMAIN records')
  BY <1>3 DEF FiniteEscrows
<1> DEFINE n == records[id].amount
           t == records[id].token
<1>6. \A u \in Tokens :
        /\ OwedIn(records', u) \in Nat
        /\ OwedIn(records, u) = OwedIn(records', u) + (IF u = t THEN n ELSE 0)
  <2> DEFINE R == records'
             Q == records
  <2>1. /\ IsFiniteSet(DOMAIN R) /\ R \in [DOMAIN R -> RecordType]
        /\ Q \in [DOMAIN Q -> RecordType]
        /\ id \in DOMAIN Q /\ Q[id].state = "OPEN"
        /\ DOMAIN Q = DOMAIN R \cup {id}
        /\ R[id].state # "OPEN"
        /\ \A x \in DOMAIN R : x # id => Q[x] = R[x]
    BY <1>1, <1>3, <1>4, <1>5 DEF TypeOK
  <2> HIDE DEF R
  <2>2. \A u \in Tokens :
          /\ OwedIn(R, u) \in Nat
          /\ OwedIn(Q, u) = OwedIn(R, u)
               + (IF u = Q[id].token THEN Q[id].amount ELSE 0)
    BY <2>1, OwedGains
  <2> QED
    BY <2>2 DEF R
<1>7. \A u \in Tokens :
        /\ Count(balance'[u]) \in Nat
        /\ Count(balance'[u]) <= Count(balance[u]) + (IF u = t THEN n ELSE 0)
  <2>1. \A u \in Tokens : Count(balance[u]) \in Nat
    BY TotalIsNat
  <2>2. CASE to \in Accounts
    <3>1. \A u \in Tokens : Count(balance'[u]) =
            Count(balance[u]) + (IF u = t THEN n ELSE 0)
      BY <1>2, <2>2, PlusCounts DEF TypeOK
    <3> HIDE DEF n, t
    <3>2. n \in Nat
      BY <1>2 DEF n
    <3> QED
      BY <2>1, <3>1, <3>2
  <2>3. CASE to \notin Accounts
    <3>1. balance' = balance
      BY <2>3, PlusNowhere DEF TypeOK
    <3>2. n \in Nat
      BY <1>2
    <3> QED
      BY <2>1, <3>1, <3>2
  <2> QED
    BY <2>2, <2>3
<1> HIDE DEF n, t
<1>8. n \in Nat
  BY <1>2 DEF n
<1>9. \A u \in Tokens :
        /\ Count(balance[u]) \in Nat
        /\ Total(u) = Count(balance[u]) + OwedIn(records, u)
        /\ Total(u)' = Count(balance'[u]) + OwedIn(records', u)
  BY TotalIsNat, TotalIs DEF TotalIn
<1> QED
  BY <1>6, <1>7, <1>8, <1>9

LEMMA EscrowHolds ==
  ASSUME TypeOK, FiniteEscrows, NEW id \in Ids, NEW c \in Alias, NEW t \in Tokens,
         NEW n \in Amounts, NEW d \in Modes, NEW l \in Deadlines,
         Create(id, c, t, n, d, l)
  PROVE  \A u \in Tokens : Total(u)' = Total(u)
<1> DEFINE who == Resolve(reg, <<c, "treasury">>)
           r   == [alias |-> c, creator |-> who, token |-> t, amount |-> n,
                   data |-> d, deadline |-> l, state |-> "OPEN"]
<1>1. /\ who \in Accounts /\ balance' = Minus(balance, t, who, n)
      /\ MayPay(t, who, n) /\ records' = With(records, id, r)
      /\ id \notin DOMAIN records /\ n \in Nat
  BY ContractsAssumption DEF Create
<1> HIDE DEF who
<1>2. r \in RecordType /\ r.state = "OPEN" /\ r.token = t /\ r.amount = n
  BY <1>1, ContractsAssumption DEF RecordType
<1> HIDE DEF r
<1>3. /\ records' \in [DOMAIN records' -> RecordType]
      /\ DOMAIN records' = DOMAIN records \cup {id}
      /\ records'[id] = r
      /\ \A x \in DOMAIN records : records'[x] = records[x]
  BY <1>1, <1>2 DEF With, TypeOK
<1>4. \A u \in Tokens :
        /\ OwedIn(records, u) \in Nat
        /\ OwedIn(records', u) = OwedIn(records, u) + (IF u = t THEN n ELSE 0)
  <2> DEFINE Q == records'
  <2>1. /\ Q \in [DOMAIN Q -> RecordType] /\ DOMAIN Q = DOMAIN records \cup {id}
        /\ Q[id] = r /\ \A x \in DOMAIN records : Q[x] = records[x]
    BY <1>3
  <2> HIDE DEF Q
  <2>2. \A u \in Tokens :
          /\ OwedIn(records, u) \in Nat
          /\ OwedIn(Q, u) = OwedIn(records, u)
               + (IF u = Q[id].token THEN Q[id].amount ELSE 0)
    BY <1>1, <1>2, <2>1, OwedGains DEF TypeOK, FiniteEscrows
  <2> QED
    BY <1>2, <2>1, <2>2 DEF Q
<1>5. \A u \in Tokens :
        /\ Count(balance[u]) \in Nat
        /\ Count(balance'[u]) = Count(balance[u]) - (IF u = t THEN n ELSE 0)
  BY <1>1, MinusCounts DEF MayPay, TypeOK
<1> QED
  BY <1>1, <1>4, <1>5, TotalIs DEF TotalIn

-----------------------------------------------------------------------------
(* A conversion burns and mints                                            *)
LEMMA ConversionMoves ==
  ASSUME TypeOK, FiniteEscrows, NEW a \in Accounts, NEW s \in Tokens,
         NEW t \in Tokens, NEW n \in Amounts, Convert(a, s, t, n)
  PROVE  /\ n \in Nat /\ Quote(s, t, n) \in Nat
         /\ \A u \in Tokens :
              Total(u)' = Total(u) - (IF u = s THEN n ELSE 0)
                            + (IF u = t THEN Quote(s, t, n) ELSE 0)
<1> DEFINE q == Quote(s, t, n)
<1>1. n \in Nat
  BY ContractsAssumption
<1>2. pairs[<<s, t>>].rate \in Nat
  BY ContractsAssumption DEF Convert, Exists, TypeOK, PairType
<1>3. q \in Nat
  BY <1>1, <1>2, ContractsAssumption DEF Quote
<1>4. /\ balance[s][a] >= n /\ records' = records
      /\ balance' = Plus(Minus(balance, s, a, n), t, a, q)
  BY DEF Convert, MayPay
<1> HIDE DEF q
<1>5. \A u \in Tokens :
        Count(balance'[u]) = Count(balance[u])
          - (IF u = s THEN n ELSE 0) + (IF u = t THEN q ELSE 0)
  BY <1>1, <1>3, <1>4, PaymentMoves
<1>6. \A u \in Tokens :
        Count(balance[u]) \in Nat /\ OwedIn(records, u) \in Nat
  BY TotalIsNat
<1>7. \A u \in Tokens :
        Total(u)' = Total(u) - (IF u = s THEN n ELSE 0) + (IF u = t THEN q ELSE 0)
  BY <1>1, <1>3, <1>4, <1>5, <1>6, TotalIs DEF TotalIn
<1> QED
  BY <1>1, <1>3, <1>7 DEF q

(* Only a mint and a conversion make more of a token.                      *)
LEMMA OnlyTwoMakeMore ==
  ASSUME TypeOK, FiniteEscrows, [Next]_vars
  PROVE  \/ \A u \in Tokens : Total(u)' \in Nat /\ Total(u)' <= Total(u)
         \/ \E u \in Tokens, a \in Accounts, n \in Amounts : Mint(u, a, n)
         \/ \E a \in Accounts, s, t \in Tokens, n \in Amounts : Convert(a, s, t, n)
<1>1. ASSUME NEW t \in Tokens, NEW a \in Accounts, NEW b \in Accounts,
             NEW n \in Amounts, Send(t, a, b, n)
      PROVE  \A u \in Tokens : Total(u)' = Total(u)
  <2>1. /\ n \in Nat /\ balance[t][a] >= n /\ records' = records
        /\ balance' = Plus(Minus(balance, t, a, n), t, b, n)
    BY <1>1, ContractsAssumption DEF Send, MayPay
  <2>2. \A u \in Tokens :
          Count(balance'[u]) = Count(balance[u])
            - (IF u = t THEN n ELSE 0) + (IF u = t THEN n ELSE 0)
    BY <2>1, PaymentMoves
  <2>3. \A u \in Tokens : Count(balance[u]) \in Nat
    BY TotalIsNat
  <2> QED
    BY <2>1, <2>2, <2>3, TotalIs DEF TotalIn
<1>2. ASSUME balance' = balance, records' = records
      PROVE  \A u \in Tokens : Total(u)' = Total(u)
  BY <1>2, TotalIs
<1>3. \A u \in Tokens : Total(u) \in Nat
  BY TotalIsNat
<1>4. ASSUME NEW id \in Ids, NEW w \in Alias, NEW l, NEW a, Complete(id, w, l, a)
      PROVE  \A u \in Tokens : Total(u)' \in Nat /\ Total(u)' <= Total(u)
  <2>1. PICK to : to = Resolve(reg, <<w, l>>)
    OBVIOUS
  <2>2. /\ Open(id) /\ records' = Settled(id, "COMPLETED")
        /\ balance' = Plus(balance, records[id].token, to, records[id].amount)
    BY <1>4, <2>1 DEF Complete
  <2> QED
    BY <2>2, SettlingPaysOnce
<1>5. ASSUME NEW id \in Ids, Refund(id)
      PROVE  \A u \in Tokens : Total(u)' \in Nat /\ Total(u)' <= Total(u)
  BY <1>5, SettlingPaysOnce DEF Refund
<1>6. ASSUME NEW id \in Ids, NEW c \in Alias, NEW t \in Tokens,
             NEW n \in Amounts, NEW d \in Modes, NEW l \in Deadlines,
             Create(id, c, t, n, d, l)
      PROVE  \A u \in Tokens : Total(u)' = Total(u)
  BY <1>6, EscrowHolds
<1>7. CASE balance' = balance /\ records' = records
  BY <1>2, <1>3, <1>7
<1>8. CASE \E t \in Tokens, a, b \in Accounts, n \in Amounts : Send(t, a, b, n)
  BY <1>1, <1>3, <1>8
<1>9. CASE \E id \in Ids, c \in Alias, t \in Tokens, n \in Amounts,
              d \in Modes, l \in Deadlines : Create(id, c, t, n, d, l)
  BY <1>6, <1>3, <1>9
<1> QED
  BY <1>4, <1>5, <1>7, <1>8, <1>9 DEF Next, vars, SetFrozen, SetPair, SetPaused,
     Passes, Repoint

(* A mint makes as much as it says.                                        *)
LEMMA MintMakes ==
  ASSUME TypeOK, FiniteEscrows, NEW t \in Tokens, NEW a \in Accounts,
         NEW n \in Amounts, Mint(t, a, n)
  PROVE  \A u \in Tokens : minted'[u] \in Nat /\ Total(u) \in Nat
                           /\ Total(u)' = Total(u) + minted'[u]
<1>1. /\ n \in Nat /\ records' = records /\ balance' = Plus(balance, t, a, n)
      /\ \A u \in Tokens : minted'[u] = IF u = t THEN n ELSE 0
  BY ContractsAssumption DEF Mint, NoMint
<1>2. \A u \in Tokens :
        Count(balance'[u]) = Count(balance[u]) + (IF u = t THEN n ELSE 0)
  BY <1>1, PlusCounts DEF TypeOK
<1>3. \A u \in Tokens : /\ Count(balance[u]) \in Nat
                         /\ OwedIn(records, u) \in Nat /\ Total(u) \in Nat
  BY TotalIsNat
<1> QED
  BY <1>1, <1>2, <1>3, TotalIs DEF TotalIn

(* A pair has two tokens.                                                  *)
NoPairOfOne == \A t \in Tokens : ~Exists(t, t)

LEMMA PairOfTwoStep ==
  ASSUME TypeOK, NoPairOfOne, [Next]_vars
  PROVE  NoPairOfOne'
<1>1. ASSUME NEW s, NEW t, NEW r, SetPair(s, t, r)
      PROVE  NoPairOfOne'
  BY <1>1 DEF SetPair, With, NoPairOfOne, Exists
<1>2. ASSUME NEW s, NEW t, NEW v, SetPaused(s, t, v)
      PROVE  NoPairOfOne'
  <2>1. DOMAIN pairs' = DOMAIN pairs
    BY <1>2 DEF SetPaused, TypeOK
  <2> QED
    BY <2>1 DEF NoPairOfOne, Exists
<1>3. ASSUME pairs' = pairs
      PROVE  NoPairOfOne'
  BY <1>3 DEF NoPairOfOne, Exists
<1> QED
  BY <1>1, <1>2, <1>3 DEF Next, vars, Mint, Send, SetFrozen, Convert, Create,
     Complete, Refund, Passes, Repoint

-----------------------------------------------------------------------------
(* The arithmetic of a conversion: what it burns, valued at the rates of a *)
(* pair, is worth what it mints or more, whichever way it goes.            *)
LEMMA FlooredQuote ==
  ASSUME NEW n \in Nat, NEW r \in Nat
  PROVE  (n * r) \div Scale \in Nat /\ ((n * r) \div Scale) * Scale <= n * r
<1>1. Scale \in Nat /\ Scale > 0
  BY ContractsAssumption
<1>2. n * r \in Nat
  OBVIOUS
<1> DEFINE m == n * r
<1> HIDE DEF m
<1>3. m \in Nat => (m \div Scale) \in Nat /\ (m \div Scale) * Scale <= m
  BY <1>1
<1> QED
  BY <1>2, <1>3 DEF m

LEMMA BackIsNoMore ==
  ASSUME NEW n \in Nat, NEW q \in Nat, NEW p \in Nat, NEW r \in Nat,
         q * Scale <= n * p, p * r <= Scale * Scale
  PROVE  q * r <= n * Scale
<1>1. Scale \in Nat /\ Scale > 0
  BY ContractsAssumption
<1>2. (q * Scale) * r <= (n * p) * r
  BY <1>1
<1>3. (n * p) * r = n * (p * r) /\ (q * Scale) * r = (q * r) * Scale
  BY <1>1
<1>4. n * (p * r) <= n * (Scale * Scale)
  BY <1>1
<1>5. n * (Scale * Scale) = (n * Scale) * Scale
  BY <1>1
<1>6. (q * r) * Scale <= (n * Scale) * Scale
  BY <1>1, <1>2, <1>3, <1>4, <1>5
<1> DEFINE x == q * r
           y == n * Scale
<1>7. x \in Nat /\ y \in Nat /\ x * Scale <= y * Scale
  BY <1>1, <1>6
<1> HIDE DEF x, y
<1>8. x <= y
  BY <1>1, <1>7
<1> QED
  BY <1>8 DEF x, y

LEMMA LessIsWorthLess ==
  ASSUME NEW x \in Nat, NEW y \in Nat, NEW v \in Nat, NEW w \in Nat,
         NEW r \in Nat, v <= x, w <= y
  PROVE  v * r + w * Scale <= x * r + y * Scale
<1>1. Scale \in Nat
  BY ContractsAssumption
<1>2. v * r <= x * r /\ w * Scale <= y * Scale
  BY <1>1
<1>3. v * r \in Nat /\ x * r \in Nat /\ w * Scale \in Nat /\ y * Scale \in Nat
  BY <1>1
<1> QED
  BY <1>2, <1>3

(* A conversion makes no pair's worth grow, unless it brings a third token.*)
LEMMA ConversionMakesNoValue ==
  ASSUME TypeOK, NoPairLoops, NoPairOfOne, FiniteEscrows,
         NEW s \in Tokens, NEW t \in Tokens, Exists(s, t), Exists(t, s),
         NEW a \in Accounts, NEW u \in Tokens, NEW v \in Tokens, NEW n \in Amounts,
         Convert(a, u, v, n), u \in {s, t} \/ v \notin {s, t}
  PROVE  Worth(s, t)' <= Worth(s, t)
<1> DEFINE r == pairs[<<s, t>>].rate
           p == pairs[<<t, s>>].rate
           q == Quote(u, v, n)
           x == Total(s)
           y == Total(t)
<1>1. s # t /\ u # v /\ Exists(u, v)
  BY DEF NoPairOfOne, Convert
<1>2. r \in Nat /\ p \in Nat /\ Scale \in Nat
  BY ContractsAssumption DEF Exists, TypeOK, PairType
<1>3. p * r <= Scale * Scale
  BY DEF NoPairLoops
<1>4. pairs' = pairs
  BY DEF Convert
<1>5. n \in Nat /\ q \in Nat
      /\ x' = x - (IF s = u THEN n ELSE 0) + (IF s = v THEN q ELSE 0)
      /\ y' = y - (IF t = u THEN n ELSE 0) + (IF t = v THEN q ELSE 0)
  BY ConversionMoves
<1>6. x \in Nat /\ y \in Nat /\ x' \in Nat /\ y' \in Nat
  <2>1. [Next]_vars
    BY DEF Next
  <2>2. TypeOK' /\ FiniteEscrows'
    BY <2>1, TypeStep, FiniteStep
  <2>3. x \in Nat /\ y \in Nat
    BY TotalIsNat
  <2>4. balance' = Plus(Minus(balance, u, a, n), v, a, q) /\ records' = records
    BY DEF Convert
  <2>5. \A z \in Tokens : TotalIn(balance', records', z) \in Nat
    <3>1. balance' \in Balances
      BY <2>2 DEF TypeOK
    <3>2. \A z \in Tokens : Count(balance'[z]) \in Nat
      <4>1. \A z \in Tokens : balance'[z] \in [Accounts -> Nat]
        BY <3>1 DEF Balances
      <4> QED
        BY <4>1, ContractsAssumption, CountIsNat
    <3>3. \A z \in Tokens : OwedIn(records', z) \in Nat
      BY <2>4, TotalIsNat
    <3> QED
      BY <3>2, <3>3 DEF TotalIn
  <2> QED
    BY <2>3, <2>5, TotalIs
<1>7. q * Scale <= n * pairs[<<u, v>>].rate
  <2>1. pairs[<<u, v>>].rate \in Nat
    BY <1>1, ContractsAssumption DEF Exists, TypeOK, PairType
  <2> QED
    BY <1>5, <2>1, FlooredQuote DEF Quote
<1>8. Worth(s, t) = x * r + y * Scale /\ Worth(s, t)' = x' * r + y' * Scale
  BY <1>4 DEF Worth
<1>9. PICK c, d : c = x' /\ d = y'
  OBVIOUS
<1> HIDE DEF r, p, q, x, y
<1>10. CASE u = s /\ v = t
  <2>1. c = x - n /\ d = y + q /\ q * Scale <= n * r
    BY <1>1, <1>5, <1>6, <1>7, <1>9, <1>10 DEF r
  <2>2. x = c + n /\ x * r = c * r + n * r
    BY <1>2, <1>5, <1>6, <1>9, <2>1
  <2>3. d * Scale = y * Scale + q * Scale
    BY <1>2, <1>5, <1>6, <1>9, <2>1
  <2>4. /\ c * r \in Nat /\ n * r \in Nat /\ x * r \in Nat
        /\ d * Scale \in Nat /\ y * Scale \in Nat /\ q * Scale \in Nat
    BY <1>2, <1>5, <1>6, <1>9
  <2>5. c * r + d * Scale <= x * r + y * Scale
    BY <2>1, <2>2, <2>3, <2>4
  <2> QED
    BY <1>8, <1>9, <2>5
<1>11. CASE u = t /\ v = s
  <2>1. c = x + q /\ d = y - n /\ q * Scale <= n * p
    BY <1>1, <1>5, <1>6, <1>7, <1>9, <1>11 DEF p
  <2>2. q * r <= n * Scale
    BY <1>2, <1>3, <1>5, <2>1, BackIsNoMore
  <2>3. c * r = x * r + q * r
    BY <1>2, <1>5, <1>6, <1>9, <2>1
  <2>4. y = d + n /\ y * Scale = d * Scale + n * Scale
    BY <1>2, <1>5, <1>6, <1>9, <2>1
  <2>5. /\ c * r \in Nat /\ x * r \in Nat /\ q * r \in Nat
        /\ d * Scale \in Nat /\ y * Scale \in Nat /\ n * Scale \in Nat
    BY <1>2, <1>5, <1>6, <1>9
  <2>6. c * r + d * Scale <= x * r + y * Scale
    BY <2>2, <2>3, <2>4, <2>5
  <2> QED
    BY <1>8, <1>9, <2>6
<1>12. CASE v \notin {s, t}
  <2>1. c <= x /\ d <= y
    BY <1>5, <1>6, <1>9, <1>12
  <2>2. c * r + d * Scale <= x * r + y * Scale
    BY <1>2, <1>6, <1>9, <2>1, LessIsWorthLess
  <2> QED
    BY <1>8, <1>9, <2>2
<1> QED
  BY <1>1, <1>10, <1>11, <1>12

LEMMA ValueStep ==
  ASSUME TypeOK, NoPairLoops, NoPairOfOne, FiniteEscrows, [Next]_vars,
         NEW s \in Tokens, NEW t \in Tokens, Exists(s, t), Exists(t, s),
         pairs' = pairs
  PROVE  \/ Worth(s, t)' <= Worth(s, t) + MintedWorth(s, t)'
         \/ \E u \in Tokens \ {s, t}, v \in {s, t}, a \in Accounts,
               n \in Amounts : Convert(a, u, v, n)
<1> DEFINE r == pairs[<<s, t>>].rate
<1>1. r \in Nat /\ Scale \in Nat
  BY ContractsAssumption DEF Exists, TypeOK, PairType
<1>2. PICK c, d, x, y, i, j : /\ c = Total(s)' /\ d = Total(t)'
                              /\ x = Total(s) /\ y = Total(t)
                              /\ i = minted'[s] /\ j = minted'[t]
  OBVIOUS
<1>3. /\ Worth(s, t) = x * r + y * Scale
      /\ Worth(s, t)' = c * r + d * Scale
      /\ MintedWorth(s, t)' = i * r + j * Scale
  BY <1>2 DEF Worth, MintedWorth
<1>4. x \in Nat /\ y \in Nat /\ i \in Nat /\ j \in Nat
  BY <1>2, TotalIsNat, TypeStep DEF TypeOK
<1> HIDE DEF r
<1>5. /\ x * r \in Nat /\ y * Scale \in Nat
      /\ i * r \in Nat /\ j * Scale \in Nat
  BY <1>1, <1>4
<1>6. CASE \A u \in Tokens : Total(u)' \in Nat /\ Total(u)' <= Total(u)
  <2>1. c \in Nat /\ c <= x /\ d \in Nat /\ d <= y
    BY <1>2, <1>6
  <2>2. c * r + d * Scale <= x * r + y * Scale
    BY <1>1, <1>4, <2>1, LessIsWorthLess
  <2>3. c * r \in Nat /\ d * Scale \in Nat
    BY <1>1, <2>1
  <2> QED
    BY <1>3, <1>5, <2>2, <2>3
<1>7. ASSUME NEW u \in Tokens, NEW a \in Accounts, NEW n \in Amounts,
             Mint(u, a, n)
      PROVE  Worth(s, t)' <= Worth(s, t) + MintedWorth(s, t)'
  <2>1. c = x + i /\ d = y + j
    BY <1>2, <1>7, MintMakes
  <2>2. c * r = x * r + i * r /\ d * Scale = y * Scale + j * Scale
    BY <1>1, <1>4, <2>1
  <2> QED
    BY <1>3, <1>5, <2>2
<1>8. ASSUME NEW a \in Accounts, NEW u \in Tokens, NEW v \in Tokens,
             NEW n \in Amounts, Convert(a, u, v, n),
             u \in {s, t} \/ v \notin {s, t}
      PROVE  Worth(s, t)' <= Worth(s, t) + MintedWorth(s, t)'
  <2>1. Worth(s, t)' <= Worth(s, t)
    BY <1>8, ConversionMakesNoValue
  <2>2. c \in Nat /\ d \in Nat
    <3>1. [Next]_vars
      OBVIOUS
    <3>2. n \in Nat /\ Quote(u, v, n) \in Nat /\ balance[u][a] >= n
          /\ balance' = Plus(Minus(balance, u, a, n), v, a, Quote(u, v, n))
          /\ records' = records
      BY <1>8, ConversionMoves DEF Convert, MayPay
    <3>3. \A z \in Tokens : Count(balance'[z]) \in Nat
      <4>1. balance' \in Balances
        BY TypeStep DEF TypeOK
      <4>2. \A z \in Tokens : balance'[z] \in [Accounts -> Nat]
        BY <4>1 DEF Balances
      <4> QED
        BY <4>2, ContractsAssumption, CountIsNat
    <3>4. \A z \in Tokens : OwedIn(records', z) \in Nat
      BY <3>2, TotalIsNat
    <3> QED
      BY <1>2, <3>3, <3>4, TotalIs DEF TotalIn
  <2>3. c * r \in Nat /\ d * Scale \in Nat
    BY <1>1, <2>2
  <2> QED
    BY <1>3, <1>5, <2>1, <2>3
<1> QED
  BY <1>6, <1>7, <1>8, OnlyTwoMakeMore

(* No transfer, escrow or conversion makes value, and a mint no more than  *)
(* it says, for any tokens, rates, escrows and holders: the converter's    *)
(* guard, its flooring, the burn and mint of a conversion, and that an     *)
(* escrow is paid out once.                                                *)
THEOREM NoValueFromNothing == Spec => OnlyMintMakesValue
<1>1. Init => FiniteEscrows /\ NoPairOfOne
  BY FS_EmptySet DEF Init, FiniteEscrows, NoPairOfOne, Exists
<1>2. TypeOK /\ FiniteEscrows /\ [Next]_vars => FiniteEscrows'
  BY FiniteStep
<1>3. TypeOK /\ NoPairOfOne /\ [Next]_vars => NoPairOfOne'
  BY PairOfTwoStep
<1>4. TypeOK /\ NoPairLoops /\ NoPairOfOne /\ FiniteEscrows /\ [Next]_vars =>
        [\A s, t \in Tokens :
           Exists(s, t) /\ Exists(t, s) /\ pairs' = pairs =>
             \/ Worth(s, t)' <= Worth(s, t) + MintedWorth(s, t)'
             \/ \E u \in Tokens \ {s, t}, v \in {s, t}, a \in Accounts,
                   n \in Amounts : Convert(a, u, v, n)]_vars
  BY ValueStep
<1> QED
  BY <1>1, <1>2, <1>3, <1>4, TypeCorrect, LoopGuard, PTL DEF Spec, OnlyMintMakesValue
=============================================================================
