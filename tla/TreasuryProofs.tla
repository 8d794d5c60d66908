--------------------------- MODULE TreasuryProofs ---------------------------
(***************************************************************************)
(* Proofs about Treasury.tla, for any sets of wallets, ids, stages,        *)
(* tokens, entries and requests, any policy caps and any calls.json.       *)
(***************************************************************************)
EXTENDS Treasury, Integers, FiniteSetTheorems, WellFoundedInduction, TLAPS

-----------------------------------------------------------------------------
(* Sums of naturals over a finite set, as Functions!SumFunctionOnSet       *)
(* computes them.  A sum is the number of units it adds up, so adding,     *)
(* removing and comparing sums is counting finite sets.                    *)

(* The units that f[x] stands for, for every x of S.                       *)
Units(f, S) == {u \in S \X Nat : 1 <= u[2] /\ u[2] <= f[u[1]]}

(* The element a fold takes next, and the function it is the value of.     *)
Chosen(s) == CHOOSE x \in s : TRUE
IsPartial(f, S, g) ==
  g = [s \in SUBSET S |->
         IF s = {} THEN 0 ELSE f[Chosen(s)] + g[s \ {Chosen(s)}]]
Partial(f, S) == CHOOSE g : IsPartial(f, S, g)

-----------------------------------------------------------------------------
(* A set of subsets of a finite set has a member none of whose elements    *)
(* can be taken out without leaving the set: induction on finite sets.     *)
LEMMA SmallestSubset ==
  ASSUME NEW S, IsFiniteSet(S), NEW Bad, Bad \subseteq SUBSET S, Bad # {}
  PROVE  \E s \in Bad : \A x \in s : s \ {x} \notin Bad
PROOF
  <1>1. IsWellFoundedOn(StrictSubsetOrdering(S), SUBSET S)
    BY FS_StrictSubsetOrderingWellFounded, FS_FiniteSubsetsOfFinite
  <1>2. PICK s \in Bad : \A y \in Bad : ~(<<y, s>> \in StrictSubsetOrdering(S))
    BY <1>1, WFMin
  <1>3. \A x \in s : s \ {x} \in (SUBSET S) /\ s \ {x} \subseteq s /\ s \ {x} # s
    OBVIOUS
  <1> QED
    BY <1>2, <1>3 DEF StrictSubsetOrdering

(* The units of a set are those of one element and those of the others.    *)
LEMMA UnitsOfOneMore ==
  ASSUME NEW f, NEW S, NEW x \in S, f[x] \in Nat, IsFiniteSet(Units(f, S \ {x}))
  PROVE  /\ IsFiniteSet(Units(f, S))
         /\ Cardinality(Units(f, S)) = f[x] + Cardinality(Units(f, S \ {x}))
PROOF
  <1> DEFINE A == {x} \X (1 .. f[x])
             B == Units(f, S \ {x})
  <1>1. Units(f, S) = A \cup B
    <2>1. ASSUME NEW u \in Units(f, S) PROVE u \in A \cup B
      <3>1. u \in S \X Nat /\ 1 <= u[2] /\ u[2] <= f[u[1]]
        BY DEF Units
      <3>2. CASE u[1] = x
        BY <3>1, <3>2
      <3>3. CASE u[1] # x
        BY <3>1, <3>3 DEF Units
      <3> QED
        BY <3>2, <3>3
    <2>2. ASSUME NEW u \in A \cup B PROVE u \in Units(f, S)
      BY DEF Units
    <2> QED
      BY <2>1, <2>2
  <1>2. A \cap B = {}
    BY DEF Units
  <1>3. IsFiniteSet(A) /\ Cardinality(A) = f[x]
    <2>1. IsFiniteSet(1 .. f[x]) /\ Cardinality(1 .. f[x]) = f[x]
      <3>1. 1 \in Int /\ f[x] \in Int
        OBVIOUS
      <3> QED
        BY <3>1, FS_Interval
    <2>2. IsFiniteSet({x}) /\ Cardinality({x}) = 1
      BY FS_Singleton
    <2>3. IsFiniteSet(A) /\ Cardinality(A) = Cardinality({x}) * Cardinality(1 .. f[x])
      BY <2>1, <2>2, FS_Product
    <2> HIDE DEF A
    <2>4. 1 * f[x] = f[x]
      OBVIOUS
    <2> QED
      BY <2>1, <2>2, <2>3, <2>4
  <1>4. IsFiniteSet(B) /\ Cardinality(B) \in Nat
    BY FS_CardinalityType
  <1> HIDE DEF A, B
  <1>5. IsFiniteSet(A \cup B)
        /\ Cardinality(A \cup B) = f[x] + Cardinality(B) - Cardinality(A \cap B)
    BY <1>3, <1>4, FS_Union
  <1>6. Cardinality(A \cap B) = 0
    BY <1>2, FS_EmptySet
  <1>7. IsFiniteSet(Units(f, S)) /\ Cardinality(Units(f, S)) = f[x] + Cardinality(B)
    BY <1>1, <1>4, <1>5, <1>6
  <1> QED
    BY <1>7 DEF B

(* A finite set of naturals has finitely many units.                       *)
LEMMA UnitsFinite ==
  ASSUME NEW f, NEW S, IsFiniteSet(S), \A x \in S : f[x] \in Nat
  PROVE  IsFiniteSet(Units(f, S)) /\ Cardinality(Units(f, S)) \in Nat
PROOF
  <1> DEFINE Bad == {s \in SUBSET S : ~IsFiniteSet(Units(f, s))}
  <1>1. CASE Bad # {}
    <2>1. PICK s \in Bad : \A x \in s : s \ {x} \notin Bad
      BY <1>1, SmallestSubset
    <2>2. CASE s = {}
      <3>1. Units(f, s) = {}
        BY <2>2 DEF Units
      <3> QED
        BY <3>1, FS_EmptySet
    <2>3. CASE s # {}
      <3>1. PICK x \in s : TRUE
        BY <2>3
      <3>2. IsFiniteSet(Units(f, s \ {x}))
        BY <2>1
      <3> QED
        BY <3>2, UnitsOfOneMore
    <2> QED
      BY <2>2, <2>3
  <1> QED
    BY <1>1, FS_CardinalityType

-----------------------------------------------------------------------------
(* The fold is the value of its own recursion.                             *)
LEMMA SumUnfolds ==
  ASSUME NEW f, NEW S
  PROVE  SumFunctionOnSet(f, S) = Partial(f, S)[S]
PROOF BY DEF SumFunctionOnSet, FoldFunctionOnSet, MapThenFoldSet,
         Partial, IsPartial, Chosen

(* The recursion has a solution as soon as some function satisfies it.     *)
LEMMA PartialUnfolds ==
  ASSUME NEW f, NEW S, NEW h, IsPartial(f, S, h)
  PROVE  IsPartial(f, S, Partial(f, S))
PROOF BY Zenon DEF Partial

(* A sum is the number of its units.                                       *)
LEMMA SumCountsUnits ==
  ASSUME NEW f, NEW S, IsFiniteSet(S), \A x \in S : f[x] \in Nat
  PROVE  SumFunctionOnSet(f, S) = Cardinality(Units(f, S))
PROOF
  <1> DEFINE g == Partial(f, S)
             h == [s \in SUBSET S |-> Cardinality(Units(f, s))]
             Bad == {s \in SUBSET S : g[s] # h[s]}
  <1>1. \A s \in SUBSET S : s # {} => Chosen(s) \in s
    BY DEF Chosen
  <1>2. \A s \in SUBSET S : IsFiniteSet(Units(f, s))
    BY UnitsFinite, FS_Subset
  <1>3. Cardinality(Units(f, {})) = 0
    <2>1. Units(f, {}) = {}
      BY DEF Units
    <2> QED
      BY <2>1, FS_EmptySet
  <1>4. ASSUME NEW s \in SUBSET S, s # {}
        PROVE  Cardinality(Units(f, s)) =
                 f[Chosen(s)] + Cardinality(Units(f, s \ {Chosen(s)}))
    <2>1. Chosen(s) \in s /\ f[Chosen(s)] \in Nat
      BY <1>1, <1>4
    <2>2. IsFiniteSet(Units(f, s \ {Chosen(s)}))
      BY <1>2
    <2> QED
      BY <2>1, <2>2, UnitsOfOneMore
  <1>5. IsPartial(f, S, h)
    BY <1>3, <1>4 DEF IsPartial
  <1>6. IsPartial(f, S, g)
    BY <1>5, PartialUnfolds
  <1> HIDE DEF g, h
  <1>7. Bad = {}
    <2> SUFFICES ASSUME Bad # {} PROVE FALSE
      OBVIOUS
    <2>1. PICK s \in Bad : \A x \in s : s \ {x} \notin Bad
      BY SmallestSubset
    <2>2. s \in SUBSET S /\ g[s] # h[s]
      OBVIOUS
    <2>3. s # {}
      BY <1>5, <1>6, <2>2 DEF IsPartial
    <2>4. Chosen(s) \in s /\ s \ {Chosen(s)} \in SUBSET S
      BY <1>1, <2>2, <2>3
    <2>5. g[s \ {Chosen(s)}] = h[s \ {Chosen(s)}]
      BY <2>1, <2>4
    <2> QED
      BY <1>5, <1>6, <2>2, <2>3, <2>5 DEF IsPartial
  <1> QED
    BY <1>7, SumUnfolds DEF g, h

-----------------------------------------------------------------------------
(* What the proofs cite *)

(* A sum of naturals is a natural.                                         *)
LEMMA SumIsNat ==
  ASSUME NEW f, NEW S, IsFiniteSet(S), \A x \in S : f[x] \in Nat
  PROVE  SumFunctionOnSet(f, S) \in Nat
PROOF BY SumCountsUnits, UnitsFinite

(* Nothing adds up to zero.                                                *)
LEMMA SumOfNothing ==
  ASSUME NEW f
  PROVE  SumFunctionOnSet(f, {}) = 0
PROOF
  <1>1. Units(f, {}) = {}
    BY DEF Units
  <1> QED
    BY <1>1, SumCountsUnits, FS_EmptySet

(* One element of a sum can be taken out of it.                            *)
LEMMA SumSplits ==
  ASSUME NEW f, NEW S, IsFiniteSet(S), \A y \in S : f[y] \in Nat, NEW x \in S
  PROVE  /\ SumFunctionOnSet(f, S) = f[x] + SumFunctionOnSet(f, S \ {x})
         /\ SumFunctionOnSet(f, S \ {x}) \in Nat
PROOF
  <1>1. IsFiniteSet(S \ {x})
    BY FS_RemoveElement
  <1>2. IsFiniteSet(Units(f, S \ {x}))
    BY <1>1, UnitsFinite
  <1>3. f[x] \in Nat /\ \A y \in S \ {x} : f[y] \in Nat
    OBVIOUS
  <1>4. Cardinality(Units(f, S)) = f[x] + Cardinality(Units(f, S \ {x}))
    BY <1>2, <1>3, UnitsOfOneMore
  <1>5. SumFunctionOnSet(f, S) = Cardinality(Units(f, S))
    BY SumCountsUnits
  <1>6. SumFunctionOnSet(f, S \ {x}) = Cardinality(Units(f, S \ {x}))
    BY <1>1, <1>3, SumCountsUnits
  <1> QED
    BY <1>1, <1>3, <1>4, <1>5, <1>6, SumIsNat

(* A sum depends on its own elements only.                                 *)
LEMMA SumAgrees ==
  ASSUME NEW f, NEW g, NEW S, IsFiniteSet(S), \A x \in S : f[x] \in Nat,
         \A x \in S : g[x] = f[x]
  PROVE  SumFunctionOnSet(g, S) = SumFunctionOnSet(f, S)
PROOF
  <1>1. Units(g, S) = Units(f, S)
    BY DEF Units
  <1> QED
    BY <1>1, SumCountsUnits

(* A sum is at most another when its elements can be told apart among the  *)
(* other's, each no larger than its image.                                 *)
LEMMA SumInjects ==
  ASSUME NEW f, NEW S, \A x \in S : f[x] \in Nat,
         NEW g, NEW T, IsFiniteSet(T), \A y \in T : g[y] \in Nat,
         NEW m \in [S -> T],
         \A x, y \in S : m[x] = m[y] => x = y,
         \A x \in S : f[x] <= g[m[x]]
  PROVE  IsFiniteSet(S) /\ SumFunctionOnSet(f, S) <= SumFunctionOnSet(g, T)
PROOF
  <1>1. m \in Injection(S, T)
    BY DEF Injection, IsInjective
  <1>2. IsFiniteSet(S)
    BY <1>1, FS_Injection
  <1> DEFINE A == Units(f, S)
             B == Units(g, T)
             h == [u \in A |-> <<m[u[1]], u[2]>>]
  <1>3. \A u \in A : u \in S \X Nat /\ 1 <= u[2] /\ u[2] <= f[u[1]]
    BY DEF Units
  <1>4. \A u \in A : h[u] \in B
    <2> TAKE u \in A
    <2>1. u[1] \in S /\ u[2] \in Nat /\ 1 <= u[2] /\ u[2] <= f[u[1]]
      BY <1>3
    <2>2. m[u[1]] \in T /\ f[u[1]] <= g[m[u[1]]]
      BY <2>1
    <2>3. u[2] <= g[m[u[1]]]
      BY <2>1, <2>2
    <2> QED
      BY <2>1, <2>2, <2>3 DEF Units
  <1>5. \A u, v \in A : h[u] = h[v] => u = v
    BY <1>3
  <1> HIDE DEF A, B
  <1>6. h \in Injection(A, B)
    BY <1>4, <1>5 DEF Injection, IsInjective
  <1>7. IsFiniteSet(B)
    BY UnitsFinite DEF B
  <1>8. Cardinality(A) <= Cardinality(B)
    BY <1>6, <1>7, FS_Injection
  <1> QED
    BY <1>2, <1>8, SumCountsUnits DEF A, B

(* A function with one more argument sums up to one value more.            *)
LEMMA SumGains ==
  ASSUME NEW S, IsFiniteSet(S), NEW x, x \notin S,
         NEW f \in [S -> Nat], NEW g \in [S \cup {x} -> Nat],
         \A y \in S : g[y] = f[y]
  PROVE  /\ SumFunction(g) = SumFunction(f) + g[x]
         /\ SumFunction(f) \in Nat
PROOF
  <1>1. IsFiniteSet(S \cup {x})
    BY FS_AddElement
  <1>2. SumFunctionOnSet(g, S \cup {x})
          = g[x] + SumFunctionOnSet(g, (S \cup {x}) \ {x})
    BY <1>1, SumSplits
  <1>3. (S \cup {x}) \ {x} = S
    OBVIOUS
  <1>4. SumFunctionOnSet(g, S) = SumFunctionOnSet(f, S)
    BY SumAgrees
  <1>5. SumFunctionOnSet(f, S) \in Nat
    BY SumIsNat
  <1>6. DOMAIN f = S /\ DOMAIN g = S \cup {x} /\ g[x] \in Nat
    OBVIOUS
  <1> QED
    BY <1>2, <1>3, <1>4, <1>5, <1>6 DEF SumFunction

-----------------------------------------------------------------------------
(* The shape of the states *)

(* A request that has arrived has a well-formed body, only a set-balance   *)
(* measures, and a request that has not arrived has nothing on the chain.  *)
ReqOK ==
  /\ \A r \in Requests : pc[r] = "measuring" => Op(r) = "set"
  /\ \A r \in Requests : pc[r] # "idle" => req[r] \in Inputs
  /\ \A r \in Requests : OnChain(r) => pc[r] # "idle"

Shape == TypeOK /\ ReqOK

(* What is known of a request that has arrived.                          *)
LEMMA RequestShape ==
  ASSUME Shape, NEW r \in Requests, pc[r] # "idle"
  PROVE  /\ req[r] \in Inputs /\ req[r] \in Request
         /\ KeyOf(r) \in Keys /\ KeyOf(r)[1] = req[r].wallet
         /\ req[r].wallet \in Principals
         /\ Op(r) # "admin" => req[r].wallet \in Agents
         /\ Op(r) \in {"call", "admin"} => req[r].call \in Calls
         /\ req[r].call \in Calls \cup {NoCall}
         /\ Tok(r) \in Tokens
         /\ Moved(r) \in Nat /\ Reserved(r) \in Nat
         /\ Sender(r) \in Accounts /\ Receiver(r) \in Accounts
         /\ StageCap(r) \in StageCaps /\ EntryLimit(r) \in Limits
         /\ stageRead[r] \in Stages
PROOF
  <1>1. req[r] \in Inputs /\ req[r] \in Request /\ WellFormed(req[r])
    BY TreasuryAssumption DEF Shape, ReqOK
  <1>2. req[r].wallet \in Principals /\ req[r].id \in Ids
        /\ req[r].to \in Accounts /\ req[r].token \in Tokens
        /\ req[r].amount \in Nat /\ req[r].call \in Calls \cup {NoCall}
        /\ req[r].op \in {"send", "call", "fund", "set", "admin"}
    BY <1>1 DEF Request
  <1>3. KeyOf(r) \in Keys /\ KeyOf(r)[1] = req[r].wallet
    BY <1>2 DEF KeyOf, Keys
  <1>4. Op(r) # "admin" => req[r].wallet \in Agents
    BY <1>1, <1>2 DEF WellFormed, Principals, Op
  <1>5. Op(r) \in {"call", "admin"} => req[r].call \in Calls
    BY <1>1, <1>2 DEF WellFormed, Op
  <1>6. stageRead[r] \in Stages /\ limitRead[r] \in Limits /\ balRead[r] \in Nat
    BY DEF Shape, TypeOK
  <1>7. Moved(r) \in Nat /\ Reserved(r) \in Nat
    BY <1>2, <1>6 DEF Moved, Reserved, SweepsBack, Op
  <1>8. Sender(r) \in Accounts /\ Receiver(r) \in Accounts
    BY <1>2, <1>4 DEF Sender, Receiver, WalletSigned, SweepsBack, Accounts, Op
  <1>9. StageCap(r) \in StageCaps
    BY <1>2, <1>4, TreasuryAssumption DEF StageCap, StageCaps, Op, Tok
  <1>10. EntryLimit(r) \in Limits
    BY <1>6 DEF EntryLimit, Limits
  <1> QED
    BY <1>1, <1>2, <1>3, <1>4, <1>5, <1>6, <1>7, <1>8, <1>9, <1>10 DEF Tok

-----------------------------------------------------------------------------
(* The store's transactions keep its tables well typed. *)

LEMMA ReserveKeepsType ==
  ASSUME LedgerTypeOK, NEW k \in Keys, NEW s \in Stages, NEW t \in Tokens,
         NEW amt \in Nat, NEW cap \in StageCaps, NEW call \in Calls \cup {NoCall},
         NEW limit \in Limits,
         Reserve(k, s, t, amt, cap, call, limit)
  PROVE  LedgerTypeOK'
PROOF
  <1> DEFINE new == [stage |-> s, amount |-> amt, token |-> t, tx |-> NoTx,
                     held |-> IF cap # NoStageCap THEN amt ELSE 0,
                     call |-> call, counted |-> IsCounted(call, limit)]
  <1>1. new \in Row
    BY DEF Row, IsCounted
  <1>2. rows' \in [Keys -> Row \cup {NoRow}]
    BY <1>1 DEF Reserve, LedgerTypeOK
  <1>3. k[1] \in Principals
    BY DEF Keys
  <1>4. spend' \in [Principals \X Stages \X Tokens -> Nat]
    BY <1>3 DEF Reserve, LedgerTypeOK
  <1>5. counts' \in [Principals \X Stages \X Entries -> Nat]
    BY <1>3 DEF Reserve, LedgerTypeOK, IsCounted, Calls
  <1> QED
    BY <1>2, <1>4, <1>5 DEF Reserve, LedgerTypeOK

(* completeIntent: the hash goes on a row, or nothing changes.           *)
LEMMA CompleteKeepsType ==
  ASSUME LedgerTypeOK, NEW k \in Keys, NEW h \in Hashes, CompleteIntent(k, h)
  PROVE  LedgerTypeOK'
PROOF
  <1>1. CASE rows[k] = NoRow
    BY <1>1 DEF CompleteIntent, LedgerTypeOK
  <1>2. CASE rows[k] # NoRow
    <2>1. rows[k] \in Row
      BY <1>2 DEF LedgerTypeOK
    <2>2. [rows[k] EXCEPT !.tx = h] \in Row
      BY <2>1 DEF Row
    <2> QED
      BY <1>2, <2>2 DEF CompleteIntent, LedgerTypeOK
  <1> QED
    BY <1>1, <1>2

(* The clamp of the two release subtractions.                            *)
LEMMA MinusType ==
  ASSUME NEW a \in Nat, NEW b \in Nat
  PROVE  Minus(a, b) \in Nat /\ Minus(a, b) <= a
PROOF BY DEF Minus

(* release: both subtractions stay natural.                              *)
LEMMA ReleaseKeepsType ==
  ASSUME LedgerTypeOK, NEW k \in Keys, Release(k)
  PROVE  LedgerTypeOK'
PROOF
  <1>1. CASE ~Releasable(k)
    BY <1>1 DEF Release, LedgerTypeOK, ledgerVars
  <1>2. CASE Releasable(k)
    <2> DEFINE row == rows[k]
    <2>1. row \in Row
      BY <1>2 DEF Releasable, LedgerTypeOK
    <2>2. /\ row.stage \in Stages /\ row.token \in Tokens /\ row.held \in Nat
          /\ row.call \in Calls \cup {NoCall}
      BY <2>1 DEF Row
    <2>3. k[1] \in Principals
      BY DEF Keys
    <2>4. spend' \in [Principals \X Stages \X Tokens -> Nat]
      <3>1. Minus(spend[<<k[1], row.stage, row.token>>], row.held) \in Nat
        BY <2>2, <2>3, MinusType DEF LedgerTypeOK
      <3> QED
        BY <1>2, <2>2, <2>3, <3>1 DEF Release, LedgerTypeOK
    <2>5. counts' \in [Principals \X Stages \X Entries -> Nat]
      <3>1. CASE row.call = NoCall
        BY <1>2, <3>1 DEF Release, LedgerTypeOK
      <3>2. CASE row.call # NoCall
        <4>1. row.call.entry \in Entries
          BY <2>2, <3>2 DEF Calls
        <4>2. Minus(counts[<<k[1], row.stage, row.call.entry>>], 1) \in Nat
          BY <2>2, <2>3, <4>1, MinusType DEF LedgerTypeOK
        <4> QED
          BY <1>2, <2>2, <2>3, <4>1, <4>2 DEF Release, LedgerTypeOK
      <3> QED
        BY <3>1, <3>2
    <2>6. rows' \in [Keys -> Row \cup {NoRow}]
      BY <1>2 DEF Release, LedgerTypeOK
    <2> QED
      BY <1>2, <2>4, <2>5, <2>6 DEF Release, LedgerTypeOK
  <1> QED
    BY <1>1, <1>2

-----------------------------------------------------------------------------
(* Type correctness: one lemma for the arrival of a request, one for the   *)
(* steps of a handler, one for the chain and the environment.              *)

LEMMA ArriveKeepsShape ==
  ASSUME Shape, NEW r \in Requests, Arrive(r)
  PROVE  Shape'
PROOF
  <1> PICK q \in Inputs :
        /\ req' = [req EXCEPT ![r] = q]
        /\ IF q.op \in {"send", "call"} /\ q.wallet \in retired
           THEN Finish(r, "wallet_retired", NoTx)
           ELSE /\ Goto(r, IF q.op = "set" THEN "measuring" ELSE "admitted")
                /\ UNCHANGED reply
        /\ limitRead' = IF q.op = "call"
                        THEN [limitRead EXCEPT ![r] = allowlist[q.call.entry]]
                        ELSE limitRead
    BY DEF Arrive
  <1> USE DEF Shape, ReqOK, TypeOK, OnChain, Op
  <1>1. UNCHANGED <<ledgerVars, stageRead, balRead, chain, events, sideVars>>
        /\ pc[r] = "idle"
    BY DEF Arrive, At
  <1>2. LedgerTypeOK'
    BY <1>1 DEF LedgerTypeOK, ledgerVars
  <1>3. /\ pc' \in [Requests -> Places]
        /\ reply' \in [Requests -> [code : Codes \cup {"none"},
                                   tx : Hashes \cup {NoTx}]]
    <2>1. Answer("wallet_retired", NoTx) \in [code : Codes \cup {"none"},
                                              tx : Hashes \cup {NoTx}]
      BY DEF Answer, Codes
    <2> HIDE DEF ReqOK, OnChain, Op
    <2>2. CASE q.op \in {"send", "call"} /\ q.wallet \in retired
      BY <2>1, <2>2 DEF Finish, Goto, Places
    <2>3. CASE ~(q.op \in {"send", "call"} /\ q.wallet \in retired)
      BY <2>3 DEF Goto, Places
    <2> QED
      BY <2>2, <2>3
  <1>4. req' \in [Requests -> Inputs \cup {NoReq}]
    OBVIOUS
  <1>5. limitRead' \in [Requests -> Limits]
    <2>1. CASE q.op = "call"
      <3>1. q \in Request /\ WellFormed(q)
        BY TreasuryAssumption
      <3>2. q.call \in Calls
        BY <3>1, <2>1 DEF Request, WellFormed
      <3>3. allowlist[q.call.entry] \in Limits
        BY <3>2, TreasuryAssumption DEF Calls
      <3> QED
        BY <2>1, <3>3
    <2>2. CASE q.op # "call"
      BY <2>2
    <2> QED
      BY <2>1, <2>2
  <1>6. ReqOK'
    BY <1>1 DEF Finish, Goto
  <1> QED
    BY <1>1, <1>2, <1>3, <1>4, <1>5, <1>6 DEF sideVars

(* The steps that leave the ledger alone. *)
LEMMA QuietHandlerKeepsShape ==
  ASSUME Shape, NEW r \in Requests,
         \/ Measure(r) \/ ReadStage(r) \/ Refuse(r)
         \/ RefuseOverCap(r) \/ AnswerReplay(r) \/ Prepare(r) \/ SweepFails(r)
         \/ CheckFloat(r) \/ TreasurySendFails(r) \/ Broadcast(r)
         \/ BroadcastFails(r) \/ SendReceipt(r) \/ CallReceipt(r)
         \/ Reread(r) \/ ReceiptFails(r)
  PROVE  Shape'
PROOF
  <1>1. UNCHANGED ledgerVars /\ UNCHANGED <<req, allowlist, bal, crashes>>
    BY DEF Measure, ReadStage, Refuse, RefuseOverCap, AnswerReplay, Prepare,
       SweepFails, CheckFloat, TreasurySendFails, Broadcast, BroadcastFails,
       SendReceipt, CallReceipt, Reread, ReceiptFails, sideVars
  <1>2. LedgerTypeOK'
    BY <1>1 DEF Shape, TypeOK, LedgerTypeOK, ledgerVars
  <1>3. pc[r] # "idle"
    BY DEF Measure, ReadStage, Refuse, RefuseOverCap, AnswerReplay, Prepare,
       SweepFails, CheckFloat, TreasurySendFails, Broadcast, BroadcastFails,
       SendReceipt, CallReceipt, Reread, ReceiptFails, At, HasReceipt,
       TreasuryTurn
  <1>4. \E p \in Places \ {"idle"} : Goto(r, p)
    BY DEF Measure, ReadStage, Refuse, RefuseOverCap, AnswerReplay, Prepare,
       SweepFails, CheckFloat, TreasurySendFails, Broadcast, BroadcastFails,
       SendReceipt, CallReceipt, Reread, ReceiptFails, Finish, Places
  <1>5. pc' \in [Requests -> Places] /\ pc'[r] # "idle"
        /\ \A q \in Requests : q # r => pc'[q] = pc[q]
    BY <1>4 DEF Goto, Shape, TypeOK
  <1>6. UNCHANGED reply
        \/ \E c \in Codes, h \in Hashes \cup {NoTx} :
             reply' = [reply EXCEPT ![r] = Answer(c, h)]
    <2>1. CASE AnswerReplay(r)
      <3>1. KeyOf(r) \in Keys /\ rows[KeyOf(r)] # NoRow
        BY <2>1, <1>3, RequestShape DEF AnswerReplay, Duplicate
      <3>2. rows[KeyOf(r)] \in Row
        BY <3>1 DEF Shape, TypeOK, LedgerTypeOK
      <3>3. rows[KeyOf(r)].tx \in Hashes \cup {NoTx}
        BY <3>2 DEF Row
      <3> QED
        BY <2>1, <3>3 DEF AnswerReplay, Finish, Codes
    <2>2. CASE ~AnswerReplay(r)
      BY <2>2, TreasuryAssumption DEF Measure, ReadStage, Refuse, RefuseOverCap,
         Prepare, SweepFails, CheckFloat, TreasurySendFails, Broadcast,
         BroadcastFails, SendReceipt, CallReceipt, Reread, ReceiptFails,
         Finish, Codes
    <2> QED
      BY <2>1, <2>2
  <1>7. reply' \in [Requests -> [code : Codes \cup {"none"},
                                tx : Hashes \cup {NoTx}]]
    BY <1>6 DEF Answer, Shape, TypeOK
  <1>8. /\ \/ UNCHANGED stageRead
           \/ \E s \in Stages : stageRead' = [stageRead EXCEPT ![r] = s]
        /\ \/ UNCHANGED balRead
           \/ \E n \in Nat : balRead' = [balRead EXCEPT ![r] = n]
        /\ UNCHANGED limitRead
    <2>1. CASE Measure(r)
      <3>1. req[r].wallet \in Agents /\ Tok(r) \in Tokens
        BY <2>1, <1>3, RequestShape DEF Measure, At, Shape, ReqOK
      <3>2. bal[<<req[r].wallet, Tok(r)>>] \in Nat
        BY <3>1 DEF Shape, TypeOK, Accounts
      <3> QED
        BY <2>1, <3>2 DEF Measure
    <2>2. CASE ~Measure(r)
      BY <2>2 DEF ReadStage, Refuse, RefuseOverCap, AnswerReplay,
         Prepare, SweepFails, CheckFloat, TreasurySendFails, Broadcast,
         BroadcastFails, SendReceipt, CallReceipt, Reread, ReceiptFails,
         readVars
    <2> QED
      BY <2>1, <2>2
  <1>9. /\ stageRead' \in [Requests -> Stages] /\ balRead' \in [Requests -> Nat]
        /\ limitRead' \in [Requests -> Limits]
    BY <1>8 DEF Shape, TypeOK, LedgerTypeOK
  <1>10. UNCHANGED chain \/ chain' = [chain EXCEPT ![r] = "pending"]
    BY DEF Measure, ReadStage, Refuse, RefuseOverCap, AnswerReplay, Prepare,
       SweepFails, CheckFloat, TreasurySendFails, Broadcast, BroadcastFails,
       SendReceipt, CallReceipt, Reread, ReceiptFails
  <1>11. events' \subseteq {"agent.spend", "agent.call", "hub.call"} \X Requests
                            \X {"ok", "reverted", "refused"}
         /\ memos' \subseteq Requests
    BY DEF Measure, ReadStage, Refuse, RefuseOverCap, AnswerReplay, Prepare,
       SweepFails, CheckFloat, TreasurySendFails, Broadcast, BroadcastFails,
       SendReceipt, CallReceipt, Reread, ReceiptFails, sideVars, Shape, TypeOK
  <1>12. TypeOK'
    BY <1>1, <1>2, <1>5, <1>7, <1>9, <1>10, <1>11 DEF Shape, TypeOK
  <1>13. pc'[r] # "measuring"
    BY DEF Measure, ReadStage, Refuse, RefuseOverCap, AnswerReplay, Prepare,
       SweepFails, CheckFloat, TreasurySendFails, Broadcast, BroadcastFails,
       SendReceipt, CallReceipt, Reread, ReceiptFails, Finish, Goto, Shape,
       TypeOK
  <1>14. ReqOK'
    BY <1>1, <1>3, <1>5, <1>10, <1>13 DEF Shape, ReqOK, TypeOK, OnChain, Op
  <1> QED
    BY <1>12, <1>14 DEF Shape

(* The four steps of a handler that write the ledger. *)
LEMMA LedgerStepKeepsShape ==
  ASSUME Shape, NEW r \in Requests,
         \/ TakeReservation(r) \/ PrepareFails(r)
         \/ HashReturned(r) \/ PlatformReceipt(r)
  PROVE  Shape'
PROOF
  <1>1. pc[r] # "idle"
    BY DEF TakeReservation, PrepareFails, HashReturned, PlatformReceipt, At,
       HasReceipt
  <1>2. /\ KeyOf(r) \in Keys /\ Tok(r) \in Tokens /\ Reserved(r) \in Nat
        /\ StageCap(r) \in StageCaps /\ EntryLimit(r) \in Limits
        /\ req[r].call \in Calls \cup {NoCall} /\ stageRead[r] \in Stages
    BY <1>1, RequestShape
  <1>3. LedgerTypeOK'
    <2>1. LedgerTypeOK /\ r \in Hashes
      BY TreasuryAssumption DEF Shape, TypeOK
    <2>2. CASE TakeReservation(r)
      BY <2>1, <2>2, <1>2, ReserveKeepsType DEF TakeReservation
    <2>3. CASE PrepareFails(r)
      BY <2>1, <2>3, <1>2, ReleaseKeepsType DEF PrepareFails
    <2>4. CASE HashReturned(r)
      <3>1. CASE Op(r) \in {"send", "call", "admin"}
        BY <2>1, <2>4, <3>1, <1>2, CompleteKeepsType DEF HashReturned
      <3>2. CASE Op(r) \notin {"send", "call", "admin"}
        BY <2>1, <2>4, <3>2 DEF HashReturned, LedgerTypeOK, ledgerVars
      <3> QED
        BY <3>1, <3>2
    <2>5. CASE PlatformReceipt(r)
      BY <2>1, <2>5, <1>2, CompleteKeepsType DEF PlatformReceipt
    <2> QED
      BY <2>2, <2>3, <2>4, <2>5
  <1>4. UNCHANGED <<req, readVars, chain, allowlist, bal, events, crashes>>
        /\ memos' \subseteq Requests
    BY DEF TakeReservation, PrepareFails, HashReturned, PlatformReceipt,
       sideVars, Shape, TypeOK
  <1>5. \E p \in Places \ {"idle", "measuring"} : Goto(r, p)
    BY DEF TakeReservation, PrepareFails, HashReturned, PlatformReceipt,
       Finish, Places
  <1>6. UNCHANGED reply
        \/ \E c \in Codes, h \in Hashes \cup {NoTx} :
             reply' = [reply EXCEPT ![r] = Answer(c, h)]
    BY TreasuryAssumption DEF TakeReservation, PrepareFails, HashReturned,
       PlatformReceipt, Finish, Codes
  <1>7. reply' \in [Requests -> [code : Codes \cup {"none"},
                                tx : Hashes \cup {NoTx}]]
    BY <1>6 DEF Answer, Shape, TypeOK
  <1>8. TypeOK'
    BY <1>3, <1>4, <1>5, <1>7 DEF Shape, TypeOK, Goto, readVars
  <1>9. ReqOK'
    BY <1>1, <1>4, <1>5 DEF Shape, ReqOK, TypeOK, OnChain, Op, Goto
  <1> QED
    BY <1>8, <1>9 DEF Shape

(* A mined transfer overdraws nobody: it was covered when it was mined.  *)
LEMMA MineKeepsShape ==
  ASSUME Shape, NEW r \in Requests, Mine(r)
  PROVE  Shape'
PROOF
  <1>1. chain[r] = "pending" /\ pc[r] # "idle"
    BY DEF Mine, Shape, ReqOK, OnChain
  <1>2. /\ Tok(r) \in Tokens /\ Moved(r) \in Nat
        /\ Sender(r) \in Accounts /\ Receiver(r) \in Accounts
    BY <1>1, RequestShape
  <1>3. UNCHANGED <<ledgerVars, requestVars, allowlist, crashes>>
        /\ \E c \in {"mined", "reverted"} : chain' = [chain EXCEPT ![r] = c]
    BY DEF Mine
  <1>4. bal' \in [Accounts \X Tokens -> Nat]
    <2>1. CASE UNCHANGED bal
      BY <2>1 DEF Shape, TypeOK
    <2>2. CASE Covers(r) /\ bal' = Settled(r)
      <3> DEFINE out == IF Op(r) = "admin" THEN bal
                        ELSE [bal EXCEPT ![<<Sender(r), Tok(r)>>] = @ - Moved(r)]
      <3>1. bal \in [Accounts \X Tokens -> Nat]
        BY DEF Shape, TypeOK
      <3>2. out \in [Accounts \X Tokens -> Nat]
        BY <1>2, <2>2, <3>1 DEF Covers
      <3>3. bal' = [out EXCEPT ![<<Receiver(r), Tok(r)>>] = @ + Moved(r)]
        BY <2>2 DEF Settled
      <3> HIDE DEF out
      <3> QED
        BY <1>2, <3>2, <3>3
    <2> QED
      BY <2>1, <2>2 DEF Mine
  <1>5. LedgerTypeOK'
    BY <1>3 DEF Shape, TypeOK, LedgerTypeOK, ledgerVars
  <1> QED
    BY <1>1, <1>3, <1>4, <1>5
    DEF Shape, TypeOK, ReqOK, OnChain, Op, requestVars, readVars

(* The stage, a retirement, an edited allowlist, a crash.                *)
LEMMA EnvironmentKeepsShape ==
  ASSUME Shape, Environment
  PROVE  Shape'
PROOF
  <1>1. CASE MoveStage
    BY <1>1 DEF MoveStage, SetStage, Shape, TypeOK, LedgerTypeOK, ReqOK,
       OnChain, Op, requestVars, readVars
  <1>2. CASE Retire
    BY <1>2 DEF Retire, Freeze, Shape, TypeOK, LedgerTypeOK, ReqOK,
       OnChain, Op, requestVars, readVars
  <1>3. CASE EditAllowlist
    BY <1>3 DEF EditAllowlist, Shape, TypeOK, LedgerTypeOK, ReqOK,
       OnChain, Op, requestVars, readVars, ledgerVars
  <1>4. CASE Crash
    <2>1. pc' \in [Requests -> Places]
          /\ \A r \in Requests : pc'[r] = "crashed" \/ pc'[r] = pc[r]
      BY <1>4 DEF Crash, Places, Shape, TypeOK
    <2>2. crashes' \in Nat
      BY <1>4 DEF Crash, Shape, TypeOK
    <2>3. \A r \in Requests : (pc'[r] = "idle") = (pc[r] = "idle")
      BY <1>4 DEF Crash, Active, Shape, TypeOK
    <2>4. memos' \subseteq Requests
      BY <1>4 DEF Crash, MemoOnly, Shape, TypeOK
    <2> QED
      BY <1>4, <2>1, <2>2, <2>3, <2>4 DEF Crash, Shape, TypeOK, LedgerTypeOK,
         ReqOK, OnChain, Op, readVars, ledgerVars
  <1> QED
    BY <1>1, <1>2, <1>3, <1>4 DEF Environment

(* The empty store of a fresh service.                                   *)
LEMMA InitShape == Init => Shape
PROOF
  <1> SUFFICES ASSUME Init PROVE Shape
    OBVIOUS
  <1>1. LedgerTypeOK
    BY DEF Init, LedgerInit, LedgerTypeOK
  <1>2. TypeOK
    BY <1>1, TreasuryAssumption DEF Init, TypeOK, LedgerTypeOK, NoReply, Places,
       Limits
  <1>3. ReqOK
    BY DEF Init, ReqOK, OnChain
  <1> QED
    BY <1>2, <1>3 DEF Shape

(* No step at all.                                                       *)
LEMMA StutterKeepsShape ==
  ASSUME Shape, UNCHANGED vars
  PROVE  Shape'
PROOF BY DEF vars, Shape, TypeOK, LedgerTypeOK, ReqOK, OnChain, Op, readVars,
         ledgerVars

(* The shape is inductive: every step keeps it.                          *)
LEMMA NextKeepsShape == Shape /\ [Next]_vars => Shape'
PROOF
  <1> SUFFICES ASSUME Shape, [Next]_vars PROVE Shape'
    OBVIOUS
  <1>1. CASE \E r \in Requests : Arrive(r)
    BY <1>1, ArriveKeepsShape
  <1>2. CASE \E r \in Requests : Handle(r)
    BY <1>2, QuietHandlerKeepsShape, LedgerStepKeepsShape DEF Handle
  <1>3. CASE \E r \in Requests : Mine(r)
    BY <1>3, MineKeepsShape
  <1>4. CASE Environment
    BY <1>4, EnvironmentKeepsShape
  <1>5. CASE UNCHANGED vars
    BY <1>5, StutterKeepsShape
  <1> QED
    BY <1>1, <1>2, <1>3, <1>4, <1>5 DEF Next, Rest

(* Every variable keeps its type, for any constants: in particular no      *)
(* balance, no stage_spend and no call_counts entry is ever negative.      *)
THEOREM TypeCorrect == Spec => []TypeOK
PROOF
  <1>1. Shape => TypeOK
    BY DEF Shape
  <1> QED
    BY <1>1, InitShape, NextKeepsShape, PTL DEF Spec

-----------------------------------------------------------------------------
(* One broadcast per intent.  Two requests of one intent are kept apart by *)
(* the row: a request that has reserved, up to its broadcast, and a request*)
(* that has broadcast, for ever, is the only one of its intent, and its row*)
(* stands.  This is stronger than the property: it also says where the     *)
(* requests are that have not broadcast yet.                               *)

Before == {"reserved", "funded", "signed"}
After  == {"sent", "awaiting", "rereading"}
Holds(r) == OnChain(r) \/ pc[r] \in Before

PlaceOK ==
  \A r \in Requests :
    /\ OnChain(r) => pc[r] \in After \cup {"done", "crashed"}
    /\ pc[r] \in After => OnChain(r)

Owned ==
  /\ \A r \in Requests : Holds(r) => rows[KeyOf(r)] # NoRow
  /\ \A r1, r2 \in Requests :
       Holds(r1) /\ Holds(r2) /\ KeyOf(r1) = KeyOf(r2) => r1 = r2

IInv == Shape /\ PlaceOK /\ Owned /\ RecordedHashIsItsOwn

Quiet(r) ==
  \/ Measure(r) \/ ReadStage(r) \/ Refuse(r)
  \/ RefuseOverCap(r) \/ AnswerReplay(r) \/ Prepare(r) \/ SweepFails(r)
  \/ CheckFloat(r) \/ TreasurySendFails(r)
  \/ BroadcastFails(r) \/ SendReceipt(r) \/ CallReceipt(r)
  \/ Reread(r) \/ ReceiptFails(r)

(* Steps after which no request holds an intent it did not hold before,    *)
(* and no transaction has left the chain.                                  *)
LEMMA HoldersShrink ==
  ASSUME IInv, UNCHANGED rows, PlaceOK',
         \A q \in Requests : OnChain(q) => OnChain(q)',
         \A q \in Requests : Holds(q)' => Holds(q),
         \A q \in Requests : Holds(q) => UNCHANGED req[q]
  PROVE  Owned' /\ RecordedHashIsItsOwn'
PROOF
  <1>1. \A q \in Requests : Holds(q) => KeyOf(q)' = KeyOf(q)
    BY DEF KeyOf
  <1>2. Owned'
    BY <1>1 DEF IInv, Owned
  <1>3. \A q \in Requests : OnChain(q) => Holds(q)
    BY DEF Holds
  <1>4. ASSUME NEW k \in Keys, rows'[k] # NoRow, rows'[k].tx # NoTx
        PROVE  (OnChain(rows[k].tx) /\ KeyOf(rows[k].tx) = k)'
    <2>1. rows[k] # NoRow /\ rows[k].tx # NoTx /\ rows'[k] = rows[k]
      BY <1>4
    <2>2. rows[k] \in Row
      BY <2>1 DEF IInv, Shape, TypeOK, LedgerTypeOK
    <2>3. rows[k].tx \in Requests
      BY <2>1, <2>2, TreasuryAssumption DEF Row
    <2>4. OnChain(rows[k].tx) /\ KeyOf(rows[k].tx) = k
      BY <2>1 DEF IInv, RecordedHashIsItsOwn
    <2> QED
      BY <2>1, <2>3, <2>4, <1>1, <1>3 DEF OnChain, KeyOf
  <1> QED
    BY <1>2, <1>4 DEF RecordedHashIsItsOwn

(* A handler that leaves the ledger and the chain alone.                 *)
LEMMA QuietKeepsOwner ==
  ASSUME IInv, NEW r \in Requests, Quiet(r)
  PROVE  PlaceOK' /\ Owned' /\ RecordedHashIsItsOwn'
PROOF
  <1> USE DEF IInv, Quiet
  <1>1. UNCHANGED <<rows, chain, req>>
    BY DEF Measure, ReadStage, Refuse, RefuseOverCap, AnswerReplay, Prepare,
       SweepFails, CheckFloat, TreasurySendFails, BroadcastFails, SendReceipt,
       CallReceipt, Reread, ReceiptFails, ledgerVars
  <1>2. \/ \E p \in {"admitted", "staged", "done"} : Goto(r, p)
        \/ pc[r] \in Before /\ \E p \in {"signed", "funded"} : Goto(r, p)
    BY DEF Measure, ReadStage, Refuse, RefuseOverCap, AnswerReplay, Prepare,
       SweepFails, CheckFloat, TreasurySendFails, BroadcastFails, SendReceipt,
       CallReceipt, Reread, ReceiptFails, Finish, At, Before
  <1>3. \/ pc[r] \in {"measuring", "admitted", "staged"} \cup Before
        \/ Goto(r, "done")
    BY DEF Measure, ReadStage, Refuse, RefuseOverCap, AnswerReplay, Prepare,
       SweepFails, CheckFloat, TreasurySendFails, BroadcastFails, SendReceipt,
       CallReceipt, Reread, ReceiptFails, Finish, At, Before, TreasuryTurn
  <1>4. PlaceOK'
    BY <1>1, <1>2, <1>3
    DEF PlaceOK, OnChain, Goto, After, Before, Shape, TypeOK
  <1>5. \A q \in Requests : Holds(q)' => Holds(q)
    BY <1>1, <1>2 DEF Holds, OnChain, Goto, Before, Shape, TypeOK
  <1> QED
    BY <1>1, <1>4, <1>5, HoldersShrink DEF OnChain

(* A reservation is taken under an id that nobody holds.                 *)
LEMMA ReservationKeepsOwner ==
  ASSUME IInv, NEW r \in Requests, TakeReservation(r)
  PROVE  PlaceOK' /\ Owned' /\ RecordedHashIsItsOwn'
PROOF
  <1> USE DEF IInv
  <1> DEFINE k == KeyOf(r)
  <1>1. /\ pc[r] = "staged" /\ Goto(r, "reserved")
        /\ UNCHANGED <<chain, req>> /\ rows[k] = NoRow
    BY DEF TakeReservation, At, Reserve, Duplicate
  <1>2. k \in Keys
    BY <1>1, RequestShape
  <1>3. rows'[k] # NoRow /\ rows'[k].tx = NoTx
        /\ \A j \in Keys : j # k => rows'[j] = rows[j]
    <2>1. LedgerTypeOK'
      BY LedgerStepKeepsShape DEF Shape, TypeOK
    <2>2. PICK new : rows' = [rows EXCEPT ![k] = new] /\ new.tx = NoTx
                     /\ new \in Row
      <3> DEFINE w == [stage |-> stageRead[r], amount |-> Reserved(r),
                       token |-> Tok(r), tx |-> NoTx,
                       held |-> IF StageCap(r) # NoStageCap
                                THEN Reserved(r) ELSE 0,
                       call |-> req[r].call,
                       counted |-> IsCounted(req[r].call, EntryLimit(r))]
      <3>1. rows' = [rows EXCEPT ![k] = w]
        BY DEF TakeReservation, Reserve
      <3>2. w \in Row
        BY <1>1, RequestShape DEF Row, IsCounted
      <3>3. w.tx = NoTx
        OBVIOUS
      <3> HIDE DEF w
      <3> QED
        BY <3>1, <3>2, <3>3
    <2> QED
      BY <1>2, <2>2, RowSentinelAssumption DEF Shape, TypeOK, LedgerTypeOK
  <1>4. PlaceOK'
    BY <1>1 DEF PlaceOK, OnChain, Goto, After, Before, Shape, TypeOK
  <1>5. ~Holds(r)
    BY <1>1 DEF Holds, Before, PlaceOK, After
  <1>6. \A q \in Requests : KeyOf(q)' = KeyOf(q)
    BY <1>1 DEF KeyOf
  <1>7. \A q \in Requests : q # r => Holds(q)' = Holds(q)
    BY <1>1 DEF Holds, OnChain, Goto, Before, Shape, TypeOK
  <1>8. \A q \in Requests : Holds(q) => KeyOf(q) \in Keys /\ KeyOf(q) # k
    <2> TAKE q \in Requests
    <2> HAVE Holds(q)
    <2>1. pc[q] # "idle"
      BY DEF Holds, Before, Shape, ReqOK
    <2> QED
      BY <1>1, <2>1, RequestShape DEF Owned
  <1>9. Owned'
    BY <1>3, <1>5, <1>6, <1>7, <1>8 DEF Owned
  <1>10. ASSUME NEW j \in Keys, rows'[j] # NoRow, rows'[j].tx # NoTx
         PROVE  (OnChain(rows[j].tx) /\ KeyOf(rows[j].tx) = j)'
    <2>1. j # k /\ rows'[j] = rows[j]
      BY <1>3, <1>10
    <2>2. OnChain(rows[j].tx) /\ KeyOf(rows[j].tx) = j
      BY <1>10, <2>1 DEF RecordedHashIsItsOwn
    <2> QED
      BY <1>1, <2>1, <2>2 DEF OnChain, KeyOf
  <1> QED
    BY <1>4, <1>9, <1>10 DEF RecordedHashIsItsOwn

(* A request that arrives holds nothing yet.                             *)
LEMMA ArriveKeepsOwner ==
  ASSUME IInv, NEW r \in Requests, Arrive(r)
  PROVE  PlaceOK' /\ Owned' /\ RecordedHashIsItsOwn'
PROOF
  <1> USE DEF IInv
  <1>1. /\ pc[r] = "idle" /\ UNCHANGED <<rows, chain>>
        /\ \E p \in {"measuring", "admitted", "done"} : Goto(r, p)
        /\ \E q \in Inputs : req' = [req EXCEPT ![r] = q]
    BY DEF Arrive, At, Finish, ledgerVars
  <1>2. ~OnChain(r)
    BY <1>1 DEF Shape, ReqOK
  <1>3. PlaceOK'
    BY <1>1, <1>2 DEF PlaceOK, OnChain, Goto, After, Shape, TypeOK
  <1>4. \A q \in Requests : Holds(q)' => Holds(q)
    BY <1>1 DEF Holds, OnChain, Goto, Before, Shape, TypeOK
  <1>5. \A q \in Requests : Holds(q) => UNCHANGED req[q]
    BY <1>1, <1>2 DEF Holds, Before, Shape, TypeOK
  <1> QED
    BY <1>1, <1>3, <1>4, <1>5, HoldersShrink DEF OnChain

(* The one step that takes a row away is taken by the request that holds   *)
(* the intent, and it has nothing on the chain.                            *)
LEMMA ReleaseKeepsOwner ==
  ASSUME IInv, NEW r \in Requests, PrepareFails(r)
  PROVE  PlaceOK' /\ Owned' /\ RecordedHashIsItsOwn'
PROOF
  <1> USE DEF IInv
  <1> DEFINE k == KeyOf(r)
  <1>1. /\ pc[r] = "reserved" /\ Goto(r, "done")
        /\ UNCHANGED <<chain, req>> /\ Release(k)
    BY DEF PrepareFails, At, Finish
  <1>2. k \in Keys /\ Holds(r) /\ ~OnChain(r)
    BY <1>1, RequestShape DEF Holds, Before, PlaceOK, After
  <1>3. \A j \in Keys : rows'[j] = rows[j] \/ (j = k /\ rows'[j] = NoRow)
    BY <1>1, <1>2 DEF Release, Releasable, ledgerVars, Shape, TypeOK, LedgerTypeOK
  <1>4. PlaceOK'
    BY <1>1, <1>2 DEF PlaceOK, OnChain, Goto, After, Before, Shape, TypeOK
  <1>5. \A q \in Requests : KeyOf(q)' = KeyOf(q)
    BY <1>1 DEF KeyOf
  <1>6. /\ ~Holds(r)'
        /\ \A q \in Requests : q # r => Holds(q)' = Holds(q)
    BY <1>1, <1>2 DEF Holds, OnChain, Goto, Before, Shape, TypeOK
  <1>7. \A q \in Requests : Holds(q)' => KeyOf(q) \in Keys /\ KeyOf(q) # k
    <2> TAKE q \in Requests
    <2> HAVE Holds(q)'
    <2>1. q # r /\ Holds(q)
      BY <1>6
    <2>2. pc[q] # "idle"
      BY <2>1 DEF Holds, Before, Shape, ReqOK
    <2>3. KeyOf(q) \in Keys
      BY <2>2, RequestShape
    <2> QED
      BY <1>2, <2>1, <2>3 DEF Owned
  <1>8. Owned'
    BY <1>3, <1>5, <1>6, <1>7 DEF Owned
  <1>9. ASSUME NEW j \in Keys, rows'[j] # NoRow, rows'[j].tx # NoTx
        PROVE  (OnChain(rows[j].tx) /\ KeyOf(rows[j].tx) = j)'
    <2>1. rows'[j] = rows[j]
      BY <1>3, <1>9
    <2>2. OnChain(rows[j].tx) /\ KeyOf(rows[j].tx) = j
      BY <1>9, <2>1 DEF RecordedHashIsItsOwn
    <2> QED
      BY <1>1, <2>1, <2>2 DEF OnChain, KeyOf
  <1> QED
    BY <1>4, <1>8, <1>9 DEF RecordedHashIsItsOwn

(* A broadcast is by the request that holds the intent.                  *)
LEMMA BroadcastKeepsOwner ==
  ASSUME IInv, NEW r \in Requests, Broadcast(r)
  PROVE  PlaceOK' /\ Owned' /\ RecordedHashIsItsOwn'
PROOF
  <1> USE DEF IInv
  <1>1. /\ pc[r] \in Before /\ Goto(r, "sent")
        /\ chain' = [chain EXCEPT ![r] = "pending"]
        /\ UNCHANGED <<rows, req>>
    BY DEF Broadcast, At, TreasuryTurn, Before, ledgerVars
  <1>2. PlaceOK'
    BY <1>1 DEF PlaceOK, OnChain, Goto, After, Before, Shape, TypeOK
  <1>3. \A q \in Requests : Holds(q)' => Holds(q)
    BY <1>1 DEF Holds, OnChain, Goto, Before, Shape, TypeOK
  <1>4. \A q \in Requests : OnChain(q) => OnChain(q)'
    BY <1>1 DEF OnChain, Shape, TypeOK
  <1> QED
    BY <1>1, <1>2, <1>3, <1>4, HoldersShrink

(* The two steps that record a hash record the request's own, on the row   *)
(* its broadcast kept standing.                                            *)
LEMMA RecordKeepsOwner ==
  ASSUME IInv, NEW r \in Requests, HashReturned(r) \/ PlatformReceipt(r)
  PROVE  PlaceOK' /\ Owned' /\ RecordedHashIsItsOwn'
PROOF
  <1> USE DEF IInv
  <1> DEFINE k == KeyOf(r)
  <1>1. /\ pc[r] \in After /\ UNCHANGED <<chain, req>>
        /\ \E p \in {"awaiting", "rereading", "done"} : Goto(r, p)
        /\ UNCHANGED rows \/ CompleteIntent(k, r)
    BY DEF HashReturned, PlatformReceipt, HasReceipt, At, Finish, After,
       ledgerVars
  <1>2. OnChain(r) /\ pc[r] # "idle"
    BY <1>1 DEF PlaceOK, After
  <1>3. k \in Keys /\ rows[k] # NoRow /\ rows[k] \in Row
    BY <1>2, RequestShape DEF Owned, Holds, Shape, TypeOK, LedgerTypeOK
  <1>4. PlaceOK'
    BY <1>1, <1>2 DEF PlaceOK, OnChain, Goto, After, Shape, TypeOK
  <1>5. \A q \in Requests : Holds(q)' = Holds(q) /\ KeyOf(q)' = KeyOf(q)
    BY <1>1, <1>2 DEF Holds, OnChain, Goto, Before, KeyOf, Shape, TypeOK
  <1>6. \A j \in Keys : rows'[j] = rows[j]
                        \/ (j = k /\ rows'[j] # NoRow /\ rows'[j].tx = r)
    <2>1. CASE UNCHANGED rows
      BY <2>1
    <2>2. CASE CompleteIntent(k, r)
      <3>1. PICK new : /\ new = [rows[k] EXCEPT !.tx = r]
                       /\ rows' = [rows EXCEPT ![k] = new]
        BY <1>3, <2>2 DEF CompleteIntent
      <3>2. new \in Row /\ new.tx = r
        BY <1>3, <3>1, TreasuryAssumption DEF Row
      <3> QED
        BY <3>1, <3>2, <1>3, RowSentinelAssumption
        DEF Shape, TypeOK, LedgerTypeOK
    <2> QED
      BY <1>1, <2>1, <2>2
  <1>7. \A q \in Requests : Holds(q) => KeyOf(q) \in Keys
    BY RequestShape DEF Holds, Before, Shape, ReqOK
  <1>8. Owned'
    BY <1>5, <1>6, <1>7 DEF Owned
  <1>9. ASSUME NEW j \in Keys, rows'[j] # NoRow, rows'[j].tx # NoTx
        PROVE  (OnChain(rows[j].tx) /\ KeyOf(rows[j].tx) = j)'
    <2>1. CASE rows'[j] = rows[j]
      <3>1. OnChain(rows[j].tx) /\ KeyOf(rows[j].tx) = j
        BY <1>9, <2>1 DEF RecordedHashIsItsOwn
      <3> QED
        BY <1>1, <2>1, <3>1 DEF OnChain, KeyOf
    <2>2. CASE j = k /\ rows'[j].tx = r
      BY <1>1, <1>2, <2>2 DEF OnChain, KeyOf
    <2> QED
      BY <1>6, <2>1, <2>2
  <1> QED
    BY <1>4, <1>8, <1>9 DEF RecordedHashIsItsOwn

(* The chain, the environment and stuttering give nobody an intent.      *)
LEMMA WorldKeepsOwner ==
  ASSUME IInv,
         Environment \/ (\E r \in Requests : Mine(r)) \/ UNCHANGED vars
  PROVE  PlaceOK' /\ Owned' /\ RecordedHashIsItsOwn'
PROOF
  <1> USE DEF IInv
  <1>1. UNCHANGED <<rows, req>>
    BY DEF Environment, MoveStage, Retire, EditAllowlist, Crash, Mine, vars,
       SetStage, Freeze, requestVars, ledgerVars
  <1>2. \A q \in Requests : OnChain(q)' = OnChain(q)
    BY DEF Environment, MoveStage, Retire, EditAllowlist, Crash, Mine, vars,
       OnChain, Shape, TypeOK
  <1>3. \A q \in Requests : pc'[q] = pc[q]
                             \/ (pc[q] \in Active /\ pc'[q] = "crashed")
    <2>1. CASE Crash
      BY <2>1 DEF Crash, Shape, TypeOK
    <2>2. CASE ~Crash
      BY <2>2 DEF Environment, MoveStage, Retire, EditAllowlist, Mine, vars,
         requestVars
    <2> QED
      BY <2>1, <2>2
  <1>4. PlaceOK'
    BY <1>2, <1>3 DEF PlaceOK, After
  <1>5. \A q \in Requests : Holds(q)' => Holds(q)
    BY <1>2, <1>3 DEF Holds, Before
  <1> QED
    BY <1>1, <1>2, <1>4, <1>5, HoldersShrink

(* At first nobody holds an intent.                                      *)
LEMMA InitOwner == Init => IInv
PROOF
  <1> SUFFICES ASSUME Init PROVE IInv
    OBVIOUS
  <1>1. Shape
    BY InitShape
  <1>2. \A r \in Requests : ~OnChain(r) /\ pc[r] = "idle"
    BY DEF Init, OnChain
  <1>3. \A k \in Keys : rows[k] = NoRow
    BY DEF Init, LedgerInit
  <1> QED
    BY <1>1, <1>2, <1>3
    DEF IInv, PlaceOK, Owned, Holds, Before, After, RecordedHashIsItsOwn

(* The whole invariant is inductive.                                     *)
LEMMA NextKeepsOwner == IInv /\ [Next]_vars => IInv'
PROOF
  <1> SUFFICES ASSUME IInv, [Next]_vars PROVE IInv'
    OBVIOUS
  <1>1. Shape'
    BY NextKeepsShape DEF IInv
  <1>2. PlaceOK' /\ Owned' /\ RecordedHashIsItsOwn'
    <2>1. CASE \E r \in Requests : Arrive(r)
      BY <2>1, ArriveKeepsOwner
    <2>2. CASE \E r \in Requests : Handle(r)
      BY <2>2, QuietKeepsOwner, ReservationKeepsOwner, ReleaseKeepsOwner,
         BroadcastKeepsOwner, RecordKeepsOwner DEF Handle, Quiet
    <2>3. CASE Environment \/ (\E r \in Requests : Mine(r)) \/ UNCHANGED vars
      BY <2>3, WorldKeepsOwner
    <2> QED
      BY <2>1, <2>2, <2>3 DEF Next, Rest
  <1> QED
    BY <1>1, <1>2 DEF IInv

(* It holds in every reachable state.                                    *)
LEMMA OwnerInvariant == Spec => []IInv
PROOF BY InitOwner, NextKeepsOwner, PTL DEF Spec

(* No interleaving, failure or crash puts two transactions on the chain    *)
(* for one intent of one wallet.                                           *)
THEOREM OneBroadcast == Spec => []OneBroadcastPerIntent
PROOF
  <1>1. IInv => OneBroadcastPerIntent
    BY DEF IInv, Owned, Holds, OneBroadcastPerIntent
  <1> QED
    BY <1>1, OwnerInvariant, PTL

(* A hash the ledger holds for an intent is a transaction that was sent    *)
(* for that intent: an answer replayed from it is never another's.         *)
THEOREM RecordedHash == Spec => []RecordedHashIsItsOwn
PROOF
  <1>1. IInv => RecordedHashIsItsOwn
    BY DEF IInv
  <1> QED
    BY <1>1, OwnerInvariant, PTL

-----------------------------------------------------------------------------
(* The service keeps what Intent.tla promises.  A step of the service      *)
(* takes an intent (TakeReservation), gives it back (PrepareFails), sends  *)
(* it out (Broadcast), learns its hash (HashReturned, PlatformReceipt), or *)
(* changes none of the three.                                              *)

Taken == {k \in Keys : rows[k] # NoRow}
Sent  == [k \in Keys |-> {r \in Requests : OnChain(r) /\ KeyOf(r) = k}]
Known == [k \in Keys |-> IF rows[k] = NoRow THEN {} ELSE {rows[k].tx} \ {NoTx}]

(* Unchanged rows: nothing taken, nothing learned.                       *)
LEMMA SameTables ==
  ASSUME UNCHANGED rows
  PROVE  Taken' = Taken /\ Known' = Known
PROOF BY DEF Taken, Known

(* Unchanged broadcasts: nothing sent.                                   *)
LEMMA SameChain ==
  ASSUME \A r \in Requests : OnChain(r)' = OnChain(r),
         \A r \in Requests : OnChain(r) => UNCHANGED req[r]
  PROVE  Sent' = Sent
PROOF BY DEF Sent, KeyOf

(* What a request that holds its intent knows of it.                       *)
LEMMA SentOfHolder ==
  ASSUME IInv, NEW r \in Requests, Holds(r)
  PROVE  /\ KeyOf(r) \in Keys /\ KeyOf(r) \in Taken
         /\ rows[KeyOf(r)] \in Row
         /\ Sent[KeyOf(r)] = IF OnChain(r) THEN {r} ELSE {}
         /\ rows[KeyOf(r)].tx \in {NoTx} \cup (IF OnChain(r) THEN {r} ELSE {})
PROOF
  <1> USE DEF IInv
  <1>1. pc[r] # "idle"
    BY DEF Holds, Before, Shape, ReqOK
  <1>2. KeyOf(r) \in Keys
    BY <1>1, RequestShape
  <1>3. rows[KeyOf(r)] # NoRow /\ rows[KeyOf(r)] \in Row
    BY <1>2 DEF Owned, Shape, TypeOK, LedgerTypeOK
  <1>4. \A q \in Requests : OnChain(q) /\ KeyOf(q) = KeyOf(r) => q = r
    BY DEF Owned, Holds
  <1>5. Sent[KeyOf(r)] = IF OnChain(r) THEN {r} ELSE {}
    BY <1>2, <1>4 DEF Sent
  <1>6. rows[KeyOf(r)].tx \in Hashes \cup {NoTx}
    BY <1>3 DEF Row
  <1>7. rows[KeyOf(r)].tx # NoTx => OnChain(r) /\ rows[KeyOf(r)].tx = r
    BY <1>2, <1>3, <1>4, <1>6, TreasuryAssumption DEF RecordedHashIsItsOwn
  <1> QED
    BY <1>2, <1>3, <1>5, <1>6, <1>7 DEF Taken

(* Every step of the service is a step of the promise, or none.          *)
LEMMA StepKeepsPromise ==
  ASSUME IInv, IInv', [Next]_vars
  PROVE  [Promise!Next]_Promise!vars
PROOF
  <1> USE DEF IInv
  <1> SUFFICES \/ Taken' = Taken /\ Sent' = Sent /\ Known' = Known
               \/ Promise!Next
    BY DEF Promise!vars, Taken, Sent, Known
  <1>1. CASE \E r \in Requests : Arrive(r)
    <2> PICK r \in Requests : Arrive(r)
      BY <1>1
    <2>1. /\ pc[r] = "idle" /\ UNCHANGED <<rows, chain>>
          /\ \E q \in Inputs : req' = [req EXCEPT ![r] = q]
      BY DEF Arrive, At, ledgerVars
    <2>2. ~OnChain(r)
      BY <2>1 DEF Shape, ReqOK
    <2>3. \A q \in Requests : OnChain(q) => UNCHANGED req[q]
      BY <2>1, <2>2 DEF Shape, TypeOK
    <2> QED
      BY <2>1, <2>3, SameTables, SameChain DEF OnChain
  <1>2. ASSUME NEW r \in Requests, Quiet(r)
        PROVE  Taken' = Taken /\ Sent' = Sent /\ Known' = Known
    <2>1. UNCHANGED <<rows, chain, req>>
      BY <1>2 DEF Quiet, Measure, ReadStage, Refuse, RefuseOverCap,
         AnswerReplay, Prepare, SweepFails, CheckFloat, TreasurySendFails,
         BroadcastFails, SendReceipt, CallReceipt, Reread, ReceiptFails,
         ledgerVars
    <2> QED
      BY <2>1, SameTables, SameChain DEF OnChain
  <1>3. ASSUME NEW r \in Requests, TakeReservation(r)
        PROVE  Promise!Next
    <2>0. KeyOf(r) \in Keys
      BY <1>3, RequestShape DEF TakeReservation, At
    <2> PICK k \in Keys : k = KeyOf(r)
      BY <2>0
    <2>1. /\ pc[r] = "staged" /\ pc'[r] = "reserved"
          /\ UNCHANGED <<chain, req>> /\ rows[k] = NoRow
          /\ \A j \in Keys : j # k => rows'[j] = rows[j]
      BY <1>3 DEF TakeReservation, At, Goto, Reserve, Duplicate, Shape, TypeOK,
         LedgerTypeOK
    <2>2. k \in Keys
      BY <2>1, RequestShape
    <2>3. k \notin Taken /\ Known[k] = {}
      BY <2>1, <2>2 DEF Taken, Known
    <2>4. Sent' = Sent
      BY <2>1, SameChain DEF OnChain
    <2>5. ~OnChain(r)' /\ Holds(r)'
      BY <2>1 DEF Holds, Before, PlaceOK, After, OnChain
    <2>6. KeyOf(r)' = k
      BY <2>1 DEF KeyOf
    <2>7. rows'[k] # NoRow /\ rows'[k].tx = NoTx
      <3>1. rows' [k] # NoRow
        BY <2>5, <2>6 DEF Owned
      <3>2. rows'[k] = [stage |-> stageRead[r], amount |-> Reserved(r),
                        token |-> Tok(r), tx |-> NoTx,
                        held |-> IF StageCap(r) # NoStageCap
                                 THEN Reserved(r) ELSE 0,
                        call |-> req[r].call,
                        counted |-> IsCounted(req[r].call, EntryLimit(r))]
        BY <1>3, <2>2 DEF TakeReservation, Reserve, Shape, TypeOK, LedgerTypeOK
      <3> QED
        BY <3>1, <3>2
    <2>8. Taken' = Taken \cup {k}
      BY <2>1, <2>2, <2>7 DEF Taken
    <2>9. Known' = Known
      BY <2>1, <2>2, <2>3, <2>7 DEF Known
    <2>10. Promise!Take(k)
      BY <2>3, <2>4, <2>8, <2>9 DEF Promise!Take, Taken, Sent, Known
    <2> QED
      BY <2>2, <2>10 DEF Promise!Next
  <1>4. ASSUME NEW r \in Requests, PrepareFails(r)
        PROVE  \/ Taken' = Taken /\ Sent' = Sent /\ Known' = Known
               \/ Promise!Next
    <2>0. KeyOf(r) \in Keys
      BY <1>4, RequestShape DEF PrepareFails, At
    <2> PICK k \in Keys : k = KeyOf(r)
      BY <2>0
    <2>1. /\ pc[r] = "reserved" /\ UNCHANGED <<chain, req>> /\ Release(k)
      BY <1>4 DEF PrepareFails, At
    <2>2. Holds(r) /\ ~OnChain(r)
      BY <2>1 DEF Holds, Before, PlaceOK, After
    <2>3. /\ k \in Keys /\ k \in Taken /\ rows[k] \in Row
          /\ Sent[k] = {} /\ rows[k].tx = NoTx
      BY <2>2, SentOfHolder
    <2>4. Sent' = Sent
      BY <2>1, SameChain DEF OnChain
    <2>5. rows' = [rows EXCEPT ![k] = NoRow]
      BY <2>1, <2>3 DEF Release, Releasable, Taken
    <2>6. Taken' = Taken \ {k}
      BY <2>3, <2>5 DEF Taken, Shape, TypeOK, LedgerTypeOK
    <2>7. Known' = Known
      BY <2>3, <2>5 DEF Known, Shape, TypeOK, LedgerTypeOK
    <2>8. Promise!GiveBack(k)
      BY <2>3, <2>4, <2>6, <2>7 DEF Promise!GiveBack, Taken, Sent, Known
    <2> QED
      BY <2>3, <2>8 DEF Promise!Next
  <1>5. ASSUME NEW r \in Requests, Broadcast(r)
        PROVE  Promise!Next
    <2>0. KeyOf(r) \in Keys
      BY <1>5, RequestShape DEF Broadcast, At, TreasuryTurn
    <2> PICK k \in Keys : k = KeyOf(r)
      BY <2>0
    <2>1. /\ pc[r] \in Before /\ UNCHANGED <<rows, req>>
          /\ chain' = [chain EXCEPT ![r] = "pending"]
      BY <1>5 DEF Broadcast, At, TreasuryTurn, Before, ledgerVars
    <2>2. Holds(r) /\ ~OnChain(r)
      BY <2>1 DEF Holds, Before, PlaceOK, After
    <2>3. k \in Keys /\ k \in Taken /\ Sent[k] = {}
      BY <2>2, SentOfHolder
    <2>4. \A q \in Requests : OnChain(q)' = (OnChain(q) \/ q = r)
      BY <2>1 DEF OnChain, Shape, TypeOK
    <2>5. Sent' = [Sent EXCEPT ![k] = {r}]
      <3>1. \A q \in Requests : KeyOf(q)' = KeyOf(q)
        BY <2>1 DEF KeyOf
      <3>2. \A j \in Keys : Sent'[j] = IF j = k THEN {r} ELSE Sent[j]
        BY <2>3, <2>4, <3>1 DEF Sent
      <3> QED
        BY <3>2 DEF Sent
    <2>6. r \in Hashes
      BY TreasuryAssumption
    <2>7. Promise!SendOut(k)
      BY <2>1, <2>3, <2>5, <2>6, SameTables
      DEF Promise!SendOut, Taken, Sent, Known
    <2> QED
      BY <2>3, <2>7 DEF Promise!Next
  <1>6. ASSUME NEW r \in Requests, HashReturned(r) \/ PlatformReceipt(r)
        PROVE  \/ Taken' = Taken /\ Sent' = Sent /\ Known' = Known
               \/ Promise!Next
    <2>0. KeyOf(r) \in Keys
      BY <1>6, RequestShape DEF HashReturned, PlatformReceipt, At, HasReceipt
    <2> PICK k \in Keys : k = KeyOf(r)
      BY <2>0
    <2>1. /\ pc[r] \in After /\ UNCHANGED <<chain, req>>
          /\ UNCHANGED rows \/ CompleteIntent(k, r)
      BY <1>6 DEF HashReturned, PlatformReceipt, HasReceipt, At, After,
         ledgerVars
    <2>2. OnChain(r) /\ Holds(r)
      BY <2>1 DEF Holds, PlaceOK
    <2>3. /\ k \in Keys /\ k \in Taken /\ rows[k] \in Row
          /\ Sent[k] = {r} /\ rows[k].tx \in {NoTx, r}
      BY <2>2, SentOfHolder
    <2>4. Sent' = Sent
      BY <2>1, SameChain DEF OnChain
    <2>5. CASE UNCHANGED rows
      BY <2>4, <2>5, SameTables
    <2>6. CASE CompleteIntent(k, r)
      <3>1. PICK new : /\ new = [rows[k] EXCEPT !.tx = r]
                       /\ rows' = [rows EXCEPT ![k] = new]
        BY <2>3, <2>6 DEF CompleteIntent, Taken
      <3>2. new \in Row /\ new.tx = r
        BY <2>3, <3>1, TreasuryAssumption DEF Row
      <3>3. \A j \in Keys : rows'[j] = IF j = k THEN new ELSE rows[j]
        BY <3>1 DEF Shape, TypeOK, LedgerTypeOK
      <3>4. Taken' = Taken
        BY <2>3, <3>2, <3>3, RowSentinelAssumption DEF Taken
      <3>5. \A j \in Keys : Known'[j] = IF j = k THEN {r} ELSE Known[j]
        BY <3>2, <3>3, RowSentinelAssumption, SentinelAssumption,
           TreasuryAssumption DEF Known
      <3>6. CASE rows[k].tx = r
        <4>1. Known[k] = {r}
          BY <2>3, <3>6, SentinelAssumption, TreasuryAssumption
          DEF Known, Taken
        <4>2. Known' = Known
          BY <3>5, <4>1 DEF Known
        <4> QED
          BY <2>4, <3>4, <4>2
      <3>7. CASE rows[k].tx = NoTx
        <4>1. Known[k] = {}
          BY <2>3, <3>7 DEF Known, Taken
        <4>2. Known' = [Known EXCEPT ![k] = Sent[k]]
          BY <2>3, <3>5 DEF Known
        <4>3. Promise!Learn(k)
          BY <2>3, <2>4, <3>4, <4>1, <4>2 DEF Promise!Learn, Taken, Sent, Known
        <4> QED
          BY <2>3, <4>3 DEF Promise!Next
      <3> QED
        BY <2>3, <3>6, <3>7
    <2> QED
      BY <2>1, <2>5, <2>6
  <1>7. CASE Environment \/ (\E r \in Requests : Mine(r)) \/ UNCHANGED vars
    <2>1. UNCHANGED <<rows, req>>
      BY <1>7 DEF Environment, MoveStage, Retire, EditAllowlist, Crash, Mine,
         vars, SetStage, Freeze, requestVars, ledgerVars
    <2>2. \A q \in Requests : OnChain(q)' = OnChain(q)
      BY <1>7 DEF Environment, MoveStage, Retire, EditAllowlist, Crash, Mine,
         vars, OnChain, Shape, TypeOK
    <2> QED
      BY <2>1, <2>2, SameTables, SameChain
  <1> QED
    BY <1>1, <1>2, <1>3, <1>4, <1>5, <1>6, <1>7 DEF Next, Rest, Handle, Quiet

(* The ledger, the handlers and the chain implement the promise of an      *)
(* intent id: taken once, given back only when nothing was sent, sent      *)
(* once, and its hash never changed or forgotten.                          *)
THEOREM PromiseKept == Spec => KeepsPromise
PROOF
  <1>1. Init => Promise!Init
    <2> SUFFICES ASSUME Init PROVE Promise!Init
      OBVIOUS
    <2>1. \A k \in Keys : rows[k] = NoRow
      BY DEF Init, LedgerInit
    <2>2. \A r \in Requests : ~OnChain(r)
      BY DEF Init, OnChain
    <2> QED
      BY <2>1, <2>2 DEF Promise!Init
  <1> QED
    BY <1>1, OwnerInvariant, StepKeepsPromise, PTL
    DEF Spec, KeepsPromise, Promise!Spec
-----------------------------------------------------------------------------
(* What the clients and the feed were told.  An answer and an event never  *)
(* change, so what they say must stay true: a hash is handed out when its  *)
(* transaction has been sent for the same intent, and a call is reported   *)
(* when the chain has decided it, or when its request is over without one. *)

ToldOK ==
  \A r \in Requests :
    reply[r].tx # NoTx =>
      /\ pc[r] # "idle"
      /\ OnChain(reply[r].tx) /\ KeyOf(reply[r].tx) = KeyOf(r)

FeedOK ==
  /\ FeedFollowsChain
  /\ \A e \in events : e[3] = "refused" => pc[e[2]] = "done"

(* A request keeps its body once it has arrived, a transaction stays on    *)
(* the chain, and a request never becomes one that has not arrived.        *)
LEMMA BodiesStand ==
  ASSUME IInv, [Next]_vars, NEW r \in Requests, pc[r] # "idle"
  PROVE  /\ UNCHANGED req[r] /\ KeyOf(r)' = KeyOf(r)
         /\ pc'[r] # "idle" /\ (OnChain(r) => OnChain(r)')
PROOF
  <1> USE DEF IInv
  <1>1. CASE \E q \in Requests : Arrive(q)
    <2> PICK q \in Requests : Arrive(q)
      BY <1>1
    <2>1. pc[q] = "idle" /\ UNCHANGED chain
          /\ (\E p \in Places : Goto(q, p))
          /\ \E b \in Inputs : req' = [req EXCEPT ![q] = b]
      BY DEF Arrive, At, Finish, Places
    <2> QED
      BY <2>1 DEF Goto, Shape, TypeOK, OnChain, KeyOf
  <1>2. ASSUME NEW q \in Requests, Handle(q)
        PROVE  /\ UNCHANGED req
               /\ \E p \in Places \ {"idle"} : Goto(q, p)
               /\ UNCHANGED chain \/ chain' = [chain EXCEPT ![q] = "pending"]
    BY <1>2 DEF Handle, Measure, ReadStage, Refuse, TakeReservation,
       RefuseOverCap, AnswerReplay, Prepare, PrepareFails, SweepFails,
       CheckFloat, TreasurySendFails, Broadcast, BroadcastFails, HashReturned,
       SendReceipt, CallReceipt, PlatformReceipt, Reread, ReceiptFails, Finish,
       Places
  <1>3. CASE \E q \in Requests : Handle(q)
    BY <1>2, <1>3 DEF Goto, Shape, TypeOK, OnChain, KeyOf
  <1>4. CASE Environment \/ (\E q \in Requests : Mine(q)) \/ UNCHANGED vars
    <2>1. UNCHANGED req /\ OnChain(r)' = OnChain(r)
      BY <1>4 DEF Environment, MoveStage, Retire, EditAllowlist, Crash, Mine,
         vars, SetStage, Freeze, requestVars, OnChain, Shape, TypeOK
    <2>2. pc'[r] # "idle"
      BY <1>4 DEF Environment, MoveStage, Retire, EditAllowlist, Crash, Mine,
         vars, requestVars, Shape, TypeOK
    <2> QED
      BY <2>1, <2>2 DEF KeyOf
  <1> QED
    BY <1>1, <1>3, <1>4 DEF Next, Rest

(* The answer of a step: none, or one whose hash, if it has one, was sent  *)
(* for the intent of the request that is answered.                         *)
LEMMA AnswersAreTheirOwn ==
  ASSUME IInv, [Next]_vars
  PROVE  \/ UNCHANGED reply
         \/ \E r \in Requests, c \in Codes, h \in Hashes \cup {NoTx} :
              /\ reply' = [reply EXCEPT ![r] = Answer(c, h)]
              /\ h # NoTx => /\ pc[r] # "idle" /\ OnChain(h)
                             /\ KeyOf(h) = KeyOf(r)
PROOF
  <1> USE DEF IInv
  <1>1. CASE \E r \in Requests : Arrive(r)
    BY <1>1 DEF Arrive, Finish, Codes
  <1>2. ASSUME NEW r \in Requests, AnswerReplay(r)
        PROVE  \E c \in Codes, h \in Hashes \cup {NoTx} :
                 /\ reply' = [reply EXCEPT ![r] = Answer(c, h)]
                 /\ h # NoTx => /\ pc[r] # "idle" /\ OnChain(h)
                                /\ KeyOf(h) = KeyOf(r)
    <2>1. pc[r] = "staged" /\ rows[KeyOf(r)] # NoRow
      BY <1>2 DEF AnswerReplay, At, Duplicate
    <2>2. KeyOf(r) \in Keys
      BY <2>1, RequestShape
    <2>3. rows[KeyOf(r)] \in Row
      BY <2>1, <2>2 DEF Shape, TypeOK, LedgerTypeOK
    <2>4. rows[KeyOf(r)].tx \in Hashes \cup {NoTx}
      BY <2>3 DEF Row
    <2>5. rows[KeyOf(r)].tx # NoTx =>
            OnChain(rows[KeyOf(r)].tx) /\ KeyOf(rows[KeyOf(r)].tx) = KeyOf(r)
      BY <2>1, <2>2 DEF RecordedHashIsItsOwn
    <2>6. \E c \in Codes, h \in {NoTx, rows[KeyOf(r)].tx} :
            reply' = [reply EXCEPT ![r] = Answer(c, h)]
      BY <1>2 DEF AnswerReplay, Finish, Codes
    <2> QED
      BY <2>1, <2>4, <2>5, <2>6
  <1>3. ASSUME NEW r \in Requests,
               SendReceipt(r) \/ CallReceipt(r) \/ PlatformReceipt(r) \/ Reread(r)
        PROVE  \/ UNCHANGED reply
               \/ \E c \in Codes, h \in Hashes \cup {NoTx} :
                    /\ reply' = [reply EXCEPT ![r] = Answer(c, h)]
                    /\ h # NoTx => /\ pc[r] # "idle" /\ OnChain(h)
                                   /\ KeyOf(h) = KeyOf(r)
    <2>1. pc[r] \in After
      BY <1>3 DEF SendReceipt, CallReceipt, PlatformReceipt, Reread, HasReceipt,
         At, After
    <2>2. OnChain(r) /\ pc[r] # "idle" /\ r \in Hashes
      BY <2>1, TreasuryAssumption DEF PlaceOK, After
    <2>3. \/ UNCHANGED reply
          \/ \E c \in Codes, h \in {NoTx, r} :
               reply' = [reply EXCEPT ![r] = Answer(c, h)]
      BY <1>3 DEF SendReceipt, CallReceipt, PlatformReceipt, Reread, Finish, Codes
    <2> QED
      BY <2>2, <2>3
  <1>4. ASSUME NEW r \in Requests, Handle(r), ~AnswerReplay(r),
               ~(SendReceipt(r) \/ CallReceipt(r) \/ PlatformReceipt(r)
                 \/ Reread(r))
        PROVE  \/ UNCHANGED reply
               \/ \E c \in Codes : reply' = [reply EXCEPT ![r] = Answer(c, NoTx)]
    BY <1>4 DEF Handle, Measure, ReadStage, Refuse, TakeReservation,
       RefuseOverCap, Prepare, PrepareFails, SweepFails,
       CheckFloat, TreasurySendFails, Broadcast, BroadcastFails, HashReturned,
       ReceiptFails, Finish, Codes
  <1>5. CASE \E r \in Requests : Handle(r)
    BY <1>2, <1>3, <1>4, <1>5
  <1>6. CASE Environment \/ (\E r \in Requests : Mine(r)) \/ UNCHANGED vars
    BY <1>6 DEF Environment, MoveStage, Retire, EditAllowlist, Crash, Mine,
       vars, requestVars
  <1> QED
    BY <1>1, <1>5, <1>6 DEF Next, Rest

(* So what the clients were told stays true.                               *)
LEMMA NextKeepsTold ==
  ASSUME IInv, ToldOK, [Next]_vars
  PROVE  ToldOK'
PROOF
  <1> SUFFICES ASSUME NEW q \in Requests, reply'[q].tx # NoTx
               PROVE  /\ pc'[q] # "idle" /\ OnChain(reply[q].tx)'
                      /\ KeyOf(reply[q].tx)' = KeyOf(q)'
    BY DEF ToldOK
  <1>1. /\ reply \in [Requests -> [code : Codes \cup {"none"},
                                  tx : Hashes \cup {NoTx}]]
        /\ reply' \in [Requests -> [code : Codes \cup {"none"},
                                   tx : Hashes \cup {NoTx}]]
    BY NextKeepsShape DEF IInv, Shape, TypeOK
  <1>2. reply'[q].tx \in Requests
    BY <1>1, TreasuryAssumption
  <1>3. /\ pc[q] # "idle" /\ OnChain(reply'[q].tx)
        /\ KeyOf(reply'[q].tx) = KeyOf(q)
    <2>1. CASE reply'[q] = reply[q]
      BY <2>1 DEF ToldOK
    <2>2. CASE reply'[q] # reply[q]
      <3> PICK r \in Requests, c \in Codes, h \in Hashes \cup {NoTx} :
            /\ reply' = [reply EXCEPT ![r] = Answer(c, h)]
            /\ h # NoTx => /\ pc[r] # "idle" /\ OnChain(h)
                           /\ KeyOf(h) = KeyOf(r)
        BY <2>2, AnswersAreTheirOwn
      <3>1. q = r /\ reply'[q].tx = h
        BY <1>1, <2>2 DEF Answer
      <3> QED
        BY <3>1
    <2> QED
      BY <2>1, <2>2
  <1> PICK h \in Requests : h = reply'[q].tx
    BY <1>2
  <1>4. OnChain(h) /\ KeyOf(h) = KeyOf(q)
    BY <1>3
  <1>5. pc[h] # "idle"
    BY <1>4 DEF IInv, Shape, ReqOK
  <1>6. OnChain(h)' /\ KeyOf(h)' = KeyOf(h)
    BY <1>4, <1>5, BodiesStand
  <1>7. pc'[q] # "idle" /\ KeyOf(q)' = KeyOf(q)
    BY <1>3, BodiesStand
  <1>8. OnChain(reply[q].tx)' /\ KeyOf(reply[q].tx)' = KeyOf(h)'
    BY <1>6 DEF OnChain, KeyOf
  <1> QED
    BY <1>4, <1>6, <1>7, <1>8

(* However a retry is interleaved with the first attempt, with failures,   *)
(* crashes and restarts, every hash a client is given for one intent is    *)
(* the same hash.                                                          *)
THEOREM ReplayAnswersAgree == Spec => []ReplayReturnsOriginalHash
PROOF
  <1>1. Init => ToldOK
    BY DEF Init, ToldOK, NoReply
  <1>2. IInv /\ ToldOK => ReplayReturnsOriginalHash
    <2> SUFFICES ASSUME IInv, ToldOK, NEW r1 \in Requests, NEW r2 \in Requests,
                        reply[r1].tx # NoTx, reply[r2].tx # NoTx,
                        KeyOf(r1) = KeyOf(r2)
                 PROVE  reply[r1].tx = reply[r2].tx
      BY DEF ReplayReturnsOriginalHash
    <2>1. reply[r1].tx \in Requests /\ reply[r2].tx \in Requests
      BY TreasuryAssumption DEF IInv, Shape, TypeOK
    <2>2. /\ OnChain(reply[r1].tx) /\ OnChain(reply[r2].tx)
          /\ KeyOf(reply[r1].tx) = KeyOf(reply[r2].tx)
      BY DEF ToldOK
    <2> QED
      BY <2>1, <2>2 DEF IInv, Owned, Holds
  <1> QED
    BY <1>1, <1>2, OwnerInvariant, NextKeepsTold, PTL DEF Spec

(* What the chain has decided stays decided, and a request that is over    *)
(* without a transaction never sends one.                                  *)
LEMMA ChainIsFinal ==
  ASSUME IInv, [Next]_vars, NEW r \in Requests
  PROVE  /\ chain[r] \in {"mined", "reverted"} => chain'[r] = chain[r]
         /\ pc[r] = "done" => pc'[r] = "done"
         /\ pc[r] = "done" /\ chain[r] = "none" => chain'[r] = "none"
PROOF
  <1> USE DEF IInv
  <1>1. CASE \E q \in Requests : Arrive(q)
    BY <1>1 DEF Arrive, At, Finish, Goto, Shape, TypeOK
  <1>2. ASSUME NEW q \in Requests, Handle(q)
        PROVE  /\ pc[q] # "done" /\ \E p \in Places : Goto(q, p)
               /\ \/ UNCHANGED chain
                  \/ ~OnChain(q) /\ chain' = [chain EXCEPT ![q] = "pending"]
    <2>1. CASE Broadcast(q)
      <3>1. pc[q] \in Before
        BY <2>1 DEF Broadcast, At, TreasuryTurn, Before
      <3>2. ~OnChain(q)
        BY <3>1 DEF PlaceOK, Before, After
      <3> QED
        BY <2>1, <3>1, <3>2 DEF Broadcast, Before, Places
    <2>2. CASE ~Broadcast(q)
      BY <1>2, <2>2 DEF Handle, Measure, ReadStage, Refuse, TakeReservation,
         RefuseOverCap, AnswerReplay, Prepare, PrepareFails, SweepFails,
         CheckFloat, TreasurySendFails, BroadcastFails, HashReturned,
         SendReceipt, CallReceipt, PlatformReceipt, Reread, ReceiptFails,
         Finish, At, HasReceipt, TreasuryTurn, Places
    <2> QED
      BY <2>1, <2>2
  <1>3. CASE \E q \in Requests : Handle(q)
    BY <1>2, <1>3 DEF Goto, OnChain, Shape, TypeOK
  <1>4. CASE Environment \/ (\E q \in Requests : Mine(q)) \/ UNCHANGED vars
    <2>1. CASE \E q \in Requests : Mine(q)
      BY <2>1 DEF Mine, requestVars, Shape, TypeOK
    <2>2. CASE Environment \/ UNCHANGED vars
      BY <2>2 DEF Environment, MoveStage, Retire, EditAllowlist, Crash,
         vars, requestVars, Active, Shape, TypeOK
    <2> QED
      BY <1>4, <2>1, <2>2
  <1> QED
    BY <1>1, <1>3, <1>4 DEF Next, Rest

(* What an event says is so when the event is written.                     *)
TrueEvent(e) ==
  /\ e[1] # "agent.spend" =>
       /\ e[3] = "ok" => chain[e[2]] = "mined"
       /\ e[3] = "reverted" => chain[e[2]] = "reverted"
       /\ e[3] = "refused" => ~OnChain(e[2])
  /\ e[1] = "agent.spend" => OnChain(e[2])
  /\ e[3] = "refused" => pc[e[2]] = "done"

LEMMA NewEventsAreTrue ==
  ASSUME IInv, [Next]_vars, NEW e \in events', e \notin events
  PROVE  TrueEvent(e)'
PROOF
  <1> USE DEF IInv
  <1>1. ASSUME NEW r \in Requests, SendReceipt(r)
        PROVE  TrueEvent(e)'
    <2>1. e = <<"agent.spend", r, "ok">> /\ pc[r] \in After /\ UNCHANGED chain
      BY <1>1 DEF SendReceipt, HasReceipt, At, After
    <2>2. OnChain(r)
      BY <2>1 DEF PlaceOK
    <2> QED
      BY <2>1, <2>2 DEF TrueEvent, OnChain
  <1>2. ASSUME NEW r \in Requests, CallReceipt(r)
        PROVE  TrueEvent(e)'
    <2>1. /\ UNCHANGED chain /\ chain[r] \in {"mined", "reverted"}
          /\ \E kind \in {"agent.call", "hub.call"} :
               e = IF chain[r] = "reverted" THEN <<kind, r, "reverted">>
                   ELSE <<kind, r, "ok">>
      BY <1>2 DEF CallReceipt, HasReceipt
    <2> QED
      BY <2>1 DEF TrueEvent
  <1>3. ASSUME NEW r \in Requests, TreasurySendFails(r)
        PROVE  TrueEvent(e)'
    <2>1. /\ e = <<"hub.call", r, "refused">> /\ UNCHANGED chain
          /\ pc[r] \in Before /\ Goto(r, "done")
      BY <1>3 DEF TreasurySendFails, TreasuryTurn, At, Before, Finish
    <2>2. ~OnChain(r)
      BY <2>1 DEF PlaceOK, Before, After
    <2>3. pc'[r] = "done"
      BY <2>1 DEF Goto, Shape, TypeOK
    <2> QED
      BY <2>1, <2>2, <2>3 DEF TrueEvent, OnChain
  <1>4. CASE \E r \in Requests : Handle(r)
    BY <1>1, <1>2, <1>3, <1>4 DEF Handle, Measure, ReadStage, Refuse,
       TakeReservation, RefuseOverCap, AnswerReplay, Prepare, PrepareFails,
       SweepFails, CheckFloat, Broadcast, BroadcastFails, HashReturned,
       PlatformReceipt, Reread, ReceiptFails
  <1>5. CASE ~(\E r \in Requests : Handle(r))
    BY <1>5 DEF Next, Rest, Arrive, Environment, MoveStage, Retire,
       EditAllowlist, Crash, Mine, vars, requestVars
  <1> QED
    BY <1>4, <1>5

LEMMA NextKeepsFeed ==
  ASSUME IInv, FeedOK, [Next]_vars
  PROVE  FeedOK'
PROOF
  <1>1. events \subseteq {"agent.spend", "agent.call", "hub.call"} \X Requests
                          \X {"ok", "reverted", "refused"}
    BY DEF IInv, Shape, TypeOK
  <1>2. ASSUME NEW e \in events
        PROVE  TrueEvent(e)'
    <2> PICK r \in Requests : r = e[2]
      BY <1>1, <1>2
    <2>1. TrueEvent(e)
      BY DEF FeedOK, FeedFollowsChain, TrueEvent
    <2>2. /\ chain[r] \in {"mined", "reverted"} => chain'[r] = chain[r]
          /\ pc[r] = "done" => pc'[r] = "done"
          /\ pc[r] = "done" /\ chain[r] = "none" => chain'[r] = "none"
      BY ChainIsFinal
    <2>3. OnChain(r) => OnChain(r)'
      BY BodiesStand DEF IInv, Shape, ReqOK
    <2> QED
      BY <2>1, <2>2, <2>3 DEF TrueEvent, OnChain
  <1>3. \A e \in events' : TrueEvent(e)'
    BY <1>2, NewEventsAreTrue
  <1> QED
    BY <1>3 DEF FeedOK, FeedFollowsChain, TrueEvent

(* The feed tells the truth about calls, for good: an ok event is a call   *)
(* the chain has mined, a reverted one a call it has reverted, a refused   *)
(* one a call that never reaches it, whatever races or crashes.            *)
THEOREM FeedIsTrue == Spec => []FeedFollowsChain
PROOF
  <1>1. Init => FeedOK
    BY DEF Init, FeedOK, FeedFollowsChain
  <1>2. FeedOK => FeedFollowsChain
    BY DEF FeedOK
  <1> QED
    BY <1>1, <1>2, OwnerInvariant, NextKeepsFeed, PTL DEF Spec

-----------------------------------------------------------------------------
(* The stage budget.  What a request that holds its intent will move is    *)
(* what its row says, until the row is given back; what the rows of a      *)
(* wallet, a stage and a token hold adds up to its stage_spend.            *)

Booking(r) ==
  [stage |-> stageRead[r], token |-> Tok(r),
   held |-> IF StageCap(r) # NoStageCap THEN Reserved(r) ELSE 0,
   call |-> req[r].call, counted |-> IsCounted(req[r].call, EntryLimit(r))]

(* Two rows, or a row and a booking, that differ in the hash alone.        *)
Books(row, b) ==
  /\ row.stage = b.stage /\ row.token = b.token /\ row.held = b.held
  /\ row.call = b.call /\ row.counted = b.counted

Booked == \A r \in Requests : Holds(r) => Books(rows[KeyOf(r)], Booking(r))

(* Steps that neither book nor release: at most a hash is recorded, and    *)
(* nobody takes an intent.                                                 *)
SameRows ==
  \A k \in Keys : /\ (rows'[k] = NoRow) = (rows[k] = NoRow)
                  /\ rows[k] # NoRow => Books(rows'[k], rows[k])
Calm ==
  /\ UNCHANGED <<spend, counts>> /\ SameRows
  /\ \A r \in Requests : Holds(r)' => Holds(r)

(* What a request was admitted with does not change while it holds.        *)
LEMMA HoldersAreFrozen ==
  ASSUME IInv, [Next]_vars, NEW r \in Requests, Holds(r)
  PROVE  /\ UNCHANGED <<req[r], stageRead[r], limitRead[r], balRead[r]>>
         /\ KeyOf(r)' = KeyOf(r) /\ Booking(r)' = Booking(r)
PROOF
  <1> USE DEF IInv
  <1>1. pc[r] \in Before \cup After \cup {"done", "crashed"}
    BY DEF Holds, PlaceOK
  <1>2. UNCHANGED <<req[r], stageRead[r], limitRead[r], balRead[r]>>
    <2>1. CASE \E q \in Requests : Arrive(q)
      BY <1>1, <2>1 DEF Arrive, At, Before, After, Shape, TypeOK
    <2>2. CASE \E q \in Requests : Measure(q) \/ ReadStage(q)
      BY <1>1, <2>2 DEF Measure, ReadStage, At, Before, After, Shape, TypeOK
    <2>3. ASSUME NEW q \in Requests, Handle(q), ~(Measure(q) \/ ReadStage(q))
          PROVE  UNCHANGED <<req, readVars>>
      BY <2>3 DEF Handle, Refuse, TakeReservation,
         RefuseOverCap, AnswerReplay, Prepare, PrepareFails, SweepFails,
         CheckFloat, TreasurySendFails, Broadcast, BroadcastFails,
         HashReturned, SendReceipt, CallReceipt, PlatformReceipt, Reread,
         ReceiptFails
    <2>4. CASE \E q \in Requests : Handle(q)
      BY <2>2, <2>3, <2>4 DEF readVars
    <2>5. CASE Environment \/ (\E q \in Requests : Mine(q)) \/ UNCHANGED vars
      BY <2>5 DEF Environment, MoveStage, Retire, EditAllowlist, Crash, Mine,
         vars, requestVars, readVars
    <2> QED
      BY <2>1, <2>4, <2>5 DEF Next, Rest
  <1> QED
    BY <1>2 DEF KeyOf, Booking, StageCap, Reserved, Moved, SweepsBack, Op, Tok,
       EntryLimit, IsCounted

(* The two steps that book and release are all that the budget sees.       *)
LEMMA StepKinds ==
  ASSUME IInv, [Next]_vars
  PROVE  \/ Calm
         \/ \E r \in Requests : TakeReservation(r)
         \/ \E r \in Requests : PrepareFails(r)
PROOF
  <1> USE DEF IInv
  <1>1. ASSUME UNCHANGED <<rows, spend, counts>>,
               \A r \in Requests : Holds(r)' => Holds(r)
        PROVE  Calm
    BY <1>1 DEF Calm, SameRows, Books
  <1>2. CASE \E r \in Requests : Arrive(r)
    <2>1. UNCHANGED <<rows, spend, counts, chain>>
          /\ \E r \in Requests : \E p \in {"measuring", "admitted", "done"} :
               Goto(r, p)
      BY <1>2 DEF Arrive, Finish, ledgerVars
    <2> QED
      BY <1>1, <2>1 DEF Holds, OnChain, Goto, Before, Shape, TypeOK
  <1>3. ASSUME NEW r \in Requests, Quiet(r)
        PROVE  Calm
    <2>1. UNCHANGED <<rows, spend, counts, chain>>
      BY <1>3 DEF Quiet, Measure, ReadStage, Refuse, RefuseOverCap,
         AnswerReplay, Prepare, SweepFails, CheckFloat, TreasurySendFails,
         BroadcastFails, SendReceipt, CallReceipt, Reread, ReceiptFails,
         ledgerVars
    <2>2. \/ \E p \in {"admitted", "staged", "done"} : Goto(r, p)
          \/ pc[r] \in Before /\ \E p \in {"signed", "funded"} : Goto(r, p)
      BY <1>3 DEF Quiet, Measure, ReadStage, Refuse, RefuseOverCap,
         AnswerReplay, Prepare, SweepFails, CheckFloat, TreasurySendFails,
         BroadcastFails, SendReceipt, CallReceipt, Reread, ReceiptFails,
         Finish, At, Before
    <2> QED
      BY <1>1, <2>1, <2>2 DEF Holds, OnChain, Goto, Before, Shape, TypeOK
  <1>4. ASSUME NEW r \in Requests, Broadcast(r)
        PROVE  Calm
    <2>1. /\ UNCHANGED <<rows, spend, counts>> /\ pc[r] \in Before
          /\ Goto(r, "sent") /\ chain' = [chain EXCEPT ![r] = "pending"]
      BY <1>4 DEF Broadcast, At, TreasuryTurn, Before, ledgerVars
    <2> QED
      BY <1>1, <2>1 DEF Holds, OnChain, Goto, Before, Shape, TypeOK
  <1>5. ASSUME NEW r \in Requests, HashReturned(r) \/ PlatformReceipt(r)
        PROVE  Calm
    <2>1. /\ pc[r] \in After /\ UNCHANGED <<chain, spend, counts>>
          /\ \E p \in {"awaiting", "rereading", "done"} : Goto(r, p)
          /\ UNCHANGED rows \/ CompleteIntent(KeyOf(r), r)
      BY <1>5 DEF HashReturned, PlatformReceipt, HasReceipt, At, Finish, After,
         CompleteIntent, ledgerVars
    <2>2. \A q \in Requests : Holds(q)' => Holds(q)
      BY <2>1 DEF Holds, OnChain, Goto, Before, Shape, TypeOK
    <2>3. CASE UNCHANGED rows
      BY <1>1, <2>1, <2>2, <2>3
    <2>4. CASE CompleteIntent(KeyOf(r), r)
      <3>1. OnChain(r) /\ pc[r] # "idle"
        BY <2>1 DEF PlaceOK, After
      <3> PICK k \in Keys : k = KeyOf(r)
        BY <3>1, RequestShape
      <3>2. rows[k] # NoRow /\ rows[k] \in Row
        BY <3>1 DEF Owned, Holds, Shape, TypeOK, LedgerTypeOK
      <3>3. PICK new : /\ new = [rows[k] EXCEPT !.tx = r]
                       /\ rows' = [rows EXCEPT ![k] = new]
        BY <2>4, <3>2 DEF CompleteIntent
      <3>4. new \in Row /\ Books(new, rows[k])
        BY <3>2, <3>3, TreasuryAssumption DEF Row, Books
      <3>5. \A j \in Keys : rows'[j] = IF j = k THEN new ELSE rows[j]
        BY <3>3 DEF Shape, TypeOK, LedgerTypeOK
      <3>6. SameRows
        BY <3>2, <3>4, <3>5, RowSentinelAssumption DEF SameRows, Books
      <3> QED
        BY <2>1, <2>2, <3>6 DEF Calm
    <2> QED
      BY <2>1, <2>3, <2>4
  <1>6. CASE Environment \/ (\E r \in Requests : Mine(r)) \/ UNCHANGED vars
    <2>1. UNCHANGED <<rows, spend, counts>>
      BY <1>6 DEF Environment, MoveStage, Retire, EditAllowlist, Crash, Mine,
         vars, SetStage, Freeze, requestVars, ledgerVars
    <2>2. \A q \in Requests : OnChain(q)' = OnChain(q)
      BY <1>6 DEF Environment, MoveStage, Retire, EditAllowlist, Crash, Mine,
         vars, OnChain, Shape, TypeOK
    <2>3. \A q \in Requests : pc'[q] = pc[q] \/ pc'[q] = "crashed"
      BY <1>6 DEF Environment, MoveStage, Retire, EditAllowlist, Crash, Mine,
         vars, requestVars, Shape, TypeOK
    <2> QED
      BY <1>1, <2>1, <2>2, <2>3 DEF Holds, Before
  <1> QED
    BY <1>2, <1>3, <1>4, <1>5, <1>6 DEF Next, Rest, Handle, Quiet

(* A reservation books what the request will move, under an id that was    *)
(* free.                                                                   *)
LEMMA ReservationBooks ==
  ASSUME IInv, NEW r \in Requests, TakeReservation(r)
  PROVE  /\ KeyOf(r) \in Keys /\ rows[KeyOf(r)] = NoRow
         /\ ~Holds(r) /\ UNCHANGED <<req, readVars, allowlist>>
         /\ \A q \in Requests : q # r => (Holds(q)' = Holds(q))
         /\ \E new \in Row :
              /\ Books(new, Booking(r)) /\ rows' = [rows EXCEPT ![KeyOf(r)] = new]
              /\ \A j \in Keys : rows'[j] = IF j = KeyOf(r) THEN new ELSE rows[j]
PROOF
  <1> USE DEF IInv
  <1> DEFINE k == KeyOf(r)
             new == [stage |-> stageRead[r], amount |-> Reserved(r),
                     token |-> Tok(r), tx |-> NoTx,
                     held |-> IF StageCap(r) # NoStageCap THEN Reserved(r) ELSE 0,
                     call |-> req[r].call,
                     counted |-> IsCounted(req[r].call, EntryLimit(r))]
  <1>1. /\ pc[r] = "staged" /\ Goto(r, "reserved") /\ rows[k] = NoRow
        /\ UNCHANGED <<req, readVars, chain, allowlist>>
    BY DEF TakeReservation, At, Reserve, Duplicate, sideVars
  <1>2. k \in Keys
    BY <1>1, RequestShape
  <1>3. ~Holds(r)
    BY <1>1 DEF Holds, Before, PlaceOK, After
  <1>4. \A q \in Requests : q # r => (Holds(q)' = Holds(q))
    BY <1>1 DEF Holds, OnChain, Goto, Before, Shape, TypeOK
  <1>5. rows' = [rows EXCEPT ![k] = new]
    BY DEF TakeReservation, Reserve
  <1>6. new \in Row
    BY <1>1, RequestShape DEF Row, IsCounted
  <1>7. Books(new, Booking(r))
    BY DEF Books, Booking
  <1> HIDE DEF new, k
  <1>8. \A j \in Keys : rows'[j] = IF j = k THEN new ELSE rows[j]
    BY <1>5 DEF Shape, TypeOK, LedgerTypeOK
  <1> QED
    BY <1>1, <1>2, <1>3, <1>4, <1>5, <1>6, <1>7, <1>8 DEF k

(* A release erases the row of the request that holds it.                  *)
LEMMA ReleaseErases ==
  ASSUME IInv, NEW r \in Requests, PrepareFails(r)
  PROVE  /\ KeyOf(r) \in Keys /\ rows[KeyOf(r)] \in Row
         /\ Releasable(KeyOf(r)) /\ Op(r) \in {"send", "call"}
         /\ Holds(r) /\ ~Holds(r)' /\ UNCHANGED <<req, readVars, allowlist>>
         /\ \A q \in Requests : q # r => (Holds(q)' = Holds(q))
         /\ \A j \in Keys : rows'[j] = IF j = KeyOf(r) THEN NoRow ELSE rows[j]
PROOF
  <1> USE DEF IInv
  <1>1. /\ pc[r] = "reserved" /\ Goto(r, "done") /\ Release(KeyOf(r))
        /\ UNCHANGED <<req, readVars, chain, allowlist>>
        /\ Op(r) \in {"send", "call"}
    BY DEF PrepareFails, At, Finish, sideVars
  <1>2. Holds(r) /\ ~OnChain(r)
    BY <1>1 DEF Holds, Before, PlaceOK, After
  <1> PICK k \in Keys : k = KeyOf(r)
    BY <1>1, RequestShape
  <1>3. rows[k] \in Row /\ Releasable(k)
    BY <1>2, SentOfHolder DEF Taken, Releasable
  <1>4. \A j \in Keys : rows'[j] = IF j = k THEN NoRow ELSE rows[j]
    BY <1>1, <1>3 DEF Release, Shape, TypeOK, LedgerTypeOK
  <1>5. ~Holds(r)' /\ \A q \in Requests : q # r => (Holds(q)' = Holds(q))
    BY <1>1, <1>2 DEF Holds, OnChain, Goto, Before, Shape, TypeOK
  <1> QED
    BY <1>1, <1>2, <1>3, <1>4, <1>5

(* A row says what its holder will move, in every step.                    *)
LEMMA NextKeepsBooked ==
  ASSUME IInv, Booked, [Next]_vars
  PROVE  Booked'
PROOF
  <1> USE DEF IInv
  <1>1. ASSUME NEW q \in Requests, Holds(q)
        PROVE  /\ KeyOf(q) \in Keys /\ rows[KeyOf(q)] # NoRow
               /\ KeyOf(q)' = KeyOf(q) /\ Booking(q)' = Booking(q)
               /\ Books(rows[KeyOf(q)], Booking(q))
    BY <1>1, HoldersAreFrozen, SentOfHolder DEF Booked, Owned
  <1>2. CASE Calm
    <2> SUFFICES ASSUME NEW q \in Requests, Holds(q)'
                 PROVE  Books(rows'[KeyOf(q)'], Booking(q)')
      BY DEF Booked, Books
    <2>1. Holds(q)
      BY <1>2 DEF Calm
    <2>2. Books(rows'[KeyOf(q)], rows[KeyOf(q)])
      BY <1>1, <1>2, <2>1 DEF Calm, SameRows
    <2> QED
      BY <1>1, <2>1, <2>2 DEF Books
  <1>3. CASE \E r \in Requests : TakeReservation(r)
    <2> PICK r \in Requests : TakeReservation(r)
      BY <1>3
    <2> PICK new \in Row :
          /\ Books(new, Booking(r))
          /\ \A j \in Keys : rows'[j] = IF j = KeyOf(r) THEN new ELSE rows[j]
      BY ReservationBooks
    <2>1. /\ KeyOf(r) \in Keys /\ rows[KeyOf(r)] = NoRow
          /\ UNCHANGED <<req, readVars>>
          /\ \A q \in Requests : q # r => (Holds(q)' = Holds(q))
      BY ReservationBooks
    <2>2. KeyOf(r)' = KeyOf(r) /\ Booking(r)' = Booking(r)
      BY <2>1 DEF KeyOf, Booking, StageCap, Reserved, Moved, SweepsBack, Op,
         Tok, EntryLimit, IsCounted, readVars
    <2> SUFFICES ASSUME NEW q \in Requests, Holds(q)'
                 PROVE  Books(rows'[KeyOf(q)'], Booking(q)')
      BY DEF Booked, Books
    <2>3. CASE q = r
      BY <2>1, <2>2, <2>3
    <2>4. CASE q # r
      <3>1. Holds(q) /\ KeyOf(q) # KeyOf(r)
        BY <1>1, <2>1, <2>4
      <3> QED
        BY <1>1, <3>1
    <2> QED
      BY <2>3, <2>4
  <1>4. CASE \E r \in Requests : PrepareFails(r)
    <2> PICK r \in Requests : PrepareFails(r)
      BY <1>4
    <2>1. /\ Holds(r) /\ ~Holds(r)'
          /\ \A q \in Requests : q # r => (Holds(q)' = Holds(q))
          /\ \A j \in Keys : rows'[j] = IF j = KeyOf(r) THEN NoRow ELSE rows[j]
      BY ReleaseErases
    <2> SUFFICES ASSUME NEW q \in Requests, Holds(q)'
                 PROVE  Books(rows'[KeyOf(q)'], Booking(q)')
      BY DEF Booked, Books
    <2>2. q # r /\ Holds(q)
      BY <2>1
    <2>3. KeyOf(q) # KeyOf(r)
      BY <2>1, <2>2 DEF Owned
    <2> QED
      BY <1>1, <2>1, <2>2, <2>3
  <1> QED
    BY <1>2, <1>3, <1>4, StepKinds

(* At first nobody holds anything.                                         *)
LEMMA InitBooked == Init => Booked
PROOF BY DEF Init, Booked, Holds, OnChain, Before

(* Nothing that may have moved money gives budget back: as long as a       *)
(* wallet's send or call is on the chain, a row holds what it moves, in    *)
(* the stage and the token it was booked in.                               *)
THEOREM SpendsStayBooked == Spec => []OnChainIsBooked
PROOF
  <1>1. IInv /\ Booked => OnChainIsBooked
    BY DEF Booked, Books, Booking, OnChainIsBooked, Holds, StageCap, Reserved,
       Op
  <1> QED
    BY <1>1, OwnerInvariant, InitBooked, NextKeepsBooked, PTL DEF Spec

-----------------------------------------------------------------------------
(* What a table of rows holds, and how one row more changes it.            *)

Tables == [Keys -> Row \cup {NoRow}]
StandingIn(R) == {k \in Keys : R[k] # NoRow}
BucketIn(R, w, s, t) ==
  {k \in StandingIn(R) : k[1] = w /\ R[k].stage = s /\ R[k].token = t}
HeldIn(R, w, s, t) == SumFunction([k \in BucketIn(R, w, s, t) |-> R[k].held])

(* Q is R with a row under k, where R has none.                            *)
OneMore(R, Q, k) ==
  /\ R \in Tables /\ Q \in Tables /\ k \in Keys
  /\ R[k] = NoRow /\ Q[k] # NoRow
  /\ \A j \in Keys : j # k => Q[j] = R[j]

LEMMA HeldIsOfTheTable ==
  ASSUME NEW w, NEW s, NEW t
  PROVE  /\ Held(w, s, t) = HeldIn(rows, w, s, t)
         /\ Held(w, s, t)' = HeldIn(rows', w, s, t)
PROOF
  <1>1. {j \in LiveRows(w, s) : rows[j].token = t} = BucketIn(rows, w, s, t)
    BY DEF LiveRows, BucketIn, StandingIn
  <1>2. {j \in LiveRows(w, s) : rows[j].token = t}' = BucketIn(rows', w, s, t)
    BY DEF LiveRows, BucketIn, StandingIn
  <1> QED
    BY <1>1, <1>2 DEF Held, HeldIn

(* One row more stands.                                                    *)
LEMMA StandingGains ==
  ASSUME NEW R, NEW Q, NEW k, OneMore(R, Q, k)
  PROVE  /\ StandingIn(Q) = StandingIn(R) \cup {k} /\ k \notin StandingIn(R)
         /\ IsFiniteSet(StandingIn(Q)) = IsFiniteSet(StandingIn(R))
PROOF
  <1>1. /\ StandingIn(Q) = StandingIn(R) \cup {k} /\ k \notin StandingIn(R)
        /\ StandingIn(R) = StandingIn(Q) \ {k}
    BY DEF OneMore, StandingIn
  <1>2. IsFiniteSet(StandingIn(R)) => IsFiniteSet(StandingIn(Q))
    BY <1>1, FS_AddElement
  <1>3. IsFiniteSet(StandingIn(Q)) => IsFiniteSet(StandingIn(R))
    BY <1>1, FS_RemoveElement
  <1>4. IsFiniteSet(StandingIn(Q)) \in BOOLEAN
        /\ IsFiniteSet(StandingIn(R)) \in BOOLEAN
    BY DEF IsFiniteSet
  <1> QED
    BY <1>1, <1>2, <1>3, <1>4

(* It adds what it holds to its own wallet, stage and token.               *)
LEMMA HeldGains ==
  ASSUME NEW R, NEW Q, NEW k, OneMore(R, Q, k), IsFiniteSet(StandingIn(R)),
         NEW w, NEW s, NEW t
  PROVE  /\ HeldIn(R, w, s, t) \in Nat
         /\ HeldIn(Q, w, s, t) =
              IF k[1] = w /\ Q[k].stage = s /\ Q[k].token = t
              THEN HeldIn(R, w, s, t) + Q[k].held ELSE HeldIn(R, w, s, t)
PROOF
  <1> DEFINE A == BucketIn(R, w, s, t)
             B == BucketIn(Q, w, s, t)
             f == [j \in A |-> R[j].held]
             g == [j \in B |-> Q[j].held]
  <1>1. /\ \A j \in StandingIn(R) : R[j] \in Row /\ Q[j] = R[j] /\ j # k
        /\ StandingIn(Q) = StandingIn(R) \cup {k} /\ Q[k] \in Row
    BY StandingGains DEF OneMore, Tables, StandingIn
  <1>2. \A j \in A : R[j].held \in Nat
    BY <1>1 DEF BucketIn, Row
  <1>3. \A j \in B : Q[j].held \in Nat
    BY <1>1 DEF BucketIn, Row
  <1>4. k \notin A /\ IsFiniteSet(A)
    BY <1>1, FS_Subset DEF BucketIn
  <1>5. B = IF k[1] = w /\ Q[k].stage = s /\ Q[k].token = t
            THEN A \cup {k} ELSE A
    BY <1>1 DEF BucketIn
  <1>6. \A j \in A : j \in B /\ Q[j].held = R[j].held
    BY <1>1, <1>5 DEF BucketIn
  <1>7. HeldIn(R, w, s, t) = SumFunction(f) /\ HeldIn(Q, w, s, t) = SumFunction(g)
    BY DEF HeldIn
  <1> HIDE DEF A, B
  <1>8. f \in [A -> Nat] /\ g \in [B -> Nat] /\ \A j \in A : g[j] = f[j]
    BY <1>2, <1>3, <1>6
  <1>9. SumFunction(f) \in Nat
    <2>1. SumFunctionOnSet(f, A) \in Nat
      BY <1>4, <1>8, SumIsNat
    <2> QED
      BY <1>8, <2>1 DEF SumFunction
  <1>10. CASE k[1] = w /\ Q[k].stage = s /\ Q[k].token = t
    <2>1. B = A \cup {k} /\ g[k] = Q[k].held
      BY <1>5, <1>10
    <2> HIDE DEF f, g
    <2>2. SumFunction(g) = SumFunction(f) + g[k]
      BY <1>4, <1>8, <2>1, SumGains
    <2> QED
      BY <1>7, <1>9, <1>10, <2>1, <2>2
  <1>11. CASE ~(k[1] = w /\ Q[k].stage = s /\ Q[k].token = t)
    <2>1. B = A
      BY <1>5, <1>11
    <2>2. g = f
      BY <1>6, <2>1
    <2> QED
      BY <1>7, <1>9, <1>11, <2>2
  <1> QED
    BY <1>10, <1>11

-----------------------------------------------------------------------------
(* stage_spend, and the policy cap it is held against at the reservation   *)

SpendWithinCap ==
  \A w \in Agents, s \in Stages, t \in Tokens :
    Cap[<<w, t>>] \in Nat => spend[<<w, s, t>>] <= Cap[<<w, t>>]

BudgetOK ==
  /\ IsFiniteSet(StandingIn(rows)) /\ StageSpendExact /\ SpendWithinCap

(* A calm step.                                                            *)
LEMMA CalmKeepsBudget ==
  ASSUME IInv, BudgetOK, Calm
  PROVE  BudgetOK'
PROOF
  <1>1. StandingIn(rows') = StandingIn(rows)
    BY DEF Calm, SameRows, StandingIn
  <1>2. \A k \in StandingIn(rows) :
          rows'[k].stage = rows[k].stage /\ rows'[k].token = rows[k].token
          /\ rows'[k].held = rows[k].held
    BY DEF Calm, SameRows, StandingIn, Books
  <1>3. ASSUME NEW w, NEW s, NEW t
        PROVE  HeldIn(rows', w, s, t) = HeldIn(rows, w, s, t)
    <2>1. BucketIn(rows', w, s, t) = BucketIn(rows, w, s, t)
      BY <1>1, <1>2 DEF BucketIn
    <2>2. \A k \in BucketIn(rows, w, s, t) : rows'[k].held = rows[k].held
      BY <1>2 DEF BucketIn
    <2> QED
      BY <2>1, <2>2 DEF HeldIn
  <1>4. \A w, s, t : Held(w, s, t)' = HeldIn(rows', w, s, t)
    BY HeldIsOfTheTable
  <1>5. \A w, s, t : Held(w, s, t) = HeldIn(rows, w, s, t)
    BY HeldIsOfTheTable
  <1> QED
    BY <1>1, <1>3, <1>4, <1>5 DEF BudgetOK, Calm, StageSpendExact,
       SpendWithinCap, StandingIn

(* A reservation spends what its row holds, and no more than the cap left. *)
LEMMA ReservationKeepsBudget ==
  ASSUME IInv, BudgetOK, NEW r \in Requests, TakeReservation(r)
  PROVE  BudgetOK'
PROOF
  <1> PICK k \in Keys : k = KeyOf(r)
    BY ReservationBooks
  <1> PICK new \in Row :
        /\ Books(new, Booking(r))
        /\ \A j \in Keys : rows'[j] = IF j = k THEN new ELSE rows[j]
    BY ReservationBooks
  <1>1. /\ rows[k] = NoRow /\ rows'[k] = new /\ pc[r] = "staged"
        /\ rows \in Tables /\ rows' \in Tables
    BY ReservationBooks DEF TakeReservation, At, IInv, Shape, TypeOK,
       LedgerTypeOK, Tables
  <1>2. OneMore(rows, rows', k)
    BY <1>1, RowSentinelAssumption DEF OneMore
  <1>3. IsFiniteSet(StandingIn(rows))
    BY DEF BudgetOK
  <1>4. IsFiniteSet(StandingIn(rows'))
    BY <1>2, <1>3, StandingGains
  <1>5. /\ Tok(r) \in Tokens /\ stageRead[r] \in Stages /\ Reserved(r) \in Nat
        /\ StageCap(r) \in StageCaps /\ k[1] \in Principals
        /\ k[1] = req[r].wallet
    BY <1>1, RequestShape DEF IInv
  <1> DEFINE x == <<k[1], stageRead[r], Tok(r)>>
  <1>6. /\ new.stage = stageRead[r] /\ new.token = Tok(r)
        /\ new.held = IF StageCap(r) # NoStageCap THEN Reserved(r) ELSE 0
    BY DEF Books, Booking
  <1>7. /\ spend \in [Principals \X Stages \X Tokens -> Nat]
        /\ spend' = IF StageCap(r) # NoStageCap
                    THEN [spend EXCEPT ![x] = @ + Reserved(r)] ELSE spend
        /\ ~OverAmount(k[1], stageRead[r], Tok(r), Reserved(r), StageCap(r))
    BY DEF TakeReservation, Reserve, OverStageCap, IInv, Shape, TypeOK,
       LedgerTypeOK
  <1>8. \A y \in Principals \X Stages \X Tokens :
          spend'[y] = IF y = x THEN spend[y] + new.held ELSE spend[y]
    BY <1>5, <1>6, <1>7
  <1>9. StageSpendExact'
    <2> SUFFICES ASSUME NEW w \in Principals, NEW s \in Stages, NEW t \in Tokens
                 PROVE  spend'[<<w, s, t>>] = Held(w, s, t)'
      BY DEF StageSpendExact
    <2>0. Held(w, s, t)' = HeldIn(rows', w, s, t)
      BY HeldIsOfTheTable
    <2>1. spend[<<w, s, t>>] = HeldIn(rows, w, s, t)
      BY HeldIsOfTheTable DEF BudgetOK, StageSpendExact
    <2>2. HeldIn(rows', w, s, t) =
            IF k[1] = w /\ new.stage = s /\ new.token = t
            THEN HeldIn(rows, w, s, t) + new.held ELSE HeldIn(rows, w, s, t)
      <3>1. HeldIn(rows', w, s, t) =
              IF k[1] = w /\ rows'[k].stage = s /\ rows'[k].token = t
              THEN HeldIn(rows, w, s, t) + rows'[k].held
              ELSE HeldIn(rows, w, s, t)
        BY <1>2, <1>3, HeldGains
      <3> QED
        BY <1>1, <3>1
    <2>3. <<w, s, t>> = x <=> k[1] = w /\ new.stage = s /\ new.token = t
      BY <1>6
    <2>4. spend'[<<w, s, t>>] = IF <<w, s, t>> = x
                                THEN spend[<<w, s, t>>] + new.held
                                ELSE spend[<<w, s, t>>]
      BY <1>8
    <2> QED
      BY <2>0, <2>1, <2>2, <2>3, <2>4
  <1>10. SpendWithinCap'
    <2> SUFFICES ASSUME NEW w \in Agents, NEW s \in Stages, NEW t \in Tokens,
                        Cap[<<w, t>>] \in Nat
                 PROVE  spend'[<<w, s, t>>] <= Cap[<<w, t>>]
      BY DEF SpendWithinCap
    <2>1. spend[<<w, s, t>>] <= Cap[<<w, t>>] /\ w \in Principals
          /\ spend[<<w, s, t>>] \in Nat
      BY <1>7 DEF BudgetOK, SpendWithinCap, Principals
    <2>2. CASE <<w, s, t>> = x /\ StageCap(r) # NoStageCap
      <3>1. StageCap(r) = Cap[<<w, t>>]
        BY <1>5, <2>2 DEF StageCap
      <3>2. spend[<<w, s, t>>] + Reserved(r) <= Cap[<<w, t>>]
        BY <1>5, <1>7, <2>1, <2>2, <3>1 DEF OverAmount
      <3> QED
        BY <1>6, <1>8, <2>1, <2>2, <3>2
    <2>3. CASE ~(<<w, s, t>> = x /\ StageCap(r) # NoStageCap)
      BY <1>6, <1>8, <2>1, <2>3
    <2> QED
      BY <2>2, <2>3
  <1> QED
    BY <1>4, <1>9, <1>10 DEF BudgetOK, StandingIn

(* A release takes back what the row held, which is no more than what the  *)
(* stage has spent: the clamp of its subtraction never bites.              *)
LEMMA ReleaseKeepsBudget ==
  ASSUME IInv, BudgetOK, NEW r \in Requests, PrepareFails(r)
  PROVE  BudgetOK'
PROOF
  <1> PICK k \in Keys : k = KeyOf(r)
    BY ReleaseErases
  <1>1. /\ rows[k] \in Row /\ rows[k] # NoRow /\ Releasable(k)
        /\ rows \in Tables /\ rows' \in Tables
        /\ \A j \in Keys : rows'[j] = IF j = k THEN NoRow ELSE rows[j]
    BY ReleaseErases, LedgerStepKeepsShape, RowSentinelAssumption
    DEF IInv, Shape, TypeOK, LedgerTypeOK, Tables
  <1>2. OneMore(rows', rows, k)
    BY <1>1 DEF OneMore
  <1>3. IsFiniteSet(StandingIn(rows'))
    BY <1>2, StandingGains DEF BudgetOK
  <1> PICK row \in Row : row = rows[k]
    BY <1>1
  <1>4. /\ row.stage \in Stages /\ row.token \in Tokens /\ row.held \in Nat
        /\ k[1] \in Principals
    BY DEF Row, Keys
  <1> DEFINE x == <<k[1], row.stage, row.token>>
  <1>5. /\ spend \in [Principals \X Stages \X Tokens -> Nat]
        /\ spend' = IF row.held > 0
                    THEN [spend EXCEPT ![x] = Minus(@, row.held)] ELSE spend
    BY <1>1 DEF PrepareFails, Release, IInv, Shape, TypeOK, LedgerTypeOK
  <1>6. \A y \in Principals \X Stages \X Tokens :
          spend'[y] = IF y = x THEN Minus(spend[y], row.held) ELSE spend[y]
    <2>1. CASE row.held > 0
      BY <1>4, <1>5, <2>1
    <2>2. CASE row.held = 0
      BY <1>4, <1>5, <2>2 DEF Minus
    <2> QED
      BY <1>4, <2>1, <2>2
  <1>7. StageSpendExact'
    <2> SUFFICES ASSUME NEW w \in Principals, NEW s \in Stages, NEW t \in Tokens
                 PROVE  spend'[<<w, s, t>>] = Held(w, s, t)'
      BY DEF StageSpendExact
    <2>0. Held(w, s, t)' = HeldIn(rows', w, s, t)
      BY HeldIsOfTheTable
    <2>1. spend[<<w, s, t>>] = HeldIn(rows, w, s, t)
      BY HeldIsOfTheTable DEF BudgetOK, StageSpendExact
    <2>2. /\ HeldIn(rows', w, s, t) \in Nat
          /\ HeldIn(rows, w, s, t) =
               IF k[1] = w /\ row.stage = s /\ row.token = t
               THEN HeldIn(rows', w, s, t) + row.held ELSE HeldIn(rows', w, s, t)
      BY <1>2, <1>3, HeldGains
    <2>3. <<w, s, t>> = x <=> k[1] = w /\ row.stage = s /\ row.token = t
      OBVIOUS
    <2>4. spend'[<<w, s, t>>] = IF <<w, s, t>> = x
                                THEN Minus(spend[<<w, s, t>>], row.held)
                                ELSE spend[<<w, s, t>>]
      BY <1>6
    <2> QED
      BY <1>4, <2>0, <2>1, <2>2, <2>3, <2>4 DEF Minus
  <1>8. SpendWithinCap'
    <2> SUFFICES ASSUME NEW w \in Agents, NEW s \in Stages, NEW t \in Tokens,
                        Cap[<<w, t>>] \in Nat
                 PROVE  spend'[<<w, s, t>>] <= Cap[<<w, t>>]
      BY DEF SpendWithinCap
    <2>1. spend[<<w, s, t>>] <= Cap[<<w, t>>] /\ w \in Principals
          /\ spend[<<w, s, t>>] \in Nat
      BY <1>5 DEF BudgetOK, SpendWithinCap, Principals
    <2>2. Minus(spend[<<w, s, t>>], row.held) \in Nat
          /\ Minus(spend[<<w, s, t>>], row.held) <= spend[<<w, s, t>>]
      BY <1>4, <2>1, MinusType
    <2>3. spend'[<<w, s, t>>] \in {spend[<<w, s, t>>],
                                   Minus(spend[<<w, s, t>>], row.held)}
      BY <1>6, <2>1
    <2> QED
      BY <2>1, <2>2, <2>3
  <1> QED
    BY <1>3, <1>7, <1>8 DEF BudgetOK, StandingIn

(* An empty table holds nothing, and nothing is spent.                     *)
LEMMA InitBudget == Init => BudgetOK
PROOF
  <1> SUFFICES ASSUME Init PROVE BudgetOK
    OBVIOUS
  <1>1. StandingIn(rows) = {}
    BY DEF Init, LedgerInit, StandingIn
  <1>2. IsFiniteSet(StandingIn(rows))
    BY <1>1, FS_EmptySet
  <1>3. \A w \in Principals, s \in Stages, t \in Tokens : spend[<<w, s, t>>] = 0
    BY DEF Init, LedgerInit
  <1>4. ASSUME NEW w, NEW s, NEW t
        PROVE  Held(w, s, t) = 0
    <2> DEFINE f == [k \in BucketIn(rows, w, s, t) |-> rows[k].held]
    <2>1. DOMAIN f = {}
      BY <1>1 DEF BucketIn
    <2>2. Held(w, s, t) = SumFunction(f)
      BY HeldIsOfTheTable DEF HeldIn
    <2> HIDE DEF f
    <2> QED
      BY <2>1, <2>2, SumOfNothing DEF SumFunction
  <1>5. SpendWithinCap
    BY <1>3 DEF SpendWithinCap, Principals
  <1> QED
    BY <1>2, <1>3, <1>4, <1>5 DEF BudgetOK, StageSpendExact

(* The budget holds in every reachable state.                              *)
LEMMA BudgetInvariant == Spec => [](IInv /\ Booked /\ BudgetOK)
PROOF
  <1>1. IInv /\ BudgetOK /\ [Next]_vars => BudgetOK'
    BY StepKinds, CalmKeepsBudget, ReservationKeepsBudget, ReleaseKeepsBudget
  <1> QED
    BY <1>1, OwnerInvariant, InitBooked, NextKeepsBooked, InitBudget, PTL
    DEF Spec

(* stage_spend is exactly what the standing rows hold: no interleaving,    *)
(* failure or crash refunds an amount twice, refunds it to the wrong stage *)
(* or token, or keeps it after its row is gone.                            *)
THEOREM SpendIsExact == Spec => []StageSpendExact
PROOF
  <1>1. BudgetOK => StageSpendExact
    BY DEF BudgetOK
  <1> QED
    BY <1>1, BudgetInvariant, PTL

-----------------------------------------------------------------------------
(* What has moved on the chain was booked, each transfer in a row of its   *)
(* own, so together they are within what the stage was allowed to book.    *)
LEMMA LandedIsHeld ==
  ASSUME IInv, Booked, BudgetOK,
         NEW w \in Agents, NEW s \in Stages, NEW t \in Tokens
  PROVE  /\ SumFunction([r \in Landed(w, s, t) |-> Moved(r)]) \in Nat
         /\ SumFunction([r \in Landed(w, s, t) |-> Moved(r)]) <= Held(w, s, t)
PROOF
  <1> DEFINE S == Landed(w, s, t)
             T == BucketIn(rows, w, s, t)
             f == [r \in S |-> Moved(r)]
             g == [k \in T |-> rows[k].held]
             m == [r \in S |-> KeyOf(r)]
  <1>1. ASSUME NEW r \in S
        PROVE  /\ KeyOf(r) \in T /\ Moved(r) \in Nat /\ Moved(r) <= rows[KeyOf(r)].held
               /\ Holds(r) /\ r \in Requests
    <2>1. /\ r \in Requests /\ OnChain(r) /\ Holds(r)
          /\ Op(r) \in {"send", "call"}
          /\ req[r].wallet = w /\ Tok(r) = t /\ stageRead[r] = s
      BY DEF Landed, OnChain, Holds
    <2>2. KeyOf(r) \in Keys /\ KeyOf(r) \in StandingIn(rows)
          /\ rows[KeyOf(r)] \in Row
      BY <2>1, SentOfHolder DEF Taken, StandingIn
    <2>3. pc[r] # "idle"
      BY <2>1 DEF IInv, Shape, ReqOK
    <2>4. Moved(r) \in Nat /\ KeyOf(r)[1] = w
      BY <2>1, <2>3, RequestShape DEF IInv
    <2>5. Books(rows[KeyOf(r)], Booking(r))
      BY <2>1 DEF Booked
    <2>6. KeyOf(r) \in T
      BY <2>1, <2>2, <2>4, <2>5 DEF BucketIn, Books, Booking
    <2>7. req[r].amount \in Nat /\ Moved(r) = req[r].amount
      BY <2>1, <2>3, RequestShape DEF Moved, Request, IInv, Op
    <2>8. CASE StageCap(r) # NoStageCap
      BY <2>1, <2>4, <2>5, <2>6, <2>8 DEF Books, Booking, Reserved, Op
    <2>9. CASE StageCap(r) = NoStageCap
      <3>1. Moved(r) = 0
        BY <2>1, <2>7, <2>9, TreasuryAssumption, SentinelAssumption
        DEF StageCap, Op
      <3> QED
        BY <2>1, <2>2, <2>4, <2>6, <3>1 DEF Row
    <2> QED
      BY <2>8, <2>9
  <1>2. T \subseteq StandingIn(rows) /\ IsFiniteSet(T)
    BY FS_Subset DEF BudgetOK, BucketIn
  <1>3. \A k \in T : rows[k].held \in Nat
    BY <1>2 DEF IInv, Shape, TypeOK, LedgerTypeOK, StandingIn, Row
  <1>4. \A q, r \in S : KeyOf(q) = KeyOf(r) => q = r
    BY <1>1 DEF IInv, Owned
  <1> HIDE DEF S, T
  <1>5. /\ m \in [S -> T] /\ \A q, r \in S : m[q] = m[r] => q = r
        /\ \A r \in S : f[r] \in Nat /\ f[r] <= g[m[r]]
        /\ \A k \in T : g[k] \in Nat
        /\ DOMAIN f = S /\ DOMAIN g = T
    BY <1>1, <1>3, <1>4
  <1>6. SumFunction(g) = Held(w, s, t)
    BY HeldIsOfTheTable DEF HeldIn, T
  <1> HIDE DEF f, g, m
  <1>7. /\ IsFiniteSet(S)
        /\ SumFunctionOnSet(f, S) <= SumFunctionOnSet(g, T)
    BY <1>2, <1>5, SumInjects
  <1>8. SumFunctionOnSet(f, S) \in Nat
    BY <1>5, <1>7, SumIsNat
  <1>9. SumFunction(f) \in Nat /\ SumFunction(f) <= SumFunction(g)
    BY <1>5, <1>7, <1>8 DEF SumFunction
  <1> QED
    BY <1>6, <1>9 DEF f, S

(* What the sends and calls of a wallet move on the chain in one stage is  *)
(* within the max_per_stage of its policy, for any number of them at once  *)
(* and for any cap: the bound taken at the reservation is the bound on the *)
(* chain.                                                                  *)
THEOREM CapHoldsOnChain == Spec => []LandedWithinCap
PROOF
  <1>1. IInv /\ Booked /\ BudgetOK => LandedWithinCap
    <2> SUFFICES ASSUME IInv, Booked, BudgetOK, NEW w \in Agents,
                        NEW s \in Stages, NEW t \in Tokens, Cap[<<w, t>>] \in Nat
                 PROVE  SumFunction([r \in Landed(w, s, t) |-> Moved(r)])
                          <= Cap[<<w, t>>]
      BY DEF LandedWithinCap
    <2>1. /\ SumFunction([r \in Landed(w, s, t) |-> Moved(r)]) \in Nat
          /\ SumFunction([r \in Landed(w, s, t) |-> Moved(r)]) <= Held(w, s, t)
      BY LandedIsHeld
    <2>2. spend[<<w, s, t>>] = Held(w, s, t) /\ spend[<<w, s, t>>] <= Cap[<<w, t>>]
          /\ spend[<<w, s, t>>] \in Nat
      BY DEF BudgetOK, StageSpendExact, SpendWithinCap, Principals, IInv, Shape,
         TypeOK, LedgerTypeOK
    <2> QED
      BY <2>1, <2>2
  <1> QED
    BY <1>1, BudgetInvariant, PTL

-----------------------------------------------------------------------------
(* The count of calls.  Release takes one off the count of a call's entry  *)
(* whether or not the row was counted, so the counts say what they should  *)
(* as long as no edit of calls.json gives a maxPerStage to an entry that   *)
(* had none or takes it away.  Edits that change the number are covered.   *)

LimitsStable ==
  \A a, b \in Allowlists : \A e \in Entries : a[e] = NoLimit <=> b[e] = NoLimit

(* A request read that its entry had a limit when it has one.              *)
LimitReadOK ==
  \A r \in Requests :
    pc[r] # "idle" /\ Op(r) = "call" =>
      (limitRead[r] # NoLimit <=> allowlist[req[r].call.entry] # NoLimit)

(* Only rows of limited entries are counted.                               *)
CountedOK ==
  \A k \in StandingIn(rows) :
    rows[k].counted => /\ rows[k].call # NoCall
                       /\ allowlist[rows[k].call.entry] # NoLimit

CountedIn(R, w, s, e) ==
  {k \in StandingIn(R) : /\ k[1] = w /\ R[k].stage = s
                         /\ R[k].counted /\ R[k].call.entry = e}

(* The requests whose call of an entry counts against its limit, sent or   *)
(* about to be                                                             *)
Callers(w, s, e) ==
  {r \in Requests : /\ Holds(r) /\ Op(r) = "call" /\ req[r].wallet = w
                    /\ req[r].call.entry = e /\ stageRead[r] = s
                    /\ limitRead[r] # NoLimit}

CallersWithinLimit ==
  \A w \in Agents, s \in Stages, e \in Entries :
    \A S \in SUBSET Callers(w, s, e), m \in Nat :
      S # {} /\ (\A r \in S : limitRead[r] <= m) =>
        IsFiniteSet(S) /\ Cardinality(S) <= m

CountOK == LimitReadOK /\ CountedOK /\ CallCountExact /\ CallersWithinLimit

(* The counted rows are those of the table.                                *)
LEMMA CountedIsOfTheTable ==
  ASSUME NEW w, NEW s, NEW e
  PROVE  /\ Counted(w, s, e) = CountedIn(rows, w, s, e)
         /\ Counted(w, s, e)' = CountedIn(rows', w, s, e)
PROOF BY DEF Counted, LiveRows, CountedIn, StandingIn

(* One row more counts once, if it counts.                                 *)
LEMMA CountGains ==
  ASSUME NEW R, NEW Q, NEW k, OneMore(R, Q, k), IsFiniteSet(StandingIn(R)),
         NEW w, NEW s, NEW e
  PROVE  /\ IsFiniteSet(CountedIn(R, w, s, e))
         /\ Cardinality(CountedIn(R, w, s, e)) \in Nat
         /\ Cardinality(CountedIn(Q, w, s, e)) =
              IF /\ k[1] = w /\ Q[k].stage = s
                 /\ Q[k].counted /\ Q[k].call.entry = e
              THEN Cardinality(CountedIn(R, w, s, e)) + 1
              ELSE Cardinality(CountedIn(R, w, s, e))
PROOF
  <1> DEFINE A == CountedIn(R, w, s, e)
             B == CountedIn(Q, w, s, e)
  <1>1. /\ \A j \in StandingIn(R) : Q[j] = R[j]
        /\ k \notin StandingIn(R)
        /\ StandingIn(Q) = StandingIn(R) \cup {k}
    BY StandingGains DEF OneMore, StandingIn
  <1>2. IsFiniteSet(A) /\ k \notin A
    BY <1>1, FS_Subset DEF CountedIn
  <1>3. CASE /\ k[1] = w /\ Q[k].stage = s
             /\ Q[k].counted /\ Q[k].call.entry = e
    <2>1. B = A \cup {k}
      BY <1>1, <1>3 DEF CountedIn
    <2> HIDE DEF A, B
    <2>2. Cardinality(B) = Cardinality(A) + 1 /\ Cardinality(A) \in Nat
      BY <1>2, <2>1, FS_AddElement, FS_CardinalityType
    <2> QED
      BY <1>2, <1>3, <2>2 DEF A, B
  <1>4. CASE ~(/\ k[1] = w /\ Q[k].stage = s
               /\ Q[k].counted /\ Q[k].call.entry = e)
    <2>1. B = A
      BY <1>1, <1>4 DEF CountedIn
    <2> QED
      BY <1>2, <1>4, <2>1, FS_CardinalityType
  <1> QED
    BY <1>3, <1>4

(* Whether an entry is limited does not change.                            *)
LEMMA LimitedStays ==
  ASSUME LimitsStable, IInv, [Next]_vars, NEW e \in Entries
  PROVE  allowlist'[e] # NoLimit <=> allowlist[e] # NoLimit
PROOF
  <1>1. allowlist \in Allowlists /\ allowlist' \in Allowlists
    BY NextKeepsShape DEF IInv, Shape, TypeOK
  <1> QED
    BY <1>1 DEF LimitsStable

(* A call takes its snapshot of the limit when it arrives.                 *)
LEMMA NextKeepsLimitRead ==
  ASSUME LimitsStable, IInv, LimitReadOK, [Next]_vars
  PROVE  LimitReadOK'
PROOF
  <1> USE DEF IInv
  <1> SUFFICES ASSUME NEW r \in Requests, pc'[r] # "idle", req'[r].op = "call"
               PROVE  limitRead'[r] # NoLimit <=>
                        allowlist'[req'[r].call.entry] # NoLimit
    BY DEF LimitReadOK, Op
  <1>0. req'[r] \in Inputs /\ req'[r].call.entry \in Entries
    <2>1. req'[r] \in Inputs
      BY NextKeepsShape DEF Shape, ReqOK
    <2>2. req'[r] \in Request /\ WellFormed(req'[r])
      BY <2>1, TreasuryAssumption
    <2> QED
      BY <2>1, <2>2 DEF Request, WellFormed, Calls
  <1>1. CASE Arrive(r)
    <2> PICK q \in Inputs :
          /\ req' = [req EXCEPT ![r] = q]
          /\ limitRead' = IF q.op = "call"
                          THEN [limitRead EXCEPT ![r] = allowlist[q.call.entry]]
                          ELSE limitRead
      BY <1>1 DEF Arrive
    <2>1. req'[r] = q /\ UNCHANGED allowlist
      BY <1>1 DEF Arrive, sideVars, Shape, TypeOK
    <2>2. limitRead'[r] = allowlist[q.call.entry]
      BY <2>1 DEF Shape, TypeOK
    <2> QED
      BY <2>1, <2>2
  <1>2. CASE ~Arrive(r)
    <2>1. pc[r] # "idle" /\ limitRead'[r] = limitRead[r]
      <3>1. CASE \E q \in Requests : Arrive(q)
        <4> PICK q \in Requests : Arrive(q)
          BY <3>1
        <4>1. /\ q # r /\ \E p \in Places : Goto(q, p)
              /\ \/ UNCHANGED limitRead
                 \/ \E v : limitRead' = [limitRead EXCEPT ![q] = v]
          BY <1>2 DEF Arrive, Finish, Places
        <4> QED
          BY <4>1 DEF Goto, Shape, TypeOK
      <3>2. ASSUME NEW q \in Requests, Handle(q)
            PROVE  pc[q] # "idle" /\ UNCHANGED limitRead
                   /\ \E p \in Places : Goto(q, p)
        BY <3>2 DEF Handle, Measure, ReadStage, Refuse, TakeReservation,
           RefuseOverCap, AnswerReplay, Prepare, PrepareFails, SweepFails,
           CheckFloat, TreasurySendFails, Broadcast, BroadcastFails,
           HashReturned, SendReceipt, CallReceipt, PlatformReceipt, Reread,
           ReceiptFails, Finish, At, HasReceipt, TreasuryTurn, Places, readVars
      <3>3. CASE \E q \in Requests : Handle(q)
        BY <3>2, <3>3 DEF Goto, Shape, TypeOK
      <3>4. CASE Environment \/ (\E q \in Requests : Mine(q)) \/ UNCHANGED vars
        BY <3>4 DEF Environment, MoveStage, Retire, EditAllowlist, Crash, Mine,
           vars, requestVars, readVars, Active, Shape, TypeOK
      <3> QED
        BY <3>1, <3>3, <3>4 DEF Next, Rest
    <2>2. req'[r] = req[r]
      BY <2>1, BodiesStand
    <2>3. limitRead[r] # NoLimit <=> allowlist[req[r].call.entry] # NoLimit
      BY <2>1, <2>2 DEF LimitReadOK, Op
    <2>4. allowlist'[req'[r].call.entry] # NoLimit
            <=> allowlist[req'[r].call.entry] # NoLimit
      BY <1>0, LimitedStays
    <2> QED
      BY <2>1, <2>2, <2>3, <2>4
  <1> QED
    BY <1>1, <1>2

(* As long as nobody takes an intent, the callers stay within the limit.   *)
LEMMA FewerCallers ==
  ASSUME IInv, CallersWithinLimit, [Next]_vars,
         \A r \in Requests : Holds(r)' => Holds(r)
  PROVE  CallersWithinLimit'
PROOF
  <1>1. \A r \in Requests : Holds(r) =>
          UNCHANGED <<req[r], stageRead[r], limitRead[r]>>
    BY HoldersAreFrozen
  <1> SUFFICES ASSUME NEW w \in Agents, NEW s \in Stages, NEW e \in Entries,
                      NEW S \in SUBSET Callers(w, s, e)', NEW m \in Nat,
                      S # {}, \A r \in S : limitRead'[r] <= m
               PROVE  IsFiniteSet(S) /\ Cardinality(S) <= m
    BY DEF CallersWithinLimit
  <1>2. ASSUME NEW r \in S
        PROVE  r \in Callers(w, s, e) /\ limitRead'[r] = limitRead[r]
    <2>1. /\ r \in Requests /\ Holds(r)'
          /\ req'[r].op = "call" /\ req'[r].wallet = w
          /\ req'[r].call.entry = e /\ stageRead'[r] = s
          /\ limitRead'[r] # NoLimit
      BY DEF Callers, Op
    <2>2. Holds(r) /\ UNCHANGED <<req[r], stageRead[r], limitRead[r]>>
      BY <1>1, <2>1
    <2> QED
      BY <2>1, <2>2 DEF Callers, Op
  <1>3. S \in SUBSET Callers(w, s, e) /\ \A r \in S : limitRead[r] <= m
    BY <1>2
  <1> QED
    BY <1>3 DEF CallersWithinLimit

(* The entry of a row's call.                                              *)
LEMMA StandingRow ==
  ASSUME Shape, NEW k \in StandingIn(rows)
  PROVE  /\ k \in Keys /\ rows[k] \in Row /\ rows[k].stage \in Stages
         /\ rows[k].counted \in BOOLEAN
         /\ rows[k].call # NoCall => rows[k].call.entry \in Entries
PROOF
  <1>1. k \in Keys /\ rows[k] \in Row
    BY DEF Shape, TypeOK, LedgerTypeOK, StandingIn
  <1>2. /\ rows[k].stage \in Stages /\ rows[k].counted \in BOOLEAN
        /\ rows[k].call \in Calls \cup {NoCall}
    BY <1>1 DEF Row
  <1> QED
    BY <1>1, <1>2 DEF Calls

(* A calm step: no row appears, goes or changes what it counts.            *)
LEMMA CalmKeepsCounts ==
  ASSUME LimitsStable, IInv, CountedOK, CallCountExact, Calm, [Next]_vars
  PROVE  CountedOK' /\ CallCountExact'
PROOF
  <1>1. StandingIn(rows') = StandingIn(rows)
    BY DEF Calm, SameRows, StandingIn
  <1>2. \A k \in StandingIn(rows) :
          /\ rows'[k].stage = rows[k].stage /\ rows'[k].call = rows[k].call
          /\ rows'[k].counted = rows[k].counted
    BY DEF Calm, SameRows, StandingIn, Books
  <1>3. CountedOK'
    <2> SUFFICES ASSUME NEW k \in StandingIn(rows), rows[k].counted
                 PROVE  /\ rows[k].call # NoCall
                        /\ allowlist'[rows[k].call.entry] # NoLimit
      BY <1>1, <1>2 DEF CountedOK, StandingIn
    <2>1. /\ rows[k].call # NoCall
          /\ allowlist[rows[k].call.entry] # NoLimit
      BY DEF CountedOK
    <2> QED
      BY <2>1, StandingRow, LimitedStays DEF IInv
  <1>4. \A w, s, e : CountedIn(rows', w, s, e) = CountedIn(rows, w, s, e)
    BY <1>1, <1>2 DEF CountedIn
  <1>5. CallCountExact'
    <2> SUFFICES ASSUME NEW w \in Principals, NEW s \in Stages, NEW e \in Entries
                 PROVE  counts'[<<w, s, e>>] = Cardinality(Counted(w, s, e)')
      BY DEF CallCountExact
    <2>0. Counted(w, s, e)' = CountedIn(rows', w, s, e)
      BY CountedIsOfTheTable
    <2>1. counts[<<w, s, e>>] = Cardinality(CountedIn(rows, w, s, e))
      BY CountedIsOfTheTable DEF CallCountExact
    <2> QED
      BY <1>4, <2>0, <2>1 DEF Calm
  <1> QED
    BY <1>3, <1>5

(* A reservation counts its call when the entry has a limit.               *)
LEMMA ReservationCounts ==
  ASSUME LimitsStable, IInv, IsFiniteSet(StandingIn(rows)),
         LimitReadOK, CountedOK, CallCountExact,
         NEW r \in Requests, TakeReservation(r)
  PROVE  CountedOK' /\ CallCountExact'
PROOF
  <1> PICK k \in Keys : k = KeyOf(r)
    BY ReservationBooks
  <1> PICK new \in Row :
        /\ Books(new, Booking(r))
        /\ \A j \in Keys : rows'[j] = IF j = k THEN new ELSE rows[j]
    BY ReservationBooks
  <1>1. /\ rows[k] = NoRow /\ rows'[k] = new /\ pc[r] = "staged"
        /\ rows \in Tables /\ rows' \in Tables /\ UNCHANGED allowlist
    BY ReservationBooks DEF TakeReservation, At, IInv, Shape, TypeOK,
       LedgerTypeOK, Tables
  <1>2. OneMore(rows, rows', k)
    BY <1>1, RowSentinelAssumption DEF OneMore
  <1>3. StandingIn(rows') = StandingIn(rows) \cup {k}
    BY <1>2, StandingGains
  <1> DEFINE c == req[r].call
             counted == IsCounted(c, EntryLimit(r))
             x == <<k[1], stageRead[r], c.entry>>
  <1>4. /\ stageRead[r] \in Stages /\ k[1] \in Principals
        /\ Op(r) = "call" => c \in Calls
    BY <1>1, RequestShape DEF IInv
  <1>5. /\ new.stage = stageRead[r] /\ new.call = c
        /\ new.counted = counted
    BY DEF Books, Booking
  <1>6. counted => /\ c # NoCall /\ c.entry \in Entries
                   /\ allowlist[c.entry] # NoLimit
    <2> SUFFICES ASSUME counted
                 PROVE  /\ c # NoCall /\ c.entry \in Entries
                        /\ allowlist[c.entry] # NoLimit
      OBVIOUS
    <2>1. c # NoCall /\ Op(r) = "call" /\ limitRead[r] # NoLimit
      BY DEF IsCounted, EntryLimit
    <2> QED
      BY <1>1, <1>4, <2>1 DEF LimitReadOK, Calls
  <1>7. /\ counts \in [Principals \X Stages \X Entries -> Nat]
        /\ counts' = IF counted THEN [counts EXCEPT ![x] = @ + 1] ELSE counts
    BY DEF TakeReservation, Reserve, IInv, Shape, TypeOK, LedgerTypeOK
  <1> HIDE DEF counted, c
  <1>8. CountedOK'
    <2> SUFFICES ASSUME NEW j \in StandingIn(rows'), rows'[j].counted
                 PROVE  /\ rows'[j].call # NoCall
                        /\ allowlist[rows'[j].call.entry] # NoLimit
      BY <1>1 DEF CountedOK, StandingIn
    <2>1. CASE j = k
      BY <1>1, <1>5, <1>6, <2>1
    <2>2. CASE j # k
      BY <1>3, <2>2 DEF CountedOK, StandingIn
    <2> QED
      BY <2>1, <2>2
  <1>9. CallCountExact'
    <2> SUFFICES ASSUME NEW w \in Principals, NEW s \in Stages, NEW e \in Entries
                 PROVE  counts'[<<w, s, e>>] = Cardinality(Counted(w, s, e)')
      BY DEF CallCountExact
    <2>0. Counted(w, s, e)' = CountedIn(rows', w, s, e)
      BY CountedIsOfTheTable
    <2>1. counts[<<w, s, e>>] = Cardinality(CountedIn(rows, w, s, e))
      BY CountedIsOfTheTable DEF CallCountExact
    <2>2. Cardinality(CountedIn(rows', w, s, e)) =
            IF /\ k[1] = w /\ rows'[k].stage = s
               /\ rows'[k].counted /\ rows'[k].call.entry = e
            THEN Cardinality(CountedIn(rows, w, s, e)) + 1
            ELSE Cardinality(CountedIn(rows, w, s, e))
      BY <1>2, CountGains
    <2>3. CASE counted
      BY <1>1, <1>4, <1>5, <1>6, <1>7, <2>0, <2>1, <2>2, <2>3
    <2>4. CASE ~counted
      <3>1. ~rows'[k].counted
        BY <1>1, <1>5, <2>4
      <3> QED
        BY <1>7, <2>0, <2>1, <2>2, <2>4, <3>1
    <2> QED
      BY <2>3, <2>4
  <1> QED
    BY <1>8, <1>9

(* A release takes one off exactly when its row was counted: the count of  *)
(* an entry without a limit is zero, and zero stays zero.                  *)
LEMMA ReleaseUncounts ==
  ASSUME LimitsStable, IInv, Booked, IsFiniteSet(StandingIn(rows)),
         LimitReadOK, CountedOK, CallCountExact,
         NEW r \in Requests, PrepareFails(r)
  PROVE  CountedOK' /\ CallCountExact'
PROOF
  <1> PICK k \in Keys : k = KeyOf(r)
    BY ReleaseErases
  <1>1. /\ rows[k] \in Row /\ rows[k] # NoRow /\ Releasable(k)
        /\ rows \in Tables /\ rows' \in Tables /\ UNCHANGED allowlist
        /\ Op(r) \in {"send", "call"} /\ Holds(r) /\ pc[r] = "reserved"
        /\ \A j \in Keys : rows'[j] = IF j = k THEN NoRow ELSE rows[j]
    BY ReleaseErases, LedgerStepKeepsShape, RowSentinelAssumption
    DEF IInv, Shape, TypeOK, LedgerTypeOK, Tables, PrepareFails, At
  <1>2. OneMore(rows', rows, k)
    BY <1>1 DEF OneMore
  <1>3. IsFiniteSet(StandingIn(rows')) /\ k \in StandingIn(rows)
        /\ StandingIn(rows) = StandingIn(rows') \cup {k}
        /\ k \notin StandingIn(rows')
    BY <1>2, StandingGains
  <1> PICK row \in Row : row = rows[k]
    BY <1>1
  <1>4. /\ row.stage \in Stages /\ row.counted \in BOOLEAN
        /\ row.call # NoCall => row.call.entry \in Entries
        /\ k[1] \in Principals
    BY <1>3, StandingRow DEF IInv, Keys
  <1> DEFINE x == <<k[1], row.stage, row.call.entry>>
  <1>5. /\ counts \in [Principals \X Stages \X Entries -> Nat]
        /\ counts' = IF row.call # NoCall
                     THEN [counts EXCEPT ![x] = Minus(@, 1)] ELSE counts
    BY <1>1 DEF PrepareFails, Release, IInv, Shape, TypeOK, LedgerTypeOK
  <1>6. row.call # NoCall /\ ~row.counted => allowlist[row.call.entry] = NoLimit
    <2> SUFFICES ASSUME row.call # NoCall, ~row.counted
                 PROVE  allowlist[row.call.entry] = NoLimit
      OBVIOUS
    <2>1. row.call = req[r].call /\ row.counted = IsCounted(req[r].call, EntryLimit(r))
      BY <1>1 DEF Booked, Books, Booking
    <2>2. req[r] \in Inputs /\ req[r] \in Request
      BY <1>1, RequestShape DEF IInv
    <2>3. Op(r) = "call"
      BY <1>1, <2>1, <2>2, TreasuryAssumption DEF WellFormed, Op
    <2>4. limitRead[r] = NoLimit
      BY <2>1, <2>3 DEF IsCounted, EntryLimit
    <2> QED
      BY <1>1, <2>1, <2>3, <2>4 DEF LimitReadOK
  <1>7. CountedOK'
    <2> SUFFICES ASSUME NEW j \in StandingIn(rows'), rows'[j].counted
                 PROVE  /\ rows'[j].call # NoCall
                        /\ allowlist[rows'[j].call.entry] # NoLimit
      BY <1>1 DEF CountedOK, StandingIn
    <2>1. j # k /\ j \in StandingIn(rows) /\ rows'[j] = rows[j]
      BY <1>1, <1>3 DEF StandingIn
    <2> QED
      BY <2>1 DEF CountedOK
  <1>8. CallCountExact'
    <2> SUFFICES ASSUME NEW w \in Principals, NEW s \in Stages, NEW e \in Entries
                 PROVE  counts'[<<w, s, e>>] = Cardinality(Counted(w, s, e)')
      BY DEF CallCountExact
    <2>0. Counted(w, s, e)' = CountedIn(rows', w, s, e)
      BY CountedIsOfTheTable
    <2>1. counts[<<w, s, e>>] = Cardinality(CountedIn(rows, w, s, e))
          /\ counts[<<w, s, e>>] \in Nat
      BY <1>5, CountedIsOfTheTable DEF CallCountExact
    <2>2. /\ Cardinality(CountedIn(rows', w, s, e)) \in Nat
          /\ Cardinality(CountedIn(rows, w, s, e)) =
               IF /\ k[1] = w /\ row.stage = s
                  /\ row.counted /\ row.call.entry = e
               THEN Cardinality(CountedIn(rows', w, s, e)) + 1
               ELSE Cardinality(CountedIn(rows', w, s, e))
      BY <1>2, <1>3, CountGains
    <2>3. CASE row.call = NoCall
      <3>1. ~row.counted
        BY <1>3, <2>3 DEF CountedOK
      <3> QED
        BY <1>5, <2>0, <2>1, <2>2, <2>3, <3>1
    <2>4. CASE row.call # NoCall /\ <<w, s, e>> = x
      <3>1. counts'[<<w, s, e>>] = Minus(counts[<<w, s, e>>], 1)
        BY <1>4, <1>5, <2>4
      <3>2. CASE row.counted
        BY <2>0, <2>1, <2>2, <2>4, <3>1, <3>2 DEF Minus
      <3>3. CASE ~row.counted
        <4>1. CountedIn(rows, w, s, e) = {}
          BY <1>6, <2>4, <3>3 DEF CountedIn, CountedOK
        <4> QED
          BY <2>0, <2>1, <2>2, <3>1, <3>3, <4>1, FS_EmptySet DEF Minus
      <3> QED
        BY <1>4, <3>2, <3>3
    <2>5. CASE row.call # NoCall /\ <<w, s, e>> # x
      <3>1. counts'[<<w, s, e>>] = counts[<<w, s, e>>]
        BY <1>4, <1>5, <2>5
      <3> QED
        BY <2>0, <2>1, <2>2, <2>5, <3>1
    <2> QED
      BY <2>3, <2>4, <2>5
  <1> QED
    BY <1>7, <1>8

(* A caller has a counted row of its own.                                  *)
LEMMA CallersAreCounted ==
  ASSUME IInv, Booked, IsFiniteSet(StandingIn(rows)),
         NEW w, NEW s, NEW e, NEW S \in SUBSET Callers(w, s, e)
  PROVE  /\ IsFiniteSet(S) /\ Cardinality(S) \in Nat
         /\ IsFiniteSet(CountedIn(rows, w, s, e))
         /\ Cardinality(S) <= Cardinality(CountedIn(rows, w, s, e))
PROOF
  <1> DEFINE T == CountedIn(rows, w, s, e)
             m == [r \in S |-> KeyOf(r)]
  <1>1. ASSUME NEW r \in S
        PROVE  KeyOf(r) \in T /\ Holds(r) /\ r \in Requests
    <2>1. /\ r \in Requests /\ Holds(r) /\ Op(r) = "call"
          /\ req[r].wallet = w /\ req[r].call.entry = e /\ stageRead[r] = s
          /\ limitRead[r] # NoLimit
      BY DEF Callers
    <2>2. KeyOf(r) \in StandingIn(rows) /\ Books(rows[KeyOf(r)], Booking(r))
      BY <2>1, SentOfHolder DEF Taken, StandingIn, Booked
    <2>3. pc[r] # "idle"
      BY <2>1 DEF IInv, Shape, ReqOK, Holds, Before
    <2>4. KeyOf(r)[1] = w /\ req[r].call \in Calls
      BY <2>1, <2>3, RequestShape DEF IInv
    <2>5. IsCounted(req[r].call, EntryLimit(r))
      BY <2>1, <2>4, RowSentinelAssumption DEF IsCounted, EntryLimit
    <2>6. rows[KeyOf(r)].counted /\ rows[KeyOf(r)].call.entry = e
          /\ rows[KeyOf(r)].stage = s
      BY <2>1, <2>2, <2>5 DEF Books, Booking
    <2> QED
      BY <2>1, <2>2, <2>4, <2>6 DEF CountedIn
  <1>2. IsFiniteSet(T)
    BY FS_Subset DEF CountedIn
  <1>3. \A q, r \in S : KeyOf(q) = KeyOf(r) => q = r
    BY <1>1 DEF IInv, Owned
  <1> HIDE DEF T
  <1>4. m \in Injection(S, T)
    BY <1>1, <1>3 DEF Injection, IsInjective
  <1> HIDE DEF m
  <1>5. IsFiniteSet(S) /\ Cardinality(S) <= Cardinality(T)
    BY <1>2, <1>4, FS_Injection
  <1> QED
    BY <1>2, <1>5, FS_CardinalityType DEF T

(* A call that is admitted finds room for itself beside all the others.    *)
LEMMA ReservationKeepsCallers ==
  ASSUME IInv, Booked, IsFiniteSet(StandingIn(rows)),
         CallCountExact, CallersWithinLimit,
         NEW r \in Requests, TakeReservation(r)
  PROVE  CallersWithinLimit'
PROOF
  <1>1. /\ UNCHANGED <<req, readVars>> /\ pc[r] = "staged"
        /\ \A q \in Requests : q # r => (Holds(q)' = Holds(q))
        /\ ~OverCount(KeyOf(r)[1], stageRead[r], req[r].call, EntryLimit(r))
    BY ReservationBooks DEF TakeReservation, Reserve, OverStageCap, At
  <1> SUFFICES ASSUME NEW w \in Agents, NEW s \in Stages, NEW e \in Entries,
                      NEW S \in SUBSET Callers(w, s, e)', NEW m \in Nat,
                      S # {}, \A q \in S : limitRead'[q] <= m
               PROVE  IsFiniteSet(S) /\ Cardinality(S) <= m
    BY DEF CallersWithinLimit
  <1>2. ASSUME NEW q \in S
        PROVE  /\ q \in Requests /\ Op(q) = "call" /\ req[q].wallet = w
               /\ req[q].call.entry = e /\ stageRead[q] = s
               /\ limitRead[q] # NoLimit /\ limitRead[q] <= m
               /\ q # r => q \in Callers(w, s, e)
    <2>1. /\ q \in Requests /\ Holds(q)'
          /\ req'[q].op = "call" /\ req'[q].wallet = w
          /\ req'[q].call.entry = e /\ stageRead'[q] = s
          /\ limitRead'[q] # NoLimit /\ limitRead'[q] <= m
      BY DEF Callers, Op
    <2> QED
      BY <1>1, <2>1 DEF Callers, Op, readVars
  <1>3. CASE r \notin S
    <2>1. S \in SUBSET Callers(w, s, e) /\ \A q \in S : limitRead[q] <= m
      BY <1>2, <1>3
    <2> QED
      BY <2>1 DEF CallersWithinLimit
  <1>4. CASE r \in S
    <2> DEFINE T == S \ {r}
    <2>1. T \in SUBSET Callers(w, s, e)
      BY <1>2
    <2>2. /\ IsFiniteSet(T) /\ Cardinality(T) \in Nat
          /\ Cardinality(T) <= Cardinality(CountedIn(rows, w, s, e))
      BY <2>1, CallersAreCounted
    <2>3. counts[<<w, s, e>>] = Cardinality(CountedIn(rows, w, s, e))
          /\ counts[<<w, s, e>>] \in Nat
      BY CountedIsOfTheTable DEF CallCountExact, Principals, IInv, Shape,
         TypeOK, LedgerTypeOK
    <2>4. KeyOf(r)[1] = w /\ req[r].call \in Calls
      BY <1>1, <1>2, <1>4, RequestShape DEF IInv
    <2>5. limitRead[r] \in Nat
      BY <1>2, <1>4 DEF IInv, Shape, TypeOK, Limits
    <2>6. counts[<<w, s, e>>] + 1 <= limitRead[r]
      BY <1>1, <1>2, <1>4, <2>3, <2>4, <2>5, RowSentinelAssumption
      DEF OverCount, IsCounted, EntryLimit
    <2>7. IsFiniteSet(S) /\ Cardinality(S) = Cardinality(T) + 1
      <3>1. S = T \cup {r} /\ r \notin T
        BY <1>4
      <3> HIDE DEF T
      <3> QED
        BY <2>2, <3>1, FS_AddElement
    <2>8. limitRead[r] <= m
      BY <1>2, <1>4
    <2> HIDE DEF T
    <2> QED
      BY <2>2, <2>3, <2>5, <2>6, <2>7, <2>8
  <1> QED
    BY <1>3, <1>4

(* A step keeps the counts and the callers.                                *)
LEMMA NextKeepsCounts ==
  ASSUME LimitsStable, IInv, Booked, BudgetOK, CountOK, [Next]_vars
  PROVE  CountOK'
PROOF
  <1>1. LimitReadOK'
    BY NextKeepsLimitRead DEF CountOK
  <1>2. IsFiniteSet(StandingIn(rows))
    BY DEF BudgetOK
  <1>3. CASE Calm
    BY <1>1, <1>3, CalmKeepsCounts, FewerCallers DEF CountOK, Calm
  <1>4. CASE \E r \in Requests : TakeReservation(r)
    BY <1>1, <1>2, <1>4, ReservationCounts, ReservationKeepsCallers DEF CountOK
  <1>5. CASE \E r \in Requests : PrepareFails(r)
    <2> PICK r \in Requests : PrepareFails(r)
      BY <1>5
    <2>1. CountedOK' /\ CallCountExact'
      BY <1>2, ReleaseUncounts DEF CountOK
    <2>2. \A q \in Requests : Holds(q)' => Holds(q)
      BY ReleaseErases
    <2> QED
      BY <1>1, <2>1, <2>2, FewerCallers DEF CountOK
  <1> QED
    BY <1>3, <1>4, <1>5, StepKinds

(* At first nothing is counted.                                            *)
LEMMA InitCounts == Init => CountOK
PROOF
  <1> SUFFICES ASSUME Init PROVE CountOK
    OBVIOUS
  <1>1. StandingIn(rows) = {} /\ \A r \in Requests : pc[r] = "idle" /\ ~OnChain(r)
    BY DEF Init, LedgerInit, StandingIn, OnChain
  <1>2. CallCountExact
    <2> SUFFICES ASSUME NEW w \in Principals, NEW s \in Stages, NEW e \in Entries
                 PROVE  counts[<<w, s, e>>] = Cardinality(Counted(w, s, e))
      BY DEF CallCountExact
    <2>1. Counted(w, s, e) = {}
      BY <1>1, CountedIsOfTheTable DEF CountedIn
    <2>2. counts[<<w, s, e>>] = 0
      BY DEF Init, LedgerInit
    <2> QED
      BY <2>1, <2>2, FS_EmptySet
  <1>3. \A w, s, e : Callers(w, s, e) = {}
    BY <1>1 DEF Callers, Holds, Before
  <1> QED
    BY <1>1, <1>2, <1>3 DEF CountOK, LimitReadOK, CountedOK, CallersWithinLimit

(* The counts hold in every reachable state, whatever edits change the     *)
(* number of a limit.                                                      *)
LEMMA CountInvariant ==
  ASSUME LimitsStable
  PROVE  Spec => [](IInv /\ CountOK)
PROOF
  <1>1. IInv /\ Booked /\ BudgetOK /\ CountOK /\ [Next]_vars => CountOK'
    BY NextKeepsCounts
  <1> QED
    BY <1>1, BudgetInvariant, InitCounts, PTL DEF Spec

(* call_counts is the number of standing rows that were counted: no        *)
(* failure is counted, and no release takes a call off another's count, as *)
(* long as edits of calls.json leave limited entries limited and unlimited *)
(* ones unlimited.                                                         *)
THEOREM CountsAreExact ==
  ASSUME LimitsStable
  PROVE  Spec => []CallCountExact
PROOF
  <1>1. CountOK => CallCountExact
    BY DEF CountOK
  <1> QED
    BY <1>1, CountInvariant, PTL

(* The calls of one entry that a wallet has on the chain in one stage are  *)
(* never more than the largest limit one of them was admitted under, for   *)
(* any number of racing calls and any edits of the number.                 *)
THEOREM CallLimitHolds ==
  ASSUME LimitsStable
  PROVE  Spec => []CallsWithinLimit
PROOF
  <1>1. IInv /\ CountOK => CallsWithinLimit
    <2> SUFFICES ASSUME IInv, CountOK, NEW w \in Agents, NEW s \in Stages,
                        NEW e \in Entries, NEW r \in CallsSent(w, s, e),
                        \A q \in CallsSent(w, s, e) : limitRead[q] <= limitRead[r]
                 PROVE  Cardinality(CallsSent(w, s, e)) <= limitRead[r]
      BY DEF CallsWithinLimit
    <2>1. CallsSent(w, s, e) \in SUBSET Callers(w, s, e)
      BY DEF CallsSent, Callers, Holds
    <2>2. limitRead[r] \in Nat
      BY DEF CallsSent, IInv, Shape, TypeOK, Limits
    <2> QED
      BY <2>1, <2>2 DEF CountOK, CallersWithinLimit
  <1> QED
    BY <1>1, CountInvariant, PTL
=============================================================================
