----------------------------- MODULE Contracts -----------------------------
(***************************************************************************)
(* The contracts that hold and make money: contracts/src/Token.sol,        *)
(* Converter.sol, Escrow.sol and JudgeHook.sol, over the NameRegistry of   *)
(* Names.tla.                                                              *)
(*                                                                         *)
(* One action is one transaction.  A reverted one changes nothing, so it   *)
(* is no action.  The hook is a view and the tokens call nobody, so no     *)
(* transaction is entered again from within; the order of the writes of    *)
(* one cannot be seen.  A name is <<alias, local>>.                        *)
(***************************************************************************)
EXTENDS Names, Naturals, FiniteSets

CONSTANTS
  Tokens,
  Accounts,              \* the addresses
  Backend,               \* the local name of a judging wallet
  Ids,                   \* escrow ids
  Scale,                 \* RATE_SCALE
  Rates, Amounts, Times, \* what calls may say
  Modes, Deadlines,
  Served,                \* the tokens that gave the escrow its two roles
  Points,                \* a name |-> the address it points at first
  Moved,                 \* the names whose owner may move them
  MaxSupply, MaxFrozen   \* bounds

Alias == {name[1] : name \in Canonical}

ASSUME ContractsAssumption ==
  /\ Canonical \subseteq Alias \X {"treasury", "acc", Backend}
  /\ IsFiniteSet(Accounts)
  /\ Scale \in Nat \ {0} /\ Rates \subseteq Nat \ {0}
  /\ Modes \subseteq {"ONE_JUDGE", "EACH_OWN_COPY", "junk"}
  /\ Amounts \subseteq Nat /\ Deadlines \subseteq Nat /\ Times \subseteq Nat /\ 0 \in Times
  /\ Served \subseteq Tokens /\ MaxSupply \in Nat
  /\ Points \in [Canonical -> Accounts] /\ Moved \subseteq Canonical

VARIABLES
  balance,  \* a token |-> an account |-> what it has
  frozen,   \* a token |-> the accounts barred from sending
  pairs,    \* <<source, target>> |-> its rate and whether it is paused
  records,  \* an escrow id |-> its record
  now,      \* block.timestamp
  reg,      \* the name registry
  minted    \* a token |-> what the last transaction minted for the treasury:
            \* only the properties look at it

vars == <<balance, frozen, pairs, records, now, reg, minted>>

NoMint == [t \in Tokens |-> 0]

Init ==
  /\ balance = [t \in Tokens |-> [a \in Accounts |-> 0]]
  /\ frozen = [t \in Tokens |-> {}]
  /\ pairs = <<>> /\ records = <<>> /\ now = 0 /\ minted = NoMint
  /\ reg = [NoRegistry EXCEPT
              !.rec = [n \in Canonical |-> [owner  |-> Points[n],
                                            target |-> Points[n]]]]

-----------------------------------------------------------------------------
(* Token.sol.  Every movement goes through _update: out of a frozen account*)
(* nothing goes, and what is taken must be there.  The first of these is   *)
(* what a mistaken version would do.                                       *)
MayPayWhatIsThere(t, from, n) == balance[t][from] >= n

MayPay(t, from, n) == from \notin frozen[t] /\ balance[t][from] >= n

Minus(b, t, a, n) == [b EXCEPT ![t][a] = @ - n]
Plus(b, t, a, n)  == [b EXCEPT ![t][a] = @ + n]

(* A sum of naturals, as the number of units it adds up.                   *)
Units(f) == UNION {{x} \X (1..f[x]) : x \in DOMAIN f}
Count(f) == Cardinality(Units(f))

Held(t) == Count(balance[t])
OwedFor(t) ==
  {id \in DOMAIN records : /\ records[id].token = t
                           /\ records[id].state = "OPEN"}
Owed(t) == Count([id \in OwedFor(t) |-> records[id].amount])
Total(t) == Held(t) + Owed(t)

Mint(t, to, n) ==
  /\ Total(t) + n <= MaxSupply
  /\ balance' = Plus(balance, t, to, n)
  /\ UNCHANGED <<frozen, pairs, records, now, reg>>
  /\ minted' = [NoMint EXCEPT ![t] = n]

(* transfer and transferWithIntent                                         *)
Send(t, from, to, n) ==
  /\ MayPay(t, from, n)
  /\ balance' = Plus(Minus(balance, t, from, n), t, to, n)
  /\ UNCHANGED <<frozen, pairs, records, now, reg>>
  /\ minted' = NoMint

SetFrozen(t, a, value) ==
  /\ value => Cardinality(UNION {frozen[u] : u \in Tokens}) < MaxFrozen
  /\ frozen' = [frozen EXCEPT ![t] = IF value THEN @ \cup {a} ELSE @ \ {a}]
  /\ UNCHANGED <<balance, pairs, records, now, reg>>
  /\ minted' = NoMint

-----------------------------------------------------------------------------
(* Converter.sol                                                           *)
Exists(s, t) == <<s, t>> \in DOMAIN pairs

(* What a mistaken version would do: look at the pair that is being set    *)
NoLoopThisWay(s, t, rate) ==
  Exists(s, t) => rate * pairs[<<s, t>>].rate <= Scale * Scale

(* There and back again must not be worth more than one.                   *)
NoLoop(s, t, rate) ==
  Exists(t, s) => rate * pairs[<<t, s>>].rate <= Scale * Scale

SetPair(s, t, rate) ==
  /\ s # t /\ NoLoop(s, t, rate)
  /\ pairs' = With(pairs, <<s, t>>,
                   [rate   |-> rate,
                    paused |-> Exists(s, t) /\ pairs[<<s, t>>].paused])
  /\ UNCHANGED <<balance, frozen, records, now, reg>>
  /\ minted' = NoMint

SetPaused(s, t, paused) ==
  /\ Exists(s, t)
  /\ pairs' = [pairs EXCEPT ![<<s, t>>] = [@ EXCEPT !.paused = paused]]
  /\ UNCHANGED <<balance, frozen, records, now, reg>>
  /\ minted' = NoMint

Quote(s, t, n) == (n * pairs[<<s, t>>].rate) \div Scale

Convert(a, s, t, n) ==
  /\ n > 0 /\ Exists(s, t) /\ ~pairs[<<s, t>>].paused
  /\ Quote(s, t, n) > 0
  /\ MayPay(s, a, n) /\ Total(t) + Quote(s, t, n) <= MaxSupply
  /\ balance' = Plus(Minus(balance, s, a, n), t, a, Quote(s, t, n))
  /\ UNCHANGED <<frozen, pairs, records, now, reg>>
  /\ minted' = NoMint

-----------------------------------------------------------------------------
(* JudgeHook.sol: whose report counts is asked of the registry now         *)
Check(data, creator, winner, sender) ==
  CASE data = "ONE_JUDGE"     -> sender = Resolve(reg, <<creator, Backend>>)
    [] data = "EACH_OWN_COPY" -> sender = Resolve(reg, <<winner, Backend>>)
    [] data = "junk"          -> FALSE

(* Escrow.sol                                                              *)
Open(id) == id \in DOMAIN records /\ records[id].state = "OPEN"

Settled(id, state) ==
  [records EXCEPT ![id] = [@ EXCEPT !.state = state]]

(* Called by the address the creator's treasury points at.                 *)
Create(id, alias, t, n, data, deadline) ==
  LET creator == Resolve(reg, <<alias, "treasury">>) IN
  /\ id \notin DOMAIN records /\ n > 0 /\ deadline > now
  /\ creator \in Accounts /\ t \in Served /\ MayPay(t, creator, n)
  /\ records' = With(records, id,
       [alias |-> alias, creator |-> creator, token |-> t, amount |-> n,
        data |-> data, deadline |-> deadline, state |-> "OPEN"])
  /\ balance' = Minus(balance, t, creator, n)
  /\ UNCHANGED <<frozen, pairs, now, reg>>
  /\ minted' = NoMint

(* local: the winner's treasury, or an account of theirs                   *)
Complete(id, winner, local, sender) ==
  LET r  == records[id]
      to == Resolve(reg, <<winner, local>>)
  IN /\ Open(id) /\ now <= r.deadline
     /\ Check(r.data, r.alias, winner, sender)
     /\ to # NoAddr
     /\ records' = Settled(id, "COMPLETED")
     /\ balance' = Plus(balance, r.token, to, r.amount)
     /\ UNCHANGED <<frozen, pairs, now, reg>>
     /\ minted' = NoMint

Refund(id) ==
  LET r == records[id] IN
  /\ Open(id) /\ now > r.deadline
  /\ records' = Settled(id, "REFUNDED")
  /\ balance' = Plus(balance, r.token, r.creator, r.amount)
  /\ UNCHANGED <<frozen, pairs, now, reg>>
  /\ minted' = NoMint

-----------------------------------------------------------------------------
Passes ==
  /\ now + 1 \in Times /\ now' = now + 1
  /\ UNCHANGED <<balance, frozen, pairs, records, reg>>
  /\ minted' = NoMint

(* The owner of a name points it at another address.                       *)
Repoint(name, a) ==
  /\ a # Resolve(reg, name)
  /\ reg' = SetTarget(reg, name, a)
  /\ UNCHANGED <<balance, frozen, pairs, records, now>>
  /\ minted' = NoMint

Next ==
  \/ \E t \in Tokens, a \in Accounts, n \in Amounts : Mint(t, a, n)
  \/ \E t \in Tokens, a, b \in Accounts, n \in Amounts : Send(t, a, b, n)
  \/ \E t \in Tokens, a \in Accounts, v \in BOOLEAN : SetFrozen(t, a, v)
  \/ \E s, t \in Tokens, r \in Rates : SetPair(s, t, r)
  \/ \E s, t \in Tokens, p \in BOOLEAN : SetPaused(s, t, p)
  \/ \E a \in Accounts, s, t \in Tokens, n \in Amounts : Convert(a, s, t, n)
  \/ \E id \in Ids, c \in Alias, t \in Tokens, n \in Amounts,
        data \in Modes, d \in Deadlines : Create(id, c, t, n, data, d)
  \/ \E id \in Ids, w \in Alias, l \in {"treasury", "acc"},
        a \in Accounts : Complete(id, w, l, a)
  \/ \E id \in Ids : Refund(id)
  \/ Passes
  \/ \E name \in Moved, a \in Accounts : Repoint(name, a)

Spec == Init /\ [][Next]_vars

-----------------------------------------------------------------------------
(* Only the treasury's mint, and the admin's change of a rate, make value: *)
(* at the rates of a two-way pair, all there is of its two tokens, held or *)
(* owed by open escrows, is worth more after a transaction than it was     *)
(* before by no more than what the treasury has had minted, unless a third *)
(* token was turned into one of the two.  Covers the converter's loop guard*)
(* and flooring, the burn and mint of one conversion, and that an escrow   *)
(* settles once.                                                           *)
Worth(s, t) == Total(s) * pairs[<<s, t>>].rate + Total(t) * Scale
MintedWorth(s, t) ==
  minted[s] * pairs[<<s, t>>].rate + minted[t] * Scale
OnlyMintMakesValue ==
  [][\A s, t \in Tokens :
       Exists(s, t) /\ Exists(t, s) /\ pairs' = pairs =>
         \/ Worth(s, t)' <= Worth(s, t) + MintedWorth(s, t)'
         \/ \E u \in Tokens \ {s, t}, v \in {s, t}, a \in Accounts,
               n \in Amounts : Convert(a, u, v, n)
    ]_vars

(* Whatever is called, a frozen account does not lose a unit of the token: *)
(* not by a transfer, not to the converter, not into an escrow.            *)
FrozenPaysNothing ==
  [][\A t \in Tokens : \A a \in frozen[t] :
       balance'[t][a] >= balance[t][a]]_vars
=============================================================================
