------------------------------ MODULE MCAgent ------------------------------
(* Small instances of Agent.tla and of PolicyRules.tla for TLC. *)
EXTENDS Agent, TLC

bob == <<"acme", ":", "bob">>
mal == <<"acme", ":", "mal">>
sly == <<"sly", ".", "play">>

TwoAddresses == (bob :> "0xb") @@ (mal :> "0xm") @@ (sly :> "0xm")
TwoWallets == (bob :> bob) @@ (mal :> mal) @@ (sly :> mal)

Send(to, t) == [kind |-> "send", to |-> to, amount |-> 2, token |-> t]

(* a payment, again, under a new id, in another currency; a call; and one  *)
(* the file may forbid                                                     *)
FourAsks == {[id |-> "i1", pay |-> Send(bob, "play")],
            [id |-> "i2", pay |-> Send(bob, "play")],
            [id |-> "i1", pay |-> Send(bob, "gold")],
            [id |-> "i1", pay |-> [kind |-> "call", what |-> "swap"]]}

Literal(n) == [star |-> "none", text |-> n]
TwoFiles == {NoFile, Doc("deny" :> {Literal(bob)})}

-----------------------------------------------------------------------------
(* PolicyRules over every document of a small vocabulary *)

Values == {1, 3, Unlimited, TooFine, Junk}
Entries == UNION {[bs -> Values] : bs \in SUBSET Bounds}
           \cup {Junk, [b \in {"typo"} |-> 1]}
SomeCaps == {Junk} \cup [{"play"} -> Entries] \cup {[t \in {} |-> 1]}
Lists == {{}, {Literal(bob)}, {Literal(mal)},
          {[star |-> "all", text |-> <<>>]},
          {[star |-> "trail", text |-> <<"acme", ":">>]},
          {[star |-> "lead", text |-> <<".", "play">>]},
          {[star |-> "odd", text |-> bob]}}
ListPart == {NoRules} \cup {k :> l : k \in {"allow", "deny"}, l \in Lists}
            \cup {"allow" :> Junk, "typo" :> 1, "frozen" :> 1}
CapsPart == {NoRules} \cup {"caps" :> c : c \in SomeCaps}
            \cup UNION {[bs -> Values] : bs \in SUBSET Bounds}
Documents == {Over(x, y) : x \in CapsPart, y \in ListPart}
SomeFiles == {NoFile, Torn} \cup {Doc(d) : d \in Documents}

ASSUME LocalRefusalsStand ==
  \A f \in SomeFiles, to \in {bob, mal}, t \in {"play", "gold"} :
    LocalRefusalStands(f, NoRules, to, TwoAddresses, 2, t)

(* Not so under an alias, which the tool judges as it is written and the   *)
(* service by both names.                                                  *)
ASSUME AliasRefusedLocally ==
  LET only == Doc("allow" :> {Literal(mal)}) IN
  /\ CheckLocally(LocalRead(only), sly, 2, "play") # "ok"
  /\ ServiceVerdict(only, NoRules, sly, mal, TwoAddresses, 2, "play") = "ok"

ASSUME GateAgreesWithItsReader == \A d \in Documents : GateAgrees(d)

Bases == {d \in Documents : IsRead(d)}
ASSUME WritesAreReadable ==
  \A v \in Documents, b \in {x \in Bases : DOMAIN x \subseteq {"caps"}} :
    WrittenIsReadable(v, b)
=============================================================================
