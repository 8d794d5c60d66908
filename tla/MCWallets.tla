----------------------------- MODULE MCWallets -----------------------------
(* A small instance of Wallets.tla for TLC: two agents of one namespace and*)
(* one bare name, the local id of the second.                              *)
EXTENDS Wallets, TLC

CONSTANTS ann, bob, rob, j1, j2

RobIsBob    == rob :> bob
AgentsCap   == [kind \in Kinds |-> IF kind = "agent" THEN {"caps"} ELSE {}]
Symmetry    == Permutations(Jobs)

Spawn(a, kind, fund, alias, doc) ==
  [op |-> "spawn", agent |-> a, kind |-> kind, fund |-> fund,
   alias |-> alias, doc |-> doc]
Other(op, a, alias, doc) ==
  [Spawn(a, "agent", 0, alias, doc) EXCEPT !.op = op]

SmallAsks ==
  {Spawn(ann, "agent", 1, rob, {"caps"}),
   Spawn(bob, "burner", 0, NoName, NoDoc),
   Spawn(bob, "agent", 0, NoName, NoDoc),
   Other("alias", ann, rob, NoDoc), Other("alias", bob, rob, NoDoc),
   Other("retire", ann, NoName, NoDoc), Other("retire", bob, NoName, NoDoc),
   Other("patch", ann, NoName, {"deny"}), Other("clear", ann, NoName, NoDoc)}
=============================================================================
