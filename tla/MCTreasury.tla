----------------------------- MODULE MCTreasury -----------------------------
(* Small instances of Treasury.tla for TLC. *)
EXTENDS Treasury, TLC

CONSTANTS ann, bob, hub, i1, i2, play, gold, swap, x, y, acct, pool

Send(w, i, to, t, n) ==
  [op |-> "send", wallet |-> w, id |-> i, to |-> to, token |-> t,
   amount |-> n, call |-> NoCall]
Call(w, i, a, n) ==
  [op |-> "call", wallet |-> w, id |-> i, to |-> pool, token |-> play,
   amount |-> n, call |-> [entry |-> swap, args |-> a]]
Fund(w, i, n) ==
  [op |-> "fund", wallet |-> w, id |-> i, to |-> w, token |-> play,
   amount |-> n, call |-> NoCall]
SetTo(w, i, n) ==
  [op |-> "set", wallet |-> w, id |-> i, to |-> w, token |-> play,
   amount |-> n, call |-> NoCall]
Admin(i, a, n) ==
  [op |-> "admin", wallet |-> hub, id |-> i, to |-> acct, token |-> play,
   amount |-> n, call |-> [entry |-> swap, args |-> a]]

Caps == [p \in Agents \X Tokens |->
           IF p = <<ann, play>> THEN 2 ELSE Unlimited]

(* ann against her cap in play with a send and a call, from one stage to  *)
(* the next; another wallet, another currency, without a bound, her own id *)
SpendInputs == {Send(ann, i1, bob, play, 2), Call(ann, i2, x, 1),
                Send(bob, i1, acct, gold, 1)}
(* an entry with a limit, ids used again for other arguments, the hub's own*)
CallInputs  == {Call(ann, i1, x, 2), Call(ann, i2, y, 0), Call(ann, i1, y, 0),
                Admin(i1, x, 1)}
(* four ways to use one id, while calls.json changes                       *)
FundInputs  == {Fund(ann, i1, 2), SetTo(ann, i1, 1), SetTo(ann, i1, 4),
                Call(ann, i1, x, 1)}

NoLimits  == {[e \in {swap} |-> NoLimit]}
OneLimit  == {[e \in {swap} |-> 1]}
TwoLimits == {[e \in {swap} |-> NoLimit], [e \in {swap} |-> 1]}

Symmetry == Permutations(Requests) \cup Permutations(Stages)
=============================================================================
