---------------------------- MODULE MCContracts ----------------------------
(* Two tokens, two addresses, one escrow; the creator's treasury, a judge  *)
(* and the winner's account are names that may come to point at either.    *)
EXTENDS Contracts

ThreeNames == {<<"c", "treasury">>, <<"c", "judge">>, <<"w", "acc">>}
NoPeer == <<>>
Pointing ==
  [name \in ThreeNames |-> IF name = <<"c", "treasury">> THEN "a1" ELSE "a2"]
Moving == {<<"w", "acc">>}
=============================================================================
