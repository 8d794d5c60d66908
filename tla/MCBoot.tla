------------------------------- MODULE MCBoot -------------------------------
(* A small instance of Boot.tla for TLC. *)
EXTENDS Boot, TLC

CONSTANTS ann, i1

Mod(kind, key, code, seed, refs) ==
  [kind |-> kind, key |-> key, code |-> code, seed |-> seed, refs |-> refs]
Fixed(kind) == Mod(kind, kind, "", 0, {})
Play(seed)  == Mod("token", "play", "PLAY", seed, {})

(* A currency and a registry; the registry alone, which leads to the same  *)
(* address for it; and a third whose token has the name of a column for its*)
(* key.                                                                    *)
Small    == [mods |-> <<Play(1), Fixed("names")>>,
             pairs |-> <<>>, tld |-> "play"]
Registry == [mods |-> <<Fixed("names")>>, pairs |-> <<>>, tld |-> "play"]
Column   == [mods |-> <<Mod("token", "spent", "SPENT", 0, {})>>,
             pairs |-> <<>>, tld |-> "play"]
ThreeManifests == {Small, Registry, Column}
OneManifest  == {Small}

AnyFlags == {{}, {"ledger", "chain"}}
NoFlags  == {{}}

(* A manifest of every kind, too long for the state space: carried out on  *)
(* an empty chain its transactions pass the assertions, and a repeat, with *)
(* or without a record, needs none of them.                                *)
Full ==
  [mods |-> <<Play(2), Mod("token", "gem", "GEM", 0, {}), Fixed("names"),
              Fixed("converter"), Fixed("escrow"), Fixed("judgehook"),
              Mod("contract", "shop", "Shop", 0, {"play", "names"})>>,
   pairs |-> <<[source |-> "play", target |-> "gem", rate |-> 1],
               [source |-> "gem", target |-> "play", rate |-> 1]>>,
   tld |-> "play"]

ASSUME FullManifest ==
  LET c == FoldLeft(Performed, NoContracts, Script(Full)) IN
  /\ Accepted(Full) /\ ValidRecord(RecordFor(Full)) /\ Asserted(c, Full)
  /\ \A n \in DOMAIN Script(Full), rec \in BOOLEAN :
       ~Needed(c, {}, rec, Script(Full)[n])
=============================================================================
