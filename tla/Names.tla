------------------------------- MODULE Names -------------------------------
(***************************************************************************)
(* contracts/src/NameRegistry.sol as operators on a registry, and the rules*)
(* of svc/src/resolver.ts that read it.                                    *)
(*                                                                         *)
(* A registry holds the record of each name ever registered, the primary   *)
(* name of an address (its reverse), and the Registered events.  A name is *)
(* never given up, so it has one such event.  The service knows canonical  *)
(* names from aliases by their colon; the contract does not.               *)
(***************************************************************************)
EXTENDS Functions

CONSTANTS
  Canonical,  \* the names with a colon: agents' ids
  Aliases,    \* the names without
  Peer,       \* an alias that could be a local id |-> that id
  NoAddr, NoName

ASSUME NamesAssumption ==
  /\ Canonical \cap Aliases = {} /\ NoName \notin Canonical \cup Aliases
  /\ DOMAIN Peer \subseteq Aliases /\ Range(Peer) \subseteq Canonical

AllNames == Canonical \cup Aliases
NoRegistry == [rec |-> <<>>, back |-> <<>>, log |-> {}]

Resolve(r, name) == IF name \in DOMAIN r.rec THEN r.rec[name].target
                                             ELSE NoAddr
ReverseOf(r, addr) == IF addr \in DOMAIN r.back THEN r.back[addr] ELSE NoName
With(f, x, y) == [z \in DOMAIN f \cup {x} |-> IF z = x THEN y ELSE f[z]]
Without(f, x) == Restrict(f, DOMAIN f \ {x})

(* What a mistaken version would do: give the slot to the latest name      *)
PrimaryAfterLatest(r, name, target) == With(r.back, target, name)

(* The reverse is written on registration and into an empty slot only.     *)
PrimaryAfter(r, name, target) ==
  IF target \in DOMAIN r.back THEN r.back ELSE With(r.back, target, name)

Taken(r, name) == name \in DOMAIN r.rec

RegisterFor(r, name, owner, target) ==
  [rec  |-> With(r.rec, name, [owner |-> owner, target |-> target]),
   back |-> PrimaryAfter(r, name, target),
   log  |-> r.log \cup {[name |-> name, owner |-> owner, target |-> target]}]

(* The address a name was the primary name of loses it.                    *)
Unnamed(r, name) ==
  LET old == r.rec[name].target IN
  IF ReverseOf(r, old) = name THEN Without(r.back, old) ELSE r.back

SetTarget(r, name, target) ==
  [rec  |-> [r.rec EXCEPT ![name].target = target],
   back |-> Unnamed(r, name), log |-> r.log]

Transfer(r, name, owner) ==
  [rec  |-> [r.rec EXCEPT ![name].owner = owner],
   back |-> Unnamed(r, name), log |-> r.log]

-----------------------------------------------------------------------------
(* What a mistaken version would do: skip the wrong one of the two kinds   *)
AliasesNamedAs(r, addr) ==
  {e.name : e \in {x \in r.log : /\ x.owner = addr /\ x.target = addr
                                 /\ x.name = ReverseOf(r, addr)
                                 /\ Resolve(r, x.name) = addr}}

(* The names that belong to an address beside its primary one: registered  *)
(* by and for it, and pointing there still.                                *)
AliasesOf(r, addr) ==
  {e.name : e \in {x \in r.log : /\ x.owner = addr /\ x.target = addr
                                 /\ x.name # ReverseOf(r, addr)
                                 /\ Resolve(r, x.name) = addr}}

(* What a mistaken version would do: let the registered name win           *)
PickExact(exact, peer) == IF exact # NoAddr THEN exact ELSE peer

(* Two readings that lead to different wallets are refused; so which of the*)
(* two goes first cannot be seen.                                          *)
PickReading(exact, peer) ==
  IF exact # NoAddr /\ peer # NoAddr /\ exact # peer THEN NoAddr
  ELSE IF exact # NoAddr THEN exact ELSE peer

(* What a wallet that writes `to` pays.  A name with a colon, and a bare   *)
(* one that could be no local id, has one reading.                         *)
PaidAs(r, to) ==
  PickReading(Resolve(r, to),
              IF to \in DOMAIN Peer THEN Resolve(r, Peer[to]) ELSE NoAddr)
=============================================================================
