---------------------------- MODULE PolicyRules ----------------------------
(***************************************************************************)
(* What a wallet may spend and on whom, as operators on a policy document. *)
(* Two programs judge the same file: chain-svc (svc/src/policy.ts and      *)
(* treasury.ts), whose word is final, and the agent's tool before it       *)
(* (wallet-mcp/src/policy.ts), whose word only saves a round trip.         *)
(*                                                                         *)
(* A document is a function on the keys somebody wrote; so are its caps and*)
(* a token's bounds.  A value nobody can read, of any shape, is Junk.  A   *)
(* list is the set of its patterns and a name the sequence of its parts.   *)
(* A cap is its amount in the token's least unit; TooFine stands for one   *)
(* written with more than eighteen places.                                 *)
(***************************************************************************)
EXTENDS Integers, SequencesExt

CONSTANTS
  Tokens, Default,      \* the deployed token keys; the default one
  NoToken,              \* the default of a deployment without a token
  Junk, Unlimited, TooFine,
  FineWorth,            \* what a TooFine is worth when it is cut off
  Tld                   \* the part "{tld}" of a pattern

ASSUME PolicyAssumption ==
  /\ FineWorth \in Nat /\ Default \in Tokens \cup {NoToken}
  /\ TooFine \notin Nat \cup {Unlimited}

(* A file, and what a read or a check of a document comes to               *)
NoFile     == [is |-> "none"]
Torn       == [is |-> "torn"]
Unreadable == [is |-> "unreadable"]
Refused    == [is |-> "refused"]
Doc(p)     == [is |-> "doc", doc |-> p]

NoRules == <<>>
Bounds == {"max_per_tx", "max_per_stage"}
PolicyKeys == {"agentId", "caps", "allow", "deny", "frozen"} \cup Bounds

Has(f, key) == key \in DOMAIN f
Only(f, keys) == [k \in DOMAIN f \cap keys |-> f[k]]
Over(f, g) == [k \in DOMAIN f \cup DOMAIN g |-> IF Has(g, k) THEN g[k] ELSE f[k]]

-----------------------------------------------------------------------------
(* Documents: svc/src/policy.ts *)

IsCap(v) == v = Unlimited \/ v \in Nat \ {0}
IsNameList(v) == v # Junk

(* The shape of a token's entry, and its shape and values.                 *)
IsTokenCaps(e) == e # Junk /\ DOMAIN e \subseteq Bounds
IsUsableCaps(e) == IsTokenCaps(e) /\ \A b \in DOMAIN e : IsCap(e[b])

ListsUsable(p) == \A l \in {"allow", "deny"} \cap DOMAIN p : IsNameList(p[l])
AreCaps(caps) == caps # Junk /\ \A t \in DOMAIN caps : IsTokenCaps(caps[t])
LegacyUsable(p) == \A b \in Bounds \cap DOMAIN p : IsCap(p[b])

IsPolicy(p) ==
  /\ p # Junk /\ DOMAIN p \subseteq PolicyKeys
  /\ ListsUsable(p)
  /\ IF Has(p, "caps") THEN AreCaps(p.caps) ELSE LegacyUsable(p)

(* The caps a document comes to: its own, or the legacy pair, which is     *)
(* about the default token.                                                *)
LegacyCaps(p) == [t \in {Default} |-> Only(p, Bounds)]
IsLegacy(p) == ~Has(p, "caps") /\ Bounds \cap DOMAIN p # {}

Normalised(p) ==
  LET rest == Only(p, {"caps", "allow", "deny"}) IN
  IF IsLegacy(p) THEN [k \in DOMAIN rest \cup {"caps"} |->
                         IF k = "caps" THEN LegacyCaps(p) ELSE rest[k]]
  ELSE rest

Normalise(p) ==
  IF \/ ~ListsUsable(p)
     \/ Has(p, "caps") /\ ~AreCaps(p.caps)
     \/ IsLegacy(p) /\ (~LegacyUsable(p) \/ Default = NoToken)
  THEN Refused ELSE Doc(Normalised(p))

(* No file is no rules; a file that cannot be read is not.                 *)
ReadPolicyFile(file) ==
  IF file.is = "none" THEN NoFile
  ELSE IF \/ file.is = "torn" \/ ~IsPolicy(file.doc)
          \/ Normalise(file.doc).is = "refused"
  THEN Unreadable ELSE Normalise(file.doc)

PolicyFor(file, kindDefault) ==
  LET read == ReadPolicyFile(file) IN
  IF read.is = "none" THEN Doc(kindDefault) ELSE read

-----------------------------------------------------------------------------
(* Patterns *)

MatchesPattern(p, name) ==
  \/ p.star = "all"
  \/ p.star = "lead"  /\ IsSuffix(p.text, name)
  \/ p.star = "trail" /\ IsPrefix(p.text, name)
  \/ p.star = "none"  /\ p.text = name

PatternsUsable(list) == \A p \in list : p.star # "odd"

IsDenied(p, name) ==
  Has(p, "deny") /\ \E x \in p.deny : MatchesPattern(x, name)
IsAllowed(p, name) ==
  ~Has(p, "allow") \/ \E x \in p.allow : MatchesPattern(x, name)

-----------------------------------------------------------------------------
(* What the service answers to a send *)

CapsOf(p, t) == IF Has(p, "caps") /\ Has(p.caps, t) THEN p.caps[t] ELSE <<>>
CapsRefused(p, t) == \E b \in DOMAIN CapsOf(p, t) : ~IsCap(CapsOf(p, t)[b])

Bounded(caps, b) == Has(caps, b) /\ caps[b] # Unlimited
StageCapWei(p, t) ==
  IF Bounded(CapsOf(p, t), "max_per_stage")
  THEN CapsOf(p, t)["max_per_stage"] ELSE Unlimited

EnforcePolicy(p, to, canonical, amount, t) ==
  LET caps == CapsOf(p, t)
      names == {to, canonical}
  IN  IF amount <= 0 THEN "invalid_amount"
      ELSE IF CapsRefused(p, t) THEN "no_cap_set"
      ELSE IF Bounded(caps, "max_per_tx") /\ amount > caps["max_per_tx"]
           THEN "over_max_per_tx"
      ELSE IF \/ \E n \in names : IsDenied(p, n)
              \/ \A n \in names : ~IsAllowed(p, n)
           THEN "counterparty_denied"
      ELSE "ok"

(* A deny entry without a star denies whoever the name leads to now.       *)
DeniedByIdentity(p, target, lookup) ==
  Has(p, "deny") /\ \E x \in p.deny : /\ x.star = "none"
                                      /\ Has(lookup, x.text)
                                      /\ lookup[x.text] = target

ServiceVerdict(file, kindDefault, to, canonical, lookup, amount, t) ==
  LET p == PolicyFor(file, kindDefault)
      judged == EnforcePolicy(p.doc, to, canonical, amount, t)
  IN  IF p.is = "unreadable" THEN "no_cap_set"
      ELSE IF judged # "ok" THEN judged
      ELSE IF DeniedByIdentity(p.doc, lookup[to], lookup)
           THEN "counterparty_denied"
      ELSE "ok"

-----------------------------------------------------------------------------
(* What the agent's tool answers first: wallet-mcp/src/policy.ts *)

IsCapAmount(v) == IsCap(v) \/ v = TooFine
VeeToWei(v) == IF v = TooFine THEN FineWorth ELSE v

LocalRead(file) ==
  IF file.is = "none" THEN NoFile
  ELSE IF \/ file.is = "torn" \/ file.doc = Junk
          \/ ~(DOMAIN file.doc \subseteq PolicyKeys)
          \/ ~ListsUsable(file.doc)
          \/ Has(file.doc, "caps") /\ ~AreCaps(file.doc.caps)
          \/ IsLegacy(file.doc) /\ Default = NoToken
  THEN Unreadable ELSE Doc(Normalised(file.doc))

LocalCapsRefused(p, t) ==
  \E b \in DOMAIN CapsOf(p, t) : ~IsCapAmount(CapsOf(p, t)[b])

CheckLocally(read, to, amount, t) ==
  LET caps == CapsOf(read.doc, t) IN
  IF read.is = "none" THEN "ok"
  ELSE IF read.is = "unreadable" \/ LocalCapsRefused(read.doc, t)
       THEN "no_cap_set"
  ELSE IF /\ Bounded(caps, "max_per_tx")
          /\ amount > VeeToWei(caps["max_per_tx"])
       THEN "over_max_per_tx"
  ELSE IF IsDenied(read.doc, to) \/ ~IsAllowed(read.doc, to)
       THEN "counterparty_denied"
  ELSE "ok"

-----------------------------------------------------------------------------
(* Documents an operator writes: kind defaults at boot, a spawn, a PATCH *)

(* `*` stands for every deployed token that has no entry of its own.       *)
ExpandCaps(raw) ==
  IF \/ raw = Junk \/ DOMAIN raw = {}
     \/ \E t \in DOMAIN raw : ~IsUsableCaps(raw[t]) \/ t \notin Tokens \cup {"*"}
  THEN Refused
  ELSE Doc([t \in (DOMAIN raw \cap Tokens)
                  \cup (IF Has(raw, "*") THEN Tokens ELSE {}) |->
              IF Has(raw, t) THEN raw[t] ELSE raw["*"]])

(* A pattern that names the TLD gets it, and is dropped when there is none.*)
FillPatterns(list, tld) ==
  {IF Contains(p.text, Tld)
   THEN [p EXCEPT !.text = ReplaceAll(@, Tld, tld)] ELSE p :
     p \in {x \in list : tld = Junk => ~Contains(x.text, Tld)}}

LoadPolicyDefaults(entry, tld) ==
  LET caps == IF Has(entry, "caps") THEN ExpandCaps(entry.caps) ELSE Refused IN
  IF \/ ~({"allow", "deny"} \subseteq DOMAIN entry /\ ListsUsable(entry))
     \/ ~(DOMAIN entry \subseteq PolicyKeys)
     \/ caps.is = "refused"
  THEN Refused
  ELSE Doc([caps |-> caps.doc, allow |-> FillPatterns(entry.allow, tld),
            deny |-> FillPatterns(entry.deny, tld)])

(* A caps map replaces the base's; the legacy pair amends one entry of it. *)
MergedCaps(v, base) ==
  IF Has(v, "caps") THEN Only(v, {"caps"})
  ELSE IF IsLegacy(v)
  THEN [caps |-> Over(IF Has(base, "caps") THEN base.caps ELSE <<>>,
                      [t \in {Default} |->
                         Over(CapsOf(base, t), Only(v, Bounds))])]
  ELSE Only(base, {"caps"})

Merged(v, base) ==
  Over(MergedCaps(v, base), Over(Only(base, {"allow", "deny"}),
                                 Only(v, {"allow", "deny"})))

MergePolicy(v, base) ==
  LET m == Merged(v, base) IN
  IF \/ ~LegacyUsable(v) \/ ~ListsUsable(v)
     \/ Has(v, "caps") /\ (v.caps = Junk \/ \E t \in DOMAIN v.caps :
                                              ~IsUsableCaps(v.caps[t]))
     \/ IsLegacy(v) /\ (Default = NoToken \/ ~IsUsableCaps(m.caps[Default]))
     \/ \E l \in {"allow", "deny"} \cap DOMAIN m : ~PatternsUsable(m[l])
  THEN Refused ELSE Doc(m)

-----------------------------------------------------------------------------
(* Properties *)

(* What the tool refuses under a canonical name, the service would refuse: *)
(* the check inside the persona never forbids more than the boundary.      *)
LocalRefusalStands(file, kindDefault, to, lookup, amount, t) ==
  CheckLocally(LocalRead(file), to, amount, t) # "ok" =>
    ServiceVerdict(file, kindDefault, to, to, lookup, amount, t) # "ok"

(* Every shape the gate accepts comes out of normalisePolicy, where there  *)
(* is a token for a legacy pair to be about.                               *)
GateAgrees(p) ==
  IsPolicy(p) /\ (IsLegacy(p) => Default # NoToken) => Normalise(p).is = "doc"

(* A document the service has read before.                                 *)
IsRead(p) == IsPolicy(p) /\ DOMAIN p \subseteq {"caps", "allow", "deny"}

(* What a spawn or a PATCH writes can be read again, by both programs, as  *)
(* what was written: a write never leaves a wallet that refuses everything.*)
WrittenIsReadable(v, base) ==
  MergePolicy(v, base).is = "doc" =>
    /\ ReadPolicyFile(MergePolicy(v, base)) = MergePolicy(v, base)
    /\ LocalRead(MergePolicy(v, base)) = MergePolicy(v, base)
=============================================================================
