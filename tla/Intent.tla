------------------------------- MODULE Intent -------------------------------
(***************************************************************************)
(* What an intent id promises to the wallet that chose it, whatever the    *)
(* service does underneath: it is taken, it may be given back as long as   *)
(* nothing was sent for it, one transaction goes out for it, and once its  *)
(* hash is known that hash is its answer for ever.                         *)
(*                                                                         *)
(* Treasury.tla implements this specification.  It states what store.ts    *)
(* says of the intents table ("THE IDEMPOTENCY KEY'S LIFETIME IS THE       *)
(* GAME'S"), in the comments at completeIntent and release.                *)
(***************************************************************************)
CONSTANTS Keys,     \* the intents
          Hashes    \* the transactions

VARIABLES taken,    \* the intents that are taken
          sent,     \* the transactions sent for an intent
          known     \* the transactions whose hash the ledger holds

vars == <<taken, sent, known>>

Init == /\ taken = {}
        /\ sent  = [k \in Keys |-> {}]
        /\ known = [k \in Keys |-> {}]

Take(k) ==
  /\ k \notin taken
  /\ taken' = taken \cup {k}
  /\ UNCHANGED <<sent, known>>

GiveBack(k) ==
  /\ k \in taken /\ sent[k] = {}
  /\ taken' = taken \ {k}
  /\ UNCHANGED <<sent, known>>

SendOut(k) ==
  /\ k \in taken /\ sent[k] = {}
  /\ \E h \in Hashes : sent' = [sent EXCEPT ![k] = {h}]
  /\ UNCHANGED <<taken, known>>

Learn(k) ==
  /\ sent[k] # {} /\ known[k] = {}
  /\ known' = [known EXCEPT ![k] = sent[k]]
  /\ UNCHANGED <<taken, sent>>

Next == \E k \in Keys : Take(k) \/ GiveBack(k) \/ SendOut(k) \/ Learn(k)

Spec == Init /\ [][Next]_vars
=============================================================================
