---------------------------- MODULE MCEventTail ----------------------------
(* Small instances of EventTail.tla for TLC. *)
EXTENDS EventTail

CONSTANTS send, call, fund

Other(kind, topic, from, expected) ==
  [kind |-> kind, topic |-> topic, from |-> from, expected |-> expected,
   own |-> FALSE]

(* a name; a stranger who quotes the intent, a second service that sends   *)
(* for it, a contract the intent does not name                             *)
PlainLogs   == {Other("name", NoIntent, "stranger", TRUE)}
QuotingLogs == {Other("emission", send, "stranger", TRUE),
                Other("emission", send, "wallet", TRUE),
                Other("event", send, "unnamed", FALSE)}
EveryLog    == PlainLogs \cup QuotingLogs
=============================================================================
