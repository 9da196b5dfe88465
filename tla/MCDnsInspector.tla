--------------------------- MODULE MCDnsInspector ---------------------------
(***************************************************************************)
(* One name of an address object and one of a client's own; responses with *)
(* equal TTLs and with a later answer that expires before the first.       *)
(***************************************************************************)
EXTENDS DnsInspector

MCAnswers == {[ttl |-> 1, least |-> 1], [ttl |-> 1, least |-> 0]}
=============================================================================
