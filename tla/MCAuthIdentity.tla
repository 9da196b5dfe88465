--------------------------- MODULE MCAuthIdentity ---------------------------
(***************************************************************************)
(* Two addresses, two users; each worker serves a client at the first      *)
(* address, where users change, while the second has logins of its own.    *)
(***************************************************************************)
EXTENDS AuthIdentity

CONSTANTS ip1, ip2

MCIps == {ip1, ip2}
MCHostOf == [w \in Workers |-> ip1]
=============================================================================
