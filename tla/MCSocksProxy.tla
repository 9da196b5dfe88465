---------------------------- MODULE MCSocksProxy ----------------------------
(***************************************************************************)
(* Small instances of SocksProxy: pass rules for one target, a deny rule   *)
(* for the other, lists that have none, one or both of them.               *)
(***************************************************************************)
EXTENDS SocksProxy

MCTargets == {"x", "y"}

PassX  == [disabled |-> FALSE, flows |-> {"x"}, pass |-> TRUE,  auth |-> FALSE]
AuthX  == [disabled |-> FALSE, flows |-> {"x"}, pass |-> TRUE,  auth |-> TRUE]
DenyY  == [disabled |-> FALSE, flows |-> {"y"}, pass |-> FALSE, auth |-> FALSE]

MCRules == {PassX, AuthX, DenyY}
MCInitList == <<AuthX>>
MCLists == {<<>>, <<AuthX>>, <<DenyY, PassX>>}
UdpLists == {<<>>, <<AuthX>>}

\* Control connections are interchangeable.
TcpSymmetry == Permutations(Tcp)

KeysOfAll == [c \in Tcp |-> Keys]
KeyOfAll == [c \in Udp |-> CHOOSE k \in Keys : TRUE]
=============================================================================
