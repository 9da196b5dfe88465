---------------------------- MODULE PolicyMatch ----------------------------
(***************************************************************************)
(* How one policy rule is compared with one connection: PolicyRule::match  *)
(* of policy/policy.cpp over the address objects of policy/addrobj.cpp.    *)
(*                                                                         *)
(* A connection is given by its contexts: ls and rs (left and right        *)
(* sockets), lda and rda (the ones whose accept is delayed).  A context is *)
(* [host |-> block, port |-> number, sock |-> the type of its socket]; a   *)
(* port that is no number is -1, as safe_val has it.                       *)
(***************************************************************************)
EXTENDS Cidr

\* The DNS answers for a name, by the address family asked for.
find_dns_response(cache, fqdn, proto) ==
    LET key == <<IF proto = "v4" THEN "A" ELSE "AAAA", fqdn>>
    IN  IF key \in DOMAIN cache THEN cache[key] ELSE {}

\* CidrAddress::match and FqdnAddress::match.  A CidrAddress without block
\* contains nothing.
Blocks(a, proto, cache) ==
    IF a.type = "cidr" THEN {a.value} \ {NULL}
    ELSE find_dns_response(cache, a.value, proto)

AddressMatch(a, host, cache) == \E b \in Blocks(a, host.proto, cache) : cidr_contains(b, host)

\* An empty group accepts everything.
match_addrgrp_cx(group, cx, cache) ==
    group = {} \/ \E a \in group : AddressMatch(a, cx.host, cache)

match_rangegrp_cx(group, cx) ==
    group = {} \/ (cx.port >= 0 /\ \E r \in group : r.start <= cx.port /\ cx.port <= r.end)

\* Of several contexts one has to be accepted; none at all is accepted, too.
match_addrgrp_vecx(group, cxs, cache) == cxs = {} \/ \E cx \in cxs : match_addrgrp_cx(group, cx, cache)

match_rangegrp_vecx(group, cxs) == cxs = {} \/ \E cx \in cxs : match_rangegrp_cx(group, cx)

sock_2_net(sock) == CASE sock = "SOCK_STREAM" -> 6 [] sock = "SOCK_DGRAM" -> 17 [] OTHER -> 0

\* The protocol has to be that of every context; 0 stands for any.
match_proto_vecx(id, cxs) == \A cx \in cxs : sock_2_net(cx.sock) = id

\* match_proto_cx throws for a context that is neither TCP nor UDP.  No rule is
\* looked for without a TCPCom or a UDPCom, or a TLS one on top of them, on the left.
Matchable(c) == \A cx \in c.ls \cup c.lda : sock_2_net(cx.sock) # 0

\* PolicyRule::match(baseProxy*): r gives the values of the rule's groups.
RuleMatch(r, c, cache) ==
    /\ ~r.disabled
    /\ r.proto # 0 => match_proto_vecx(r.proto, c.ls \cup c.lda)
    /\ \A g \in {<<r.src, c.ls>>, <<r.src, c.lda>>, <<r.dst, c.rs>>, <<r.dst, c.rda>>} :
          match_addrgrp_vecx(g[1], g[2], cache)
    /\ \A g \in {<<r.sport, c.ls>>, <<r.sport, c.lda>>, <<r.dport, c.rs>>, <<r.dport, c.rda>>} :
          match_rangegrp_vecx(g[1], g[2])
=============================================================================
