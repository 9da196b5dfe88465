--------------------------- MODULE MCMitmSession ---------------------------
(* A small instance of MitmSession: one client, TLS and STARTTLS servers     *)
(* with bad certificates, DNS over UDP and the portal's magic address; a     *)
(* list that demands a login and denies mail, and one that balances and does *)
(* not know DNS.                                                             *)
EXTENDS MitmSession

Kind(flow, port, magic, udp, tls, cert) ==
    [client |-> "h", flow |-> flow, port |-> port, target |-> "t", magic |-> magic,
     udp |-> udp, tls |-> tls, cert |-> cert]

mcKinds == {Kind("web", 443, FALSE, FALSE, "tls", "bad"),
            Kind("mail", 25, FALSE, FALSE, "starttls", "bad"),
            Kind("dns", 53, FALSE, TRUE, "plain", "ok"),
            Kind("web", 80, TRUE, FALSE, "plain", "ok")}

Rule(flows, pass, nonat, auth, sink, route) ==
    [flows |-> flows, disabled |-> FALSE, pass |-> pass, nonat |-> nonat, auth |-> auth,
     tls |-> [replace |-> TRUE, override |-> TRUE], sink |-> sink, content |-> FALSE, route |-> route]

Staff == <<[authenticate |-> TRUE, resolve |-> TRUE, 
            sub |-> <<[name |-> "staff", tls |-> <<NoTls>>, content |-> FALSE]>>]>>

mcPolicies == {<<Rule({"mail"}, FALSE, FALSE, <<>>, {}, "no"), Rule({"web", "dns"}, TRUE, FALSE, Staff, {"L"}, "no")>>,
               <<Rule({"web", "mail"}, TRUE, TRUE, <<>>, {}, "rr")>>}

mcServers == {<<"t">>}
=============================================================================
