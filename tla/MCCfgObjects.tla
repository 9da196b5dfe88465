---------------------------- MODULE MCCfgObjects ----------------------------
(* A small instance of CfgObjects: a web server known by name, a network, a  *)
(* rule with every kind of profile and one that denies; the file in today's  *)
(* form, in that of schema 1000, and one without the section *_internal_*.   *)
EXTENDS CfgObjects

\* Blocks as libcidr makes them of v4 texts (BlocksRead).
Padded(lead, sect) == [i \in 0..15 |-> IF i < 10 THEN lead ELSE IF i < 12 THEN 3 ELSE sect[i - 11]]
V4(sect, mask) == [proto |-> "v4", addr |-> Padded(0, sect), mask |-> Padded(3, mask)]
Host(sect) == V4(sect, <<3, 3, 3, 3>>)

mcParsed == [t \in {"0.0.0.0/0", "0.0.0.0/32", "lan/4", "lan/mask", "net/6", "junk"} |->
                CASE t = "0.0.0.0/0" -> V4(<<0, 0, 0, 0>>, <<0, 0, 0, 0>>)
                  [] t = "0.0.0.0/32" -> Host(<<0, 0, 0, 0>>)
                  [] t \in {"lan/4", "lan/mask"} -> V4(<<1, 2, 0, 0>>, <<3, 3, 0, 0>>)
                  [] t = "net/6" -> V4(<<2, 0, 1, 0>>, <<3, 3, 3, 0>>)
                  [] t = "junk" -> NULL]

\* The same texts as the parser of libcidr sees them; 5 is no octet.
V4Text(sect, pf) == [form |-> "v4", sect |-> sect, pf |-> pf]
Tokens == [t \in DOMAIN mcParsed |->
                CASE t = "0.0.0.0/0" -> V4Text(<<0, 0, 0, 0>>, LenPf(0))
                  [] t = "0.0.0.0/32" -> V4Text(<<0, 0, 0, 0>>, LenPf(8))
                  [] t = "lan/4" -> V4Text(<<1, 2, 0, 0>>, LenPf(4))
                  [] t = "lan/mask" -> V4Text(<<1, 2, 0, 0>>, MaskPf(V4Text(<<3, 3, 0, 0>>, NoPf)))
                  [] t = "net/6" -> V4Text(<<2, 0, 1, 0>>, LenPf(6))
                  [] t = "junk" -> V4Text(<<5, 0, 0, 0>>, NoPf)]
ASSUME BlocksRead == \A t \in DOMAIN mcParsed : cidr_from_str(Tokens[t]) = mcParsed[t]

\* The text of a block is the one with a prefix length.
TextOf(parsed) ==
    [b \in Range(parsed) |->
        IF b = NULL THEN "" ELSE CHOOSE t \in DOMAIN parsed \ {"lan/mask"} : parsed[t] = b]
mcCidrText == TextOf(mcParsed)

mcExpanded == [t \in {"log^s"} |-> "log%s"]

mcNumbers == [t \in {"0", "1", "17", "53", "443", "8443", "50080", "2000", "70000", "10000000"} |->
                CASE t = "0" -> 0 [] t = "1" -> 1 [] t = "17" -> 17 [] t = "53" -> 53 [] t = "443" -> 443
                  [] t = "8443" -> 8443 [] t = "50080" -> 50080 [] t = "2000" -> 2000 [] t = "70000" -> 70000
                  [] t = "10000000" -> 10000000]

Server == Host(<<3, 0, 0, 1>>)
mcCaches == {NoFields, [k \in {<<"A", "web">>} |-> {Server}]}

Cx(host, port, sock) == [host |-> host, port |-> port, sock |-> sock]
Conn(src, dst, dport, sock) ==
    [ls |-> {Cx(src, 40000, sock)}, lda |-> {}, rs |-> {}, rda |-> {Cx(dst, dport, sock)}]
mcConns == {Conn(Host(<<1, 2, 0, 3>>), Server, 443, "SOCK_STREAM"),
            Conn(Host(<<1, 2, 0, 3>>), Host(<<2, 0, 1, 1>>), 53, "SOCK_DGRAM"),
            Conn(Host(<<2, 0, 1, 1>>), Server, 443, "SOCK_STREAM")}

Addr(old) ==
    IF old THEN [any |-> [type |-> "0", cidr |-> "0.0.0.0/0"], lan |-> [type |-> "0", cidr |-> "lan/4"],
                 web |-> [type |-> "1", fqdn |-> "web"]]
    ELSE [any |-> [type |-> "cidr", value |-> "0.0.0.0/0"], lan |-> [type |-> "cidr", value |-> "lan/mask"],
          web |-> [type |-> "fqdn", value |-> "web"]]

Web == [disabled |-> FALSE, proto |-> "tcp", src |-> <<"lan">>, sport |-> <<>>, dst |-> <<"web">>, dport |-> <<"https">>,
        action |-> "accept", nat |-> "auto", tls_profile |-> "t1", content_profile |-> "c1",
        detection_profile |-> "d1", alg_dns_profile |-> "a1", auth_profile |-> "au1", routing |-> "r1"]

Deny == [disabled |-> FALSE, proto |-> "udp", src |-> <<>>, sport |-> <<>>, dst |-> <<"any">>, dport |-> <<"all">>,
         features |-> <<>>, action |-> "deny", nat |-> "none"]

File(old) ==
    [obj |-> [address_objects |-> Addr(old),
              port_objects |-> [https |-> [start |-> 443, end |-> 443], all |-> [start |-> 65535, end |-> 0]],
              proto_objects |-> [tcp |-> [id |-> 6], udp |-> [id |-> 17]],
              detection_profiles |-> [d1 |-> [mode |-> 1]],
              content_profiles |-> [c1 |-> [write_payload |-> TRUE, content_rules |->
                    <<[match |-> "a", replace |-> "b", fill_length |-> TRUE]>>]],
              tls_profiles |-> [t1 |-> [inspect |-> TRUE, redirect_warning_ports |-> <<[int |-> TRUE, num |-> 443]>>],
                                t2 |-> new_tls_profile],
              alg_dns_profiles |-> [a1 |-> [match_request_id |-> TRUE]],
              auth_profiles |-> [au1 |-> [authenticate |-> TRUE, identities |-> [staff |-> [tls_profile |-> "t1"]]]],
              routing |-> [r1 |-> [dnat_address |-> <<"lan">>, dnat_port |-> <<>>, dnat_lb_method |-> "sticky-l3"]],
              tls_ca |-> NoFields],
     policy |-> <<IF old THEN Web ELSE [f \in DOMAIN Web \cup {"features"} |-> IF f = "features" THEN <<>> ELSE Web[f]], Deny>>,
     opt |-> [p \in {"s.plaintext_port", "s.auth_portal.address", "s.tuning.host_bufsz_min", "d.log.proxy", "s.log_file"}
                    \cup (IF old THEN {"s.write_payload_file_suffix", "s.write_pcap_single_quota"}
                          ELSE {"c.local.file_suffix", "c.local.format", "c.local.pcap_quota"}) |->
                CASE p = "s.plaintext_port" -> "50080" [] p = "s.auth_portal.address" -> "portal"
                  [] p = "s.tuning.host_bufsz_min" -> "2000" [] p = "d.log.proxy" -> "1" [] p = "s.log_file" -> "log%s"
                  [] p \in {"c.local.file_suffix", "s.write_payload_file_suffix"} -> "pcap"
                  [] p \in {"c.local.pcap_quota", "s.write_pcap_single_quota"} -> "443"
                  [] p = "c.local.format" -> "pcap"],
     schema |-> IF old THEN 1000 ELSE 1016, version |-> IF old THEN "earlier" ELSE "current"]

\* The third has no section *_internal_* and little else.
mcDisks == {File(TRUE), File(FALSE),
            [File(TRUE) EXCEPT !.version = "no section", !.policy = <<Deny>>,
                               !.obj = [sec \in Sections |-> IF sec \in {"address_objects", "port_objects", "proto_objects"} THEN @[sec] ELSE NoFields]]}

mcAdds == {<<"address_objects", "new">>, <<"proto_objects", "new">>, <<"tls_profiles", "new">>, <<"auth_profiles", "new">>,
           <<"tls_ca", "new">>, <<"port_objects", "ghost">>}

Set(sec, obj, field, args) == [sec |-> sec, obj |-> obj, field |-> field, args |-> args]
mcObjectSets ==
    {Set("address_objects", "lan", "value", <<"net/6">>), Set("address_objects", "web", "type", <<"cidr">>),
     Set("port_objects", "https", "start", <<"8443">>), Set("port_objects", "https", "end", <<"70000">>),
     Set("proto_objects", "tcp", "id", <<"17">>), Set("tls_profiles", "t1", "redirect_warning_ports", <<"8443", "junk">>),
     Set("tls_profiles", "t1", "redirect_warning_ports", <<"8443", "8443">>),
     Set("tls_profiles", "t2", "redirect_warning_ports", <<"443">>),
     Set("auth_profiles", "au1", "authenticate", <<"no">>), Set("routing", "r1", "dnat_address", <<"lan", "web">>)}

PSet(obj, field, args) == [obj |-> obj, field |-> field, args |-> args]
mcPolicySets ==
    {PSet(1, "dst", <<"any", "any">>), PSet(1, "dport", <<"ghost">>), PSet(1, "tls_profile", <<"new">>), PSet(1, "features", <<"sink-all">>), PSet(1, "features", <<"">>),
     PSet(2, "action", <<"reject">>), PSet(2, "nat", <<"">>), PSet(1, "disabled", <<>>)}
mcToggles == {PSet(1, "src", <<"lan">>), PSet(1, "src", <<"any">>), PSet(2, "disabled", <<>>)}
mcPortToggles == {"t1"}
mcOptionSets == {<<"s.plaintext_port", "8443">>, <<"s.auth_portal.address", "elsewhere">>, <<"c.local.format", "pcap_single">>,
                 <<"d.log.proxy", "0">>, <<"s.log_file", "log^s">>, <<"s.tuning.host_bufsz_min", "10000000">>}
mcRemoves == {<<"proto_objects", <<"tcp">>>>, <<"port_objects", <<"ghost">>>>, <<"tls_profiles", <<"t2", "t1">>>>,
              <<"address_objects", <<"lan">>>>, <<"auth_profiles", <<"au1">>>>}
=============================================================================
