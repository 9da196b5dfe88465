----------------------------- MODULE CfgValues -----------------------------
(***************************************************************************)
(* What `set` and `toggle` accept and write: the filters of                *)
(* service/cfgapi/cfgvalue.cpp and the writing of a field of an entry by   *)
(* CfgFactory::cfg_write_value.  Arguments are texts.                      *)
(***************************************************************************)
EXTENDS CfgSchema, CfgOptions, PolicyMatch

CONSTANTS Existing,     \* names of files and directories that exist
          Placed,       \* names of files whose directory exists
          Expanded,     \* file names with "^s" in them: name -> the same with "%s"
          HwThreads     \* threads the hardware runs at a time

ASSUME HwThreadsAssumption == HwThreads \in Nat

Features == {"sink-left", "sink-right", "sink-all"}

BoolFields ==
    {"disabled", "engines_enabled", "kb_enabled", "write_payload", "authenticate", "resolve"}
    \cup DOMAIN ProfileAlgDns
    \cup (DOMAIN ProfileTls \ {"sni_filter_bypass", "redirect_warning_ports", "ocsp_mode",
              "ocsp_stapling_mode", "failed_certcheck_override_timeout",
              "failed_certcheck_override_timeout_type"})

IntFields == {"start", "end", "id", "mode", "ocsp_mode", "ocsp_stapling_mode",
              "failed_certcheck_override_timeout", "failed_certcheck_override_timeout_type"}

ListFields == {"src", "dst", "sport", "dport", "features", "dnat_address", "dnat_port", "sni_filter_bypass"}

TrueTexts == {"true", "1", "yes", "t"}
FalseTexts == {"false", "0", "no", "f"}

VALUE_UINT_RANGE(a, b, v) == safe_val(v) >= a /\ safe_val(v) <= b

\* A text that denotes one host.
VALUE_IPHOST(v) == v \in DOMAIN Parsed /\ Parsed[v] # NULL /\ cidr_numhost(Parsed[v]) = 1

\* is_in_vector: keys_of_db_* lists null entries, too.
is_in_vector(db, sec, v) == v \in DOMAIN db[sec]

\* The filter of a field of the policy; an empty text is not shown to it.
PolicyFilter(db, f, v) ==
    CASE f = "proto" -> is_in_vector(db, "proto_objects", v)
      [] f \in {"src", "dst"} -> is_in_vector(db, "address_objects", v)
      [] f \in {"sport", "dport"} -> is_in_vector(db, "port_objects", v)
      [] f = "features" -> v \in Features
      [] f = "action" -> v \in {"accept", "reject"}
      [] f = "nat" -> v \in {"auto", "none"}
      [] f = "routing" -> v = "none" \/ is_in_vector(db, "routing", v)
      [] f \in DOMAIN ProfileSection \ {"routing"} -> is_in_vector(db, ProfileSection[f], v)
      [] OTHER -> TRUE

\* The filter of a field of an object.
ObjectFilter(db, sec, f, v) ==
    CASE f = "id" -> VALUE_UINT_RANGE(1, 255, v)
      [] f \in {"start", "end"} -> VALUE_UINT_RANGE(0, 65535, v)
      [] sec = "address_objects" /\ f = "type" -> v \in {"cidr", "fqdn"}
      [] f = "dnat_address" -> is_in_vector(db, "address_objects", v)
      [] f = "dnat_port" -> is_in_vector(db, "port_objects", v)
      [] f = "dnat_lb_method" -> v \in {"round-robin", "sticky-l3", "sticky-l4"}
      [] f = "write_format" -> v \in {"smcap", "pcap", "pcap_single"}
      [] f = "mode" -> VALUE_UINT_RANGE(0, 1, v)
      [] f \in {"engines_enabled", "kb_enabled", "sni_based_cert", "ip_based_cert"} -> v \in TrueTexts \cup FalseTexts
      [] OTHER -> TRUE

\* Fields that must not be empty.
NotEmpty(sec, f) ==
    \/ sec = "policy" /\ f \in {"proto", "action", "nat"}
    \/ f \in {"id", "start", "end", "write_format", "mode", "engines_enabled", "kb_enabled",
              "sni_based_cert", "ip_based_cert"}
    \/ sec = "address_objects"

\* Mutant: a name need not be one of the database.
value_check_mut(db, sec, f, v) == v # "" \/ ~NotEmpty(sec, f)

\* An empty text is no address, whatever may be empty.
value_check(db, sec, f, v) ==
    IF v = "" THEN ~NotEmpty(sec, f) /\ ~(sec = "policy" /\ f \in {"src", "dst"})
    ELSE IF sec = "policy" THEN PolicyFilter(db, f, v) ELSE ObjectFilter(db, sec, f, v)

\* make_bool and make_int: what a text is in a field of that type.  An empty
\* text is true, or 0; one that is no number makes std::stoi throw.
make_bool(v) == IF v = "" \/ v \in TrueTexts \cup {"y"} THEN {TRUE}
                ELSE IF v \in FalseTexts \cup {"n"} THEN {FALSE} ELSE {}
make_int(v) == IF v = "" THEN {0} ELSE IF v \in DOMAIN Numbers THEN {Numbers[v]} ELSE {}

\* write_value on a scalar of entry e: the values it may store, none if it
\* refuses.  The type of an address in the old form is a number.
write_value(db, sec, e, f, v) ==
    IF ~value_check(db, sec, f, v) THEN {}
    ELSE IF f \in BoolFields THEN make_bool(v)
    ELSE IF f \in IntFields \/ (f = "type" /\ ~Has(e, {"value"})) THEN make_int(v)
    ELSE {v}

\* Ports of a TLS profile go unchecked into the array after it was emptied, as
\* numbers if the array held numbers and as texts if it was empty; the first
\* text that is no number ends the writing with an exception.
write_ports(old, args) ==
    LET int == old # <<>> /\ old[1].int
        bad == {i \in 1..Len(args) : int /\ args[i] \notin DOMAIN Numbers}
        upto == IF bad = {} THEN Len(args) ELSE (CHOOSE i \in bad : \A j \in bad : i <= j) - 1
    IN  [ok |-> bad = {}, new |-> [i \in 1..upto |-> [int |-> int, num |-> safe_val(args[i])]]]

\* CfgValueCleaner::dedup: the first of equal arguments stays.
dedup(args) == FoldLeft(LAMBDA seen, a : IF a \in Range(seen) THEN seen ELSE Append(seen, a), <<>>, args)

\* CfgFactory::cfg_write_value on field f of an entry: whether it succeeds, and
\* the entry it leaves.  A list is checked as a whole before it is replaced.
cfg_write_value(db, sec, e, f, args) ==
    LET no == [ok |-> FALSE, entry |-> e]
        first == IF args = <<>> THEN "" ELSE args[1]
    IN  IF f = "redirect_warning_ports"
        THEN LET w == write_ports(e[f], args) IN [ok |-> w.ok, entry |-> [e EXCEPT ![f] = w.new]]
        ELSE IF f \in ListFields
        THEN IF \A i \in DOMAIN args : value_check(db, sec, f, args[i])
             THEN [ok |-> TRUE, entry |-> [e EXCEPT ![f] = args]] ELSE no
        ELSE IF write_value(db, sec, e, f, first) = {} THEN no
        ELSE [ok |-> TRUE, entry |-> [e EXCEPT ![f] = CHOOSE v \in write_value(db, sec, e, f, first) : TRUE]]

\* CfgValueCleaner::toggle: take out what is there, add what is not.
toggle(old, args) ==
    SelectSeq(old, LAMBDA a : a \notin Range(args)) \o SelectSeq(args, LAMBDA a : a \notin Range(old))

-----------------------------------------------------------------------------
(* Options.                                                                 *)

BoolOptions ==
    {"s.accept_tproxy", "s.accept_redirect", "s.accept_socks", "s.accept_api", "s.ssl_autodetect",
     "s.ssl_autodetect_harder", "s.log_console", "s.socks.async_dns", "s.http_api.pam_login",
     "s.http_api.key_extend_on_access", "s.http_api.loopback_only", "c.local.enabled", "c.remote.enabled"}

PortOptions == {"s.plaintext_port", "s.ssl_port", "s.udp_port", "s.dtls_port", "s.socks_port",
                "s.auth_portal.http_port", "s.auth_portal.https_port", "s.cli.port", "s.http_api.port"}

WorkerOptions == {"s.plaintext_workers", "s.ssl_workers", "s.udp_workers", "s.dtls_workers", "s.socks_workers"}

PathOptions == {"s.certs_path", "s.certs_ctlog", "s.ca_bundle_path", "s.ca_bundle_file", "s.messages_dir",
                "s.auth_portal.ssl_key", "s.auth_portal.ssl_cert", "s.write_payload_dir", "c.local.dir"}

\* The filter of an option; the two that may not be changed have none that accepts.
OptionFilter(p, v) ==
    CASE p \in BoolOptions -> v \in TrueTexts \cup FalseTexts
      [] p \in PortOptions -> VALUE_UINT_RANGE(1024, 65535, v)
      [] p \in PathOptions -> v \in Existing
      [] p \in {"s.ssl_ocsp_status_ttl", "s.ssl_crl_status_ttl"} -> FALSE
      [] p \in {"s.log_level", "s.syslog_level"} -> VALUE_UINT_RANGE(0, 8, v)
      [] p \in WorkerOptions -> VALUE_UINT_RANGE(0, HwThreads, v)
      [] p = "s.log_file" -> v \in Placed \cap DOMAIN Expanded
      [] p = "s.sslkeylog_file" -> v \in Placed
      [] p \in {"s.syslog_port", "s.tuning.proxy_thread_spray_min"} -> VALUE_UINT_RANGE(0, 65535, v)
      [] p = "s.syslog_facility" -> VALUE_UINT_RANGE(0, 32, v)
      [] p = "s.syslog_family" -> v \in {"4", "6"}
      [] p \in {"s.syslog_server", "s.auth_portal.magic_ip", "c.remote.tun_dst"} -> VALUE_IPHOST(v)
      [] p = "s.tuning.host_bufsz_min" -> VALUE_UINT_RANGE(1500, 10000000, v)
      [] p = "s.tuning.host_bufsz_max_multiplier" -> VALUE_UINT_RANGE(1, 1024000000, v)
      [] p = "s.tuning.host_write_full" -> VALUE_UINT_RANGE(1024, 1024000000, v)
      [] p = "s.http_api.key_timeout" -> safe_val(v) > 0
      [] p \in {"c.local.pcap_quota", "s.write_pcap_single_quota"} -> safe_val(v) >= 0
      [] p = "c.local.format" -> v \in {"pcap_single", "pcap", "smcap"}
      [] p = "c.remote.tun_ttl" -> VALUE_UINT_RANGE(0, 255, v)
      [] p = "c.remote.tun_type" -> v = "gre"
      [] OTHER -> TRUE

\* Options that must not be empty.
OptionNotEmpty ==
    BoolOptions \cup WorkerOptions \cup SettingsGuarded \cup (PortOptions \ {"s.http_api.port"})
    \cup (PathOptions \ {"s.certs_ctlog", "s.ca_bundle_file"})
    \cup {"s.ssl_ocsp_status_ttl", "s.ssl_crl_status_ttl", "s.log_level", "s.log_file", "s.auth_portal.address",
          "s.auth_portal.magic_ip", "s.tuning.proxy_thread_spray_min", "s.http_api.key_timeout",
          "s.write_pcap_single_quota", "c.local.pcap_quota", "c.local.format", "c.remote.tun_type",
          "c.remote.tun_dst", "c.remote.tun_ttl"}

OptionCheck(p, v) == IF v = "" THEN p \notin OptionNotEmpty ELSE OptionFilter(p, v)

\* Options that are numbers and truth values in the file without a filter for it.
IntOptions ==
    WorkerOptions \cup SettingsGuarded
    \cup {"s.ssl_ocsp_status_ttl", "s.ssl_crl_status_ttl", "s.log_level", "s.syslog_port", "s.syslog_facility",
          "s.syslog_level", "s.syslog_family", "s.cli.port", "s.tuning.proxy_thread_spray_min",
          "s.http_api.key_timeout", "s.http_api.port", "s.write_pcap_single_quota", "c.local.pcap_quota",
          "c.remote.tun_ttl", "d.log.sslcom", "d.log.sslmitmcom", "d.log.sslcertstore", "d.log.proxy",
          "d.log.epoll", "d.log.alg_dns", "d.log.pkt_dns"}

FlagOptions == {"s.ssl_use_ktls", "s.socks.ipver_mixing", "s.socks.prefer_ipv6", "d.log_data_crc", "d.log_sockets",
                "d.log_online_cx_name", "d.log_srclines", "d.log_srclines_always", "d.log.mtrace",
                "d.log.openssl_mem_dbg"}

\* The text an option is written as, none if it is refused: write_value.
OptionText(p, v) ==
    IF ~OptionCheck(p, v) THEN {}
    ELSE IF p \in BoolOptions \cup FlagOptions THEN {IF b THEN "true" ELSE "false" : b \in make_bool(v)}
    ELSE IF p \in IntOptions THEN {IF v = "" THEN "0" ELSE v : n \in make_int(v)}
    ELSE IF p = "s.log_file" THEN {Expanded[v]} ELSE {v}
=============================================================================
