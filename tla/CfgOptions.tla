----------------------------- MODULE CfgOptions -----------------------------
(***************************************************************************)
(* The options outside the object sections: settings, captures and debug   *)
(* of the configuration file, and the upgrade of an older file             *)
(* (service/cfgapi/cfgapi.cpp).                                            *)
(*                                                                         *)
(* Options are functions from a path to a text.  A running option that is  *)
(* not in the function has its built-in value.  Paths are written from the *)
(* section on: "s.x" is settings.x, "c.x" captures.x, "d.x" debug.x.       *)
(***************************************************************************)
EXTENDS Integers, Sequences, Functions

CONSTANT Numbers     \* the texts of the instance that are numbers: text -> value

\* safe_val: -1 for what is no number.
safe_val(t) == IF t \in DOMAIN Numbers THEN Numbers[t] ELSE -1

SCHEMA_VERSION == 1016

\* Taken over as they are by load_settings and written by save_settings.
SettingsPlain ==
    {"s.accept_tproxy", "s.accept_redirect", "s.accept_socks", "s.accept_api", "s.plaintext_port",
     "s.plaintext_workers", "s.ssl_port", "s.ssl_workers", "s.udp_port", "s.udp_workers",
     "s.dtls_port", "s.dtls_workers", "s.certs_path", "s.certs_ca_key_password", "s.ca_bundle_path",
     "s.ca_bundle_file", "s.ssl_autodetect", "s.ssl_autodetect_harder", "s.ssl_ocsp_status_ttl",
     "s.ssl_crl_status_ttl", "s.ssl_use_ktls", "s.socks_port", "s.socks_workers",
     "s.socks.async_dns", "s.socks.ipver_mixing", "s.socks.prefer_ipv6", "s.log_level",
     "s.syslog_server", "s.syslog_port", "s.syslog_facility", "s.syslog_level", "s.syslog_family",
     "s.messages_dir", "s.cli.port", "s.cli.enable_password", "s.admin.group",
     "s.auth_portal.address", "s.auth_portal.http_port", "s.auth_portal.https_port",
     "s.auth_portal.ssl_key", "s.auth_portal.ssl_cert", "s.tuning.proxy_thread_spray_min",
     "s.http_api.keys", "s.http_api.key_timeout", "s.http_api.key_extend_on_access",
     "s.http_api.loopback_only", "s.http_api.pam_login"}

\* Taken only when the number is sensible.
SettingsGuarded == {"s.tuning.host_bufsz_min", "s.tuning.host_bufsz_max_multiplier", "s.tuning.host_write_full"}

Sensible(path, t) ==
    CASE path = "s.tuning.host_bufsz_min" -> safe_val(t) >= 1500 /\ safe_val(t) < 10000000
      [] path = "s.tuning.host_bufsz_max_multiplier" -> safe_val(t) > 0
      [] path = "s.tuning.host_write_full" -> safe_val(t) >= 1024

\* Set when the process starts, not by a reload.
StartOnly == {"s.log_file", "s.sslkeylog_file", "s.log_console"}

Update(opt, new) == [p \in DOMAIN opt \cup DOMAIN new |-> IF p \in DOMAIN new THEN new[p] ELSE opt[p]]

HttpApi == {"s.http_api.keys", "s.http_api.key_timeout", "s.http_api.key_extend_on_access",
            "s.http_api.loopback_only", "s.http_api.port", "s.http_api.pam_login"}

\* http_api.port is read and compared with the limits, but the port in use is
\* only ever set to 55555, its built-in value.  A section http_api without keys
\* clears the ones in use.  An empty list of name servers
\* gives 1.1.1.1; a missing certs_ctlog gives the default file.
load_settings(opt, file) ==
    LET plain == {p \in DOMAIN file : p \in SettingsPlain \cup {"s.auth_portal.magic_ip", "s.udp_quick_ports"}
                                      \/ (p \in SettingsGuarded /\ Sensible(p, file[p]))}
        names == IF "s.nameservers" \in DOMAIN file
                 THEN [p \in {"s.nameservers"} |-> IF file[p] = "" THEN "1.1.1.1" ELSE file[p]]
                 ELSE [p \in {} |-> ""]
        ctlog == [p \in {"s.certs_ctlog"} |-> IF p \in DOMAIN file THEN file[p]
                                              ELSE "/etc/smithproxy/ct_log_list.cnf"]
        cleared == [p \in {q \in {"s.http_api.keys"} : DOMAIN file \cap HttpApi # {}} |-> ""]
    IN  Update(Update(Update(Update(opt, cleared), Restrict(file, plain)), names), ctlog)

\* The portal's address as the redirection of clients uses it, read together
\* with the auth profiles.
load_portal(opt, file) ==
    LET from == [address |-> "s.auth_portal.address", address6 |-> "s.auth_portal.address6",
                 http_port |-> "s.auth_portal.http_port", https_port |-> "s.auth_portal.https_port"]
        to == [address |-> "p.address", address6 |-> "p.address6",
               http_port |-> "p.http_port", https_port |-> "p.https_port"]
        read == {x \in DOMAIN from : from[x] \in DOMAIN file}
    IN  Update(opt, [p \in {to[x] : x \in read} |-> file[from[CHOOSE x \in read : to[x] = p]]])

CapturesPlain ==
    {"c.local.enabled", "c.local.dir", "c.local.file_prefix", "c.local.file_suffix", "c.local.format",
     "c.remote.enabled", "c.remote.tun_type", "c.remote.tun_dst", "c.remote.tun_ttl"}

\* The quota as read from the option p, which may not be there: then it is what
\* happens to be on the stack, a number no property tells from any other.
quota_megabytes(file, p) ==
    [q \in {"c.local.pcap_quota"} |-> IF p \in DOMAIN file THEN file[p] ELSE "indeterminate"]

\* Where captures were configured before schema 1001.
OldCaptures ==
    [p \in {"c.local.dir", "c.local.file_prefix", "c.local.file_suffix"} |->
        CASE p = "c.local.dir" -> "s.write_payload_dir"
          [] p = "c.local.file_prefix" -> "s.write_payload_file_prefix"
          [] p = "c.local.file_suffix" -> "s.write_payload_file_suffix"]

\* The quota is put into force only together with the format pcap_single, but
\* always where there are no captures in the file.
load_captures(opt, file) ==
    LET plain == CapturesPlain \cap DOMAIN file
        single == "c.local.format" \in DOMAIN file /\ file["c.local.format"] = "pcap_single"
        old == {p \in DOMAIN OldCaptures : OldCaptures[p] \in DOMAIN file}
    IN  IF plain # {} \/ "c.local.pcap_quota" \in DOMAIN file
        THEN Update(Update(opt, Restrict(file, plain)),
                    IF single THEN quota_megabytes(file, "c.local.pcap_quota") ELSE [p \in {} |-> ""])
        ELSE Update(Update(opt, [p \in old |-> file[OldCaptures[p]]]),
                    quota_megabytes(file, "s.write_pcap_single_quota"))

DebugPlain ==
    {"d.log_data_crc", "d.log_sockets", "d.log_online_cx_name", "d.log_srclines",
     "d.log_srclines_always", "d.log.sslcom", "d.log.sslmitmcom", "d.log.sslcertstore", "d.log.proxy",
     "d.log.mtrace", "d.log.openssl_mem_dbg", "d.log.alg_dns"}

\* The levels of epoll and of DNS packets are saved under names of their own
\* and read from those of the proxy and of the DNS inspector.
load_debug(opt, file) ==
    LET plain == DebugPlain \cap DOMAIN file
        shared == [p \in {"d.log.epoll", "d.log.pkt_dns"} |->
                        IF p = "d.log.epoll" THEN "d.log.proxy" ELSE "d.log.alg_dns"]
        also == {p \in DOMAIN shared : shared[p] \in DOMAIN file}
    IN  Update(Update(opt, Restrict(file, plain)), [p \in also |-> file[shared[p]]])

\* Options that load_config reads when the process starts.
load_start_options(opt, file) == Update(opt, Restrict(file, StartOnly \cap DOMAIN file))

\* No quick ports are written as the port 0.
save_settings(opt) ==
    LET kept == {p \in DOMAIN opt : p \in SettingsPlain \cup SettingsGuarded \cup StartOnly
                                          \cup {"s.nameservers", "s.certs_ctlog", "s.udp_quick_ports"}}
    IN  [p \in kept |-> IF p = "s.udp_quick_ports" /\ opt[p] = "" THEN "0" ELSE opt[p]]

save_captures(opt) == Restrict(opt, DOMAIN opt \cap (CapturesPlain \cup {"c.local.pcap_quota"}))

save_debug(opt) == Restrict(opt, DOMAIN opt \cap (DebugPlain \cup {"d.log.epoll", "d.log.pkt_dns"}))

SaveOptions(opt) == Update(save_settings(opt), Update(save_captures(opt), save_debug(opt)))

\* One step of the schema upgrade, applied to the running options.
upgrade_schema(opt, to) ==
    CASE to = 1002 -> Update(opt, [p \in {"c.remote.enabled"} |-> "false"])
      [] to = 1003 -> IF "c.local.file_suffix" \in DOMAIN opt
                         /\ opt["c.local.file_suffix"] \in {"pcapng", "pcap", "smcap"}
                      THEN Update(opt, [p \in {"c.local.file_suffix"} |-> ""]) ELSE opt
      [] to = 1007 -> IF "s.http_api.keys" \in DOMAIN opt /\ opt["s.http_api.keys"] # "" THEN opt
                      ELSE Update(opt, [p \in {"s.http_api.keys"} |-> "generated"])
      [] OTHER -> opt

\* All steps from the schema of the file to that of the program.
UpgradeFrom(opt, schema) ==
    LET up[n \in schema..SCHEMA_VERSION] == IF n = schema THEN opt ELSE upgrade_schema(up[n - 1], n)
    IN  IF schema >= SCHEMA_VERSION THEN opt ELSE up[SCHEMA_VERSION]

\* upgrade_to_0_9_23: the old quota, in bytes, is divided by 2^20 and then counted
\* in bytes again; less than a megabyte is left of it.
upgrade_by_version(opt, file) ==
    IF "s.write_pcap_single_quota" \in DOMAIN file
    THEN Update(opt, [p \in {"c.local.pcap_quota"} |-> "0"]) ELSE opt
=============================================================================
