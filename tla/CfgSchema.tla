----------------------------- MODULE CfgSchema -----------------------------
(***************************************************************************)
(* What the sections of the configuration file mean: how load_db_* makes   *)
(* an object of an entry, save_* an entry of an object, and new_* the      *)
(* entry of a new object (service/cfgapi/cfgapi.cpp).                      *)
(*                                                                         *)
(* An entry is a function from its fields to their values.  Numbers and    *)
(* Booleans are themselves, a text is a string, an array a sequence.  A    *)
(* loader gives the set of objects an entry makes: one, or none when the   *)
(* entry is not accepted.                                                  *)
(***************************************************************************)
EXTENDS Integers, Sequences, Functions, SequencesExt, Cidr

CONSTANTS Parsed,      \* the address texts of the instance: text -> block or NULL (cidr_from_str)
          CidrText     \* the text of a block (cidr_to_str); that of NULL is empty

\* CidrAddress(text): a text that is no address leaves it without block.
CidrAddress(t) == IF t \in DOMAIN Parsed THEN Parsed[t] ELSE NULL

KnownBlocks == {NULL} \cup Range(Parsed)

\* The text a block is written as is read as this block (TextRoundTrip of module
\* CidrBlocks), and the empty text as none.
ASSUME CidrTextAssumption == \A b \in KnownBlocks : CidrAddress(CidrText[b]) = b

\* The sections of CfgFactory::section_db, but for the policy.
Sections == {"address_objects", "port_objects", "proto_objects", "detection_profiles",
             "content_profiles", "tls_profiles", "alg_dns_profiles", "auth_profiles", "routing",
             "tls_ca"}

\* load_if_exists: a missing field leaves the default.
load_if_exists(e, f, default) == IF f \in DOMAIN e THEN e[f] ELSE default

Filled(e, defaults) == [f \in DOMAIN defaults |-> load_if_exists(e, f, defaults[f])]

Has(e, fields) == fields \subseteq DOMAIN e

NoFields == [f \in {} |-> {}]

-----------------------------------------------------------------------------
(* Addresses, ports and protocols.                                          *)

\* Since 0.9.31 an address has a type word and a value; before, a number told
\* which of the fields cidr and fqdn to read (here the number is a text, as the
\* type has to be one in both forms).  The object keeps the block of a CIDR and
\* the name of an FQDN.
CfgAddress(type, text) == [type |-> type, value |-> IF type = "cidr" THEN CidrAddress(text) ELSE text]

load_db_address(e) ==
    IF Has(e, {"value"})
    THEN {CfgAddress(t, e.value) : t \in {load_if_exists(e, "type", "")} \cap {"cidr", "fqdn"}}
    ELSE {CfgAddress(t, e[t]) :
            t \in {u \in DOMAIN e \cap {"cidr", "fqdn"} :
                      load_if_exists(e, "type", "") = IF u = "cidr" THEN "0" ELSE "1"}}

\* A block is written in the form cidr_to_str gives it, however it was typed.
save_address_objects(o) == [type |-> o.type, value |-> IF o.type = "cidr" THEN CidrText[o.value] ELSE o.value]
new_address_object == [type |-> "cidr", value |-> "0.0.0.0/32"]

\* Mutant: a range written backwards is taken as it is.
load_db_port_mut(e) == IF Has(e, {"start", "end"}) THEN {[start |-> e.start, end |-> e.end]} ELSE {}

\* A range written backwards is turned round.
load_db_port(e) ==
    IF ~Has(e, {"start", "end"}) THEN {}
    ELSE IF e.start <= e.end THEN {[start |-> e.start, end |-> e.end]}
    ELSE {[start |-> e.end, end |-> e.start]}

save_port_objects(o) == o
new_port_object == [start |-> 0, end |-> 65535]

\* The id is cut to eight bits.
load_db_proto(e) == IF Has(e, {"id"}) THEN {[id |-> e.id % 256]} ELSE {}

save_proto_objects(o) == o
new_proto_object == [id |-> 0]

-----------------------------------------------------------------------------
(* Profiles.                                                                *)

ProfileDetection == [mode |-> 0, engines_enabled |-> TRUE, kb_enabled |-> TRUE]

load_db_prof_detection(e) == IF Has(e, {"mode"}) THEN {Filled(e, ProfileDetection)} ELSE {}

save_detection_profiles(o) == o
new_detection_profile == [mode |-> 1]

\* A rule needs a pattern and a replacement.
load_db_prof_content_subrules(rules) ==
    LET ok == SelectSeq(rules, LAMBDA r : load_if_exists(r, "match", "") # "" /\ Has(r, {"replace"}))
    IN  [i \in 1..Len(ok) |-> [match |-> ok[i].match, replace |-> ok[i].replace,
                               fill_length |-> load_if_exists(ok[i], "fill_length", FALSE),
                               replace_each_nth |-> load_if_exists(ok[i], "replace_each_nth", 0)]]

\* ContentCaptureFormat: an unknown word is smcap.
load_db_prof_content_write_format(e) ==
    LET f == load_if_exists(e, "write_format", "pcap_single")
    IN  IF f \in {"smcap", "pcap", "pcap_single"} THEN f ELSE "smcap"

load_db_prof_content(e) ==
    IF ~Has(e, {"write_payload"}) THEN {}
    ELSE {[write_payload |-> e.write_payload,
           write_format |-> load_db_prof_content_write_format(e),
           content_rules |-> load_db_prof_content_subrules(load_if_exists(e, "content_rules", <<>>))]}

\* fill_length is not written.
save_content_profiles(o) ==
    [o EXCEPT !.content_rules =
        [i \in DOMAIN o.content_rules |-> Restrict(o.content_rules[i], {"match", "replace", "replace_each_nth"})]]

new_content_profile == [write_payload |-> FALSE, content_rules |-> <<>>]

ProfileTls ==
    [inspect |-> FALSE, allow_untrusted_issuers |-> FALSE, allow_invalid_certs |-> FALSE,
     allow_self_signed |-> FALSE, use_pfs |-> TRUE, left_use_pfs |-> TRUE, right_use_pfs |-> TRUE,
     left_disable_reuse |-> FALSE, right_disable_reuse |-> FALSE, ocsp_mode |-> 0,
     ocsp_stapling |-> FALSE, ocsp_stapling_mode |-> 0, ct_enable |-> TRUE, alpn_block |-> FALSE,
     failed_certcheck_replacement |-> TRUE, failed_certcheck_override |-> FALSE,
     failed_certcheck_override_timeout |-> 600, failed_certcheck_override_timeout_type |-> 0,
     sni_based_cert |-> TRUE, ip_based_cert |-> TRUE, sslkeylog |-> FALSE,
     sni_filter_bypass |-> <<>>, redirect_warning_ports |-> <<>>]

\* Reading a port that was stored as a text throws.
TlsThrows(e) ==
    /\ Has(e, {"inspect", "redirect_warning_ports"})
    /\ \E p \in Range(e.redirect_warning_ports) : ~p.int

load_db_prof_tls(e) == IF Has(e, {"inspect"}) THEN {Filled(e, ProfileTls)} ELSE {}

\* Empty arrays are left out.
save_tls_profiles(o) ==
    Restrict(o, {f \in DOMAIN o : f \in {"sni_filter_bypass", "redirect_warning_ports"} => o[f] # <<>>})

new_tls_profile ==
    [Restrict(ProfileTls, DOMAIN ProfileTls \ {"alpn_block"}) EXCEPT
        !.ocsp_mode = 1, !.ocsp_stapling = TRUE, !.ocsp_stapling_mode = 1,
        !.failed_certcheck_override = TRUE]

\* Certificate authorities are neither loaded nor saved.
load_db_tls_ca(e) == {}
new_tls_ca == NoFields

ProfileAlgDns == [match_request_id |-> FALSE, randomize_id |-> FALSE, cached_responses |-> FALSE]

load_db_prof_alg_dns(e) == {Filled(e, ProfileAlgDns)}
save_alg_dns_profiles(o) == o
new_alg_dns_profile == ProfileAlgDns

\* The profiles a rule, and the identities of an auth profile, can name.
ProfileSection ==
    [tls_profile |-> "tls_profiles", detection_profile |-> "detection_profiles",
     content_profile |-> "content_profiles", alg_dns_profile |-> "alg_dns_profiles",
     auth_profile |-> "auth_profiles", routing |-> "routing"]

SubFields == {"tls_profile", "detection_profile", "content_profile", "alg_dns_profile"}

-----------------------------------------------------------------------------
(* The object database: db[section][name] = [null, val, used].  val is what *)
(* a loader made of the entry, used whether a rule of the policy list       *)
(* refers to this very object.  An entry can be null: section_element       *)
(* inserts one for a name it does not find.                                 *)

NullObject == [null |-> TRUE, val |-> NoFields, used |-> FALSE]

Object(v) == [null |-> FALSE, val |-> v, used |-> FALSE]

\* A reference keeps the object alive: its name and its value.
Ref(n, v) == [name |-> n, val |-> v]

lookup(db, sec, n) ==
    IF n \in DOMAIN db[sec] /\ ~db[sec][n].null THEN {Ref(n, db[sec][n].val)} ELSE {}

\* A port that is not there is NULLRANGE, which no port is in ...
lookup_port(db, n) ==
    IF n \in DOMAIN db["port_objects"] THEN lookup(db, "port_objects", n)
    ELSE {Ref("", [start |-> -1, end |-> -1])}

\* ... and a protocol that is not there is 0: any.
lookup_proto(db, n) ==
    IF n \in DOMAIN db["proto_objects"] THEN lookup(db, "proto_objects", n)
    ELSE {Ref("", [id |-> 0])}

\* An identity keeps the profiles it finds when the section is loaded; what it
\* does not find is left out.  Nobody counts this as use of the profile.
load_subpolicy(db, s) ==
    LET found == {f \in SubFields \cap DOMAIN s : lookup(db, ProfileSection[f], s[f]) # {}}
    IN  [f \in found |-> CHOOSE r \in lookup(db, ProfileSection[f], s[f]) : TRUE]

load_db_prof_auth(db, e) ==
    {[authenticate |-> load_if_exists(e, "authenticate", FALSE),
      resolve |-> load_if_exists(e, "resolve", FALSE),
      identities |-> LET ids == load_if_exists(e, "identities", NoFields)
                     IN  [i \in DOMAIN ids |-> load_subpolicy(db, ids[i])]]}

save_auth_profiles(o) ==
    [o EXCEPT !.identities = [i \in DOMAIN o.identities |->
                                [f \in DOMAIN o.identities[i] |-> o.identities[i][f].name]]]

new_auth_profile == [authenticate |-> FALSE, resolve |-> TRUE, identities |-> NoFields]

\* Names no address or port has (yet) are dropped.
load_db_routing(db, e) ==
    LET known(f, sec) == SelectSeq(load_if_exists(e, f, <<>>), LAMBDA n : n \in DOMAIN db[sec])
        m == load_if_exists(e, "dnat_lb_method", "")
    IN  {[dnat_address |-> known("dnat_address", "address_objects"),
          dnat_port |-> known("dnat_port", "port_objects"),
          dnat_lb_method |-> IF m \in {"sticky-l3", "sticky-l4"} THEN m ELSE "round-robin"]}

save_routing(o) == o
new_routing == [dnat_address |-> <<>>, dnat_port |-> <<>>, dnat_lb_method |-> "round-robin"]

\* What the loader of a section makes of an entry.
LoadEntry(db, sec, e) ==
    CASE sec = "address_objects" -> load_db_address(e)
      [] sec = "port_objects" -> load_db_port(e)
      [] sec = "proto_objects" -> load_db_proto(e)
      [] sec = "detection_profiles" -> load_db_prof_detection(e)
      [] sec = "content_profiles" -> load_db_prof_content(e)
      [] sec = "tls_profiles" -> load_db_prof_tls(e)
      [] sec = "alg_dns_profiles" -> load_db_prof_alg_dns(e)
      [] sec = "auth_profiles" -> load_db_prof_auth(db, e)
      [] sec = "routing" -> load_db_routing(db, e)
      [] sec = "tls_ca" -> load_db_tls_ca(e)

SaveObject(sec, o) ==
    CASE sec = "address_objects" -> save_address_objects(o)
      [] sec = "port_objects" -> save_port_objects(o)
      [] sec = "proto_objects" -> save_proto_objects(o)
      [] sec = "detection_profiles" -> save_detection_profiles(o)
      [] sec = "content_profiles" -> save_content_profiles(o)
      [] sec = "tls_profiles" -> save_tls_profiles(o)
      [] sec = "alg_dns_profiles" -> save_alg_dns_profiles(o)
      [] sec = "auth_profiles" -> save_auth_profiles(o)
      [] sec = "routing" -> save_routing(o)

NewEntry(sec) ==
    CASE sec = "address_objects" -> new_address_object
      [] sec = "port_objects" -> new_port_object
      [] sec = "proto_objects" -> new_proto_object
      [] sec = "detection_profiles" -> new_detection_profile
      [] sec = "content_profiles" -> new_content_profile
      [] sec = "tls_profiles" -> new_tls_profile
      [] sec = "alg_dns_profiles" -> new_alg_dns_profile
      [] sec = "auth_profiles" -> new_auth_profile
      [] sec = "routing" -> new_routing
      [] sec = "tls_ca" -> new_tls_ca
=============================================================================
