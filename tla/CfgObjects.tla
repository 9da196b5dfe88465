----------------------------- MODULE CfgObjects -----------------------------
(***************************************************************************)
(* The configuration as an operator works with it: objects, profiles, the  *)
(* policy that refers to them, and the options.  Four copies exist:        *)
(*                                                                         *)
(*   disk   the configuration file                                         *)
(*   cfg    the libconfig tree the commands edit (CfgFactory::cfgapi)      *)
(*   db     the objects made of the tree (db_address, db_port, ...)        *)
(*   list   the rules made of the tree and of db (db_policy_list)          *)
(*   opt    the running options                                            *)
(*                                                                         *)
(* A command edits cfg and brings db, list and opt up to date, partly; a   *)
(* save writes db, list and opt, never cfg.  One action is one command,    *)
(* which runs under CfgFactory::lock().  PolicyDb has the interleaving of  *)
(* commands and the order of the rules; here it is what the entries mean.  *)
(***************************************************************************)
EXTENDS CfgValues

CONSTANTS InitDisks,      \* configuration files the process may start with
          Conns,          \* connections, as PolicyMatch has them
          Adds,           \* <<section, name>>
          ObjectSets,     \* [sec, obj, field, args]
          PolicySets,     \* [obj, field, args], obj the index of the entry
          Toggles,        \* [obj, field, args] on a policy entry
          PortToggles,    \* names of TLS profiles whose ports are toggled
          OptionSets,     \* <<path, text>>
          Removes,        \* <<section, sequence of names>>
          Caches,         \* contents the DNS cache may have
          MaxCmds         \* bound: commands, saves and restarts in one behaviour

\* The parts of a configuration.
Shape(file) ==
    file = [obj |-> file.obj, policy |-> file.policy, opt |-> file.opt,
            schema |-> file.schema, version |-> file.version]

Grouped(e) == Has(e, {"src", "sport", "dst", "dport"})

Numbered(e, fields) == \A f \in fields \cap DOMAIN e : e[f] \in Int

\* A file a process comes up with: every section is there, no name is empty, the
\* policy is a list, its entries have their groups (where one is missing,
\* load_config fails and main returns; PolicyDb has a reload of such a file), and
\* ports and ids are numbers.
FileOK(file) ==
    /\ Shape(file)
    /\ DOMAIN file.obj = Sections
    /\ \A sec \in Sections : "" \notin DOMAIN file.obj[sec]
    /\ file.policy \in Seq(Range(file.policy))
    /\ \A i \in DOMAIN file.policy : Grouped(file.policy[i])
    /\ \A n \in DOMAIN file.obj["port_objects"] : Numbered(file.obj["port_objects"][n], {"start", "end"})
    /\ \A n \in DOMAIN file.obj["proto_objects"] : Numbered(file.obj["proto_objects"][n], {"id"})

ASSUME CfgObjectsAssumption ==
    /\ \A file \in InitDisks : FileOK(file)
    /\ \A t \in DOMAIN Numbers : Numbers[t] \in Int
    /\ DOMAIN Numbers \cap {"cidr", "fqdn"} = {}
    /\ \A a \in Adds : a[1] \in Sections /\ a[2] # ""
    /\ \A s \in ObjectSets : s.sec \in Sections
    /\ \A r \in Removes : r[1] \in Sections /\ r[2] \in Seq(STRING)
    /\ \A c \in Conns : Matchable(c)
    /\ MaxCmds \in Nat

VARIABLES cfg, db, list, opt, disk,
          filed,      \* history: the tree as the last applied command left it
          saved,      \* history: [db, list, opt] at the last write of disk; <<>> before
          last,       \* history: what the last step was
          cmds

vars == <<cfg, db, list, opt, disk, filed, saved, last, cmds>>

-----------------------------------------------------------------------------
(* Rules.                                                                   *)

GroupFields == {"src", "sport", "dst", "dport", "features"}

\* The object a name in a group stands for; a feature has no name to be saved.
lookup_group(d, f, n) ==
    CASE f \in {"src", "dst"} -> lookup(d, "address_objects", n)
      [] f \in {"sport", "dport"} -> lookup_port(d, n)
      [] f = "features" -> {Ref("", x) : x \in Features \cap {n}}

\* The profiles a rule names; an empty name, or no routing, is none.
ProfileNames(e) ==
    {f \in DOMAIN ProfileSection \cap DOMAIN e : e[f] # "" /\ ~(f = "routing" /\ e[f] = "none")}

\* Only the features can be missing.
Group(e, f) == load_if_exists(e, f, <<>>)

\* An entry is refused for a single name that is not there.  Profiles are
\* only looked at when the action is accept; no script is ever loaded.
RuleError(d, e) ==
    \/ Has(e, {"proto"}) /\ lookup_proto(d, e.proto) = {}
    \/ \E f \in GroupFields : \E i \in DOMAIN Group(e, f) : lookup_group(d, f, Group(e, f)[i]) = {}
    \/ load_if_exists(e, "action", "deny") \notin {"accept", "deny"}
    \/ load_if_exists(e, "nat", "none") \notin {"auto", "none"}
    \/ /\ load_if_exists(e, "action", "deny") = "accept"
       /\ \/ \E f \in ProfileNames(e) : lookup(d, ProfileSection[f], e[f]) = {}
          \/ load_if_exists(e, "script_profile", "") # ""

TheOne(S) == CHOOSE x \in S : TRUE

\* A rule without proto is one for any protocol; one without action denies.
MakeRule(d, e) ==
    LET group(f) == [i \in DOMAIN Group(e, f) |-> TheOne(lookup_group(d, f, Group(e, f)[i]))]
        action == load_if_exists(e, "action", "deny")
        named == IF action = "accept" THEN ProfileNames(e) ELSE {}
    IN  [disabled |-> load_if_exists(e, "disabled", FALSE),
         proto |-> IF Has(e, {"proto"}) THEN TheOne(lookup_proto(d, e.proto)) ELSE Ref("", [id |-> 0]),
         group |-> [f \in GroupFields |-> group(f)],
         action |-> action,
         nat |-> load_if_exists(e, "nat", ""),
         prof |-> [f \in named |-> TheOne(lookup(d, ProfileSection[f], e[f]))]]

\* Entries that are refused are left out; the others move up.
load_db_policy(d, entries) ==
    LET upto[i \in 0..Len(entries)] ==
            IF i = 0 THEN <<>>
            ELSE IF RuleError(d, entries[i]) THEN upto[i - 1]
            ELSE Append(upto[i - 1], MakeRule(d, entries[i]))
    IN  upto[Len(entries)]

\* The names in section sec that the rules refer to.
UsedNames(rules, sec) ==
    LET refs(r) == (IF sec = "proto_objects" THEN {r.proto} ELSE {})
                   \cup (UNION {Range(r.group[f]) : f \in CASE sec = "address_objects" -> {"src", "dst"}
                                                           [] sec = "port_objects" -> {"sport", "dport"}
                                                           [] OTHER -> {}})
                   \cup {r.prof[f] : f \in {g \in DOMAIN r.prof : ProfileSection[g] = sec}}
    IN  {x.name : x \in UNION {refs(r) : r \in Range(rules)}}

\* Mutant: loading a rule does not register it with its objects.
mark_usage_mut(d, rules) == d

\* usage_add: an object knows the rules made of it.
mark_usage(d, rules) ==
    [sec \in Sections |-> [n \in DOMAIN d[sec] |->
        [d[sec][n] EXCEPT !.used = n \in UsedNames(rules, sec) /\ ~d[sec][n].null]]]

\* What the rules come to for a connection: the first that matches decides.
RuleValues(r) ==
    LET vals(f) == {x.val : x \in Range(r.group[f])}
    IN  [disabled |-> r.disabled, proto |-> r.proto.val.id, src |-> vals("src"), sport |-> vals("sport"),
         dst |-> vals("dst"), dport |-> vals("dport")]

\* CfgFactory::policy_match: the index of the rule, 0 for none.
policy_match(rules, c, answers) ==
    SelectInSeq(rules, LAMBDA r : RuleMatch(RuleValues(r), c, answers))

-----------------------------------------------------------------------------
(* Loading and saving.                                                      *)

EmptyDb == [sec \in Sections |-> NoFields]

\* load_db_*: every entry that is accepted makes a new object, under a name
\* that may have had another one; other names stay.
Objects(d, sec, entries) ==
    LET made == {n \in DOMAIN entries : LoadEntry(d, sec, entries[n]) # {}}
    IN  [n \in DOMAIN d[sec] \cup made |->
            IF n \in made THEN Object(TheOne(LoadEntry(d, sec, entries[n]))) ELSE d[sec][n]]

LoadSection(d, sec, entries) == [d EXCEPT ![sec] = Objects(d, sec, entries)]

\* The loaders of load_config, in their order.
LoadObjects(d, obj) ==
    LET load(acc, sec) == LoadSection(acc, sec, obj[sec])
        basic == load(load(load(d, "address_objects"), "port_objects"), "proto_objects")
        profiles == load(load(load(load(basic, "detection_profiles"), "content_profiles"),
                              "tls_profiles"), "alg_dns_profiles")
    IN  load(load(profiles, "auth_profiles"), "routing")

\* CfgFactory::cleanup leaves the routing and the authorities.
cleanup(d) == [sec \in Sections |-> IF sec \in {"routing", "tls_ca"} THEN d[sec] ELSE NoFields]

\* SmithProxy::load_config: d and o are what is there before.
load_config(file, d, o, starting) ==
    LET objects == LoadObjects(IF starting THEN d ELSE cleanup(d), file.obj)
        options == load_debug(load_captures(load_settings(load_portal(o, file.opt), file.opt), file.opt), file.opt)
        made(dd, rules) == [cfg |-> file, db |-> mark_usage(dd, rules), list |-> rules,
                            opt |-> IF starting THEN load_start_options(options, file.opt) ELSE options]
    IN  TheOne(UNION {{made(dd, rules) : rules \in {load_db_policy(dd, file.policy)}} : dd \in {objects}})

\* Mutant: one of the groups of a rule is not written.
save_policy_mut(r) ==
    [f \in {"disabled", "proto", "action", "nat", "routing", "src", "sport", "dst"} |->
        CASE f = "proto" -> r.proto.name
          [] f = "routing" -> "none"
          [] f \in {"src", "sport", "dst"} -> [i \in DOMAIN r.group[f] |-> r.group[f][i].name]
          [] OTHER -> r[f]]

\* The entry of a rule: a feature is written without a name.
save_policy(r) ==
    [f \in {"disabled", "proto", "action", "nat", "routing"} \cup GroupFields \cup DOMAIN r.prof |->
        CASE f = "proto" -> r.proto.name
          [] f \in GroupFields -> [i \in DOMAIN r.group[f] |-> r.group[f][i].name]
          [] f \in DOMAIN r.prof -> r.prof[f].name
          [] f = "routing" /\ f \notin DOMAIN r.prof -> "none"
          [] OTHER -> r[f]]

\* save_config writes what runs; null entries are passed over.
save_config(d, rules, o) ==
    LET named(sec) == {n \in DOMAIN d[sec] : ~d[sec][n].null}
    IN  [obj |-> [sec \in Sections |-> [n \in named(sec) |-> SaveObject(sec, d[sec][n].val)]],
         policy |-> [i \in 1..Len(rules) |-> save_policy(rules[i])],
         opt |-> SaveOptions(o), schema |-> SCHEMA_VERSION, version |-> "current"]

\* The section *_internal_* has the version and the schema, 1000 if there is none
\* in it.  A file without the section is upgraded in no way, one without the
\* version only by its schema.
Upgraded(file, o) ==
    CASE file.version = "no section" -> o
      [] file.version \in {"current", "no version"} -> UpgradeFrom(o, file.schema)
      [] OTHER -> upgrade_by_version(UpgradeFrom(o, file.schema), file.opt)

\* Nothing to be saved: the section is there, with the current schema and, if it
\* has one, the current version.
UpToDate(file) == file.schema >= SCHEMA_VERSION /\ file.version \in {"current", "no version"}

\* main: an older file is loaded, upgraded, saved and loaded once more, on top
\* of what is there.  If it cannot be written, the first load has to do.
upgrade_and_save(file, s) ==
    IF UpToDate(file)
    THEN {[run |-> s, disk |-> file, saved |-> <<>>]}
    ELSE UNION {
        {[run |-> [s EXCEPT !.opt = o], disk |-> file, saved |-> <<>>]}
        \cup {[run |-> load_config(new, s.db, o, TRUE), disk |-> new,
                saved |-> <<[db |-> s.db, list |-> s.list, opt |-> o]>>] : new \in {save_config(s.db, s.list, o)}}
        : o \in {Upgraded(file, s.opt)}}

Boot(file) == UNION {upgrade_and_save(file, s) : s \in {load_config(file, EmptyDb, [p \in {} |-> ""], TRUE)}}

\* The process comes up with b.
Up(b) ==
    /\ cfg' = b.run.cfg /\ db' = b.run.db /\ list' = b.run.list /\ opt' = b.run.opt
    /\ disk' = b.disk
    /\ filed' = b.run.cfg

Init ==
    \E file \in InitDisks : \E b \in Boot(file) :
        /\ cfg = b.run.cfg /\ db = b.run.db /\ list = b.run.list /\ opt = b.run.opt
        /\ disk = b.disk /\ filed = b.run.cfg /\ saved = b.saved
        /\ last = "start"
        /\ cmds = 0

-----------------------------------------------------------------------------
(* Commands.                                                                *)

Command(kind) == cmds < MaxCmds /\ cmds' = cmds + 1 /\ last' = kind

\* The tree is now c: db gets the objects d, and the rules are made again.
ApplyPolicy(c, d) ==
    /\ cfg' = c
    /\ list' = load_db_policy(d, c.policy)
    /\ db' = mark_usage(d, list')
    /\ filed' = c

\* `add <name>`: the section is loaded over what is there, the rules are not
\* made again.  A name that is taken changes nothing.
Add(sec, n) ==
    /\ Command("add")
    /\ n \notin DOMAIN cfg.obj[sec]
    /\ cfg' = [cfg EXCEPT !.obj[sec] = [x \in DOMAIN @ \cup {n} |-> IF x = n THEN NewEntry(sec) ELSE @[x]]]
    /\ db' = LoadSection(db, sec, cfg'.obj[sec])
    /\ opt' = IF sec = "auth_profiles" THEN load_portal(opt, cfg.opt) ELSE opt
    /\ UNCHANGED <<list, disk, filed, saved>>

new_policy ==
    [f \in {"disabled", "proto", "action", "nat"} \cup GroupFields \cup DOMAIN ProfileSection |->
        CASE f = "disabled" -> TRUE
          [] f = "proto" -> "tcp"
          [] f = "action" -> "accept"
          [] f = "nat" -> "auto"
          [] f \in GroupFields -> <<>>
          [] OTHER -> ""]

\* `add` in the policy.
AddPolicy ==
    /\ Command("add")
    /\ ApplyPolicy([cfg EXCEPT !.policy = Append(@, new_policy)], db)
    /\ UNCHANGED <<opt, disk, saved>>

\* Mutant: the rules keep the objects they had.
apply_config_change_mut(c, sec) ==
    /\ cfg' = c /\ filed' = c /\ UNCHANGED list
    /\ db' = LoadSection([db EXCEPT ![sec] = NoFields], sec, c.obj[sec])

\* apply_config_change after an object changed: the section is emptied and
\* loaded, then the policy.
apply_config_change(c, sec) ==
    ApplyPolicy(c, LoadSection([db EXCEPT ![sec] = NoFields], sec, c.obj[sec]))

\* An exception nobody catches ends the process; it comes up from the file.
Crash ==
    \E b \in Boot(disk) :
        /\ Up(b)
        /\ saved' = IF b.saved = <<>> THEN saved ELSE b.saved

\* `set <field> <args>` in the section of an object.
SetObject(sec, n, f, args) ==
    /\ n \in DOMAIN cfg.obj[sec] /\ f \in DOMAIN cfg.obj[sec][n]
    /\ \E w \in {cfg_write_value(db, sec, cfg.obj[sec][n], f, dedup(args))} :
       LET c == [cfg EXCEPT !.obj[sec][n] = w.entry]
       IN  \/ /\ w.ok /\ ~(sec = "tls_profiles" /\ TlsThrows(w.entry))
              /\ Command("set")
              /\ apply_config_change(c, sec)
              /\ opt' = IF sec = "auth_profiles" THEN load_portal(opt, cfg.opt) ELSE opt
              /\ UNCHANGED <<disk, saved>>
           \/ /\ w.ok /\ sec = "tls_profiles" /\ TlsThrows(w.entry)
              /\ Command("crash")
              /\ Crash
           \/ /\ ~w.ok
              /\ Command("refused")
              /\ cfg' = c
              /\ UNCHANGED <<db, list, opt, disk, filed, saved>>

\* `set` and `toggle` on field f of the i-th entry of the policy.
WritePolicy(i, f, args) ==
    \E w \in {cfg_write_value(db, "policy", cfg.policy[i], f, args)} :
        \/ /\ w.ok
           /\ Command("set")
           /\ ApplyPolicy([cfg EXCEPT !.policy[i] = w.entry], db)
           /\ UNCHANGED <<opt, disk, saved>>
        \/ /\ ~w.ok
           /\ Command("refused")
           /\ UNCHANGED <<cfg, db, list, opt, disk, filed, saved>>

SetPolicy(i, f, args) ==
    i \in DOMAIN cfg.policy /\ f \in DOMAIN cfg.policy[i] /\ WritePolicy(i, f, dedup(args))

\* A list is written with the names toggled; of anything else `toggle` is `set`.
TogglePolicy(i, f, args) ==
    /\ i \in DOMAIN cfg.policy /\ f \in DOMAIN cfg.policy[i]
    /\ WritePolicy(i, f, IF f \in ListFields THEN toggle(cfg.policy[i][f], dedup(args)) ELSE dedup(args))

\* Reading the ports as texts throws as soon as there is one.
TogglePorts(n) ==
    /\ n \in DOMAIN cfg.obj["tls_profiles"]
    /\ Has(cfg.obj["tls_profiles"][n], {"redirect_warning_ports"})
    /\ cfg.obj["tls_profiles"][n].redirect_warning_ports # <<>>
    /\ Command("crash")
    /\ Crash

\* `set` of an option.
SetOption(p, v) ==
    /\ p \in DOMAIN cfg.opt
    /\ Command("option")
    /\ \E t \in OptionText(p, v) : cfg' = [cfg EXCEPT !.opt[p] = t]
    /\ filed' = [filed EXCEPT !.opt = cfg'.opt]
    /\ opt' = CASE p \in CapturesPlain \cup {"c.local.pcap_quota"} -> load_captures(opt, cfg'.opt)
                [] p \in DebugPlain \cup {"d.log.epoll", "d.log.pkt_dns"} -> load_debug(opt, cfg'.opt)
                [] OTHER -> load_settings(opt, cfg'.opt)
    /\ UNCHANGED <<db, list, disk, saved>>

\* check_deps goes through the names up to the first that is in use; looking up
\* a name that is not there enters it as null.
Looked(sec, names) ==
    LET used == {i \in 1..Len(names) : names[i] \in DOMAIN db[sec] /\ db[sec][names[i]].used}
        upto == IF used = {} THEN Len(names) ELSE CHOOSE i \in used : \A j \in used : i <= j
    IN  [free |-> used = {}, names |-> {names[i] : i \in 1..upto}]

section_element(d, sec, names) ==
    [d EXCEPT ![sec] = [n \in DOMAIN d[sec] \cup names |-> IF n \in DOMAIN d[sec] THEN d[sec][n] ELSE NullObject]]

\* `remove <names>`.
RemoveObject(sec, names) ==
    \E look \in {Looked(sec, names)} :
    LET d == section_element(db, sec, look.names)
        gone == Range(names) \cap DOMAIN cfg.obj[sec]
        c == [cfg EXCEPT !.obj[sec] = Restrict(@, DOMAIN @ \ gone)]
    IN  \/ /\ look.free /\ gone # {}
           /\ Command("remove")
           /\ ApplyPolicy(c, LoadSection([d EXCEPT ![sec] = NoFields], sec, c.obj[sec]))
           /\ opt' = IF sec = "auth_profiles" THEN load_portal(opt, cfg.opt) ELSE opt
           /\ UNCHANGED <<disk, saved>>
        \/ /\ ~look.free \/ gone = {}
           /\ Command("refused")
           /\ db' = d
           /\ UNCHANGED <<cfg, list, opt, disk, filed, saved>>

\* `remove [i]` in the policy.
RemovePolicy(i) ==
    /\ i \in DOMAIN cfg.policy
    /\ Command("remove")
    /\ ApplyPolicy([cfg EXCEPT !.policy = RemoveAt(@, i)], db)
    /\ UNCHANGED <<opt, disk, saved>>

\* `save config`; a failing write is logged.
Save ==
    /\ Command("save")
    /\ disk' = save_config(db, list, opt)
    /\ saved' = <<[db |-> db, list |-> list, opt |-> opt]>>
    /\ UNCHANGED <<cfg, db, list, opt, filed>>

\* `execute reload` and SIGUSR1.
Reload ==
    /\ Command("reload")
    /\ \E s \in {load_config(disk, db, opt, FALSE)} :
          cfg' = s.cfg /\ db' = s.db /\ list' = s.list /\ opt' = s.opt /\ filed' = s.cfg
    /\ UNCHANGED <<disk, saved>>

Restart == Command("start") /\ Crash

Next ==
    \/ \E a \in Adds : Add(a[1], a[2])
    \/ AddPolicy
    \/ \E s \in ObjectSets : SetObject(s.sec, s.obj, s.field, s.args)
    \/ \E s \in PolicySets : SetPolicy(s.obj, s.field, s.args)
    \/ \E s \in Toggles : TogglePolicy(s.obj, s.field, s.args)
    \/ \E n \in PortToggles : TogglePorts(n)
    \/ \E s \in OptionSets : SetOption(s[1], s[2])
    \/ \E r \in Removes : RemoveObject(r[1], r[2])
    \/ \E i \in DOMAIN cfg.policy : RemovePolicy(i)
    \/ Save
    \/ Reload
    \/ Restart

Spec == Init /\ [][Next]_vars

-----------------------------------------------------------------------------
(* Properties.                                                              *)

\* Every name in db is that of an object or null, every object of a used name
\* is there, ranges are ordered, ids fit a byte, and a rule that was loaded
\* has an action and, for its names, objects.
TypeOK ==
    /\ DOMAIN db = Sections
    /\ \A n \in DOMAIN db["port_objects"] :
          LET o == db["port_objects"][n] IN o.null \/ o.val.start <= o.val.end
    /\ \A n \in DOMAIN db["proto_objects"] :
          LET o == db["proto_objects"][n] IN o.null \/ o.val.id \in 0..255
    /\ \A sec \in Sections : \A n \in DOMAIN db[sec] : db[sec][n].null => ~db[sec][n].used
    /\ \A i \in DOMAIN list : list[i].action \in {"accept", "deny"} /\ list[i].nat \in {"auto", "none", ""}
    /\ cmds \in 0..MaxCmds

Outcome(rules, c, answers) ==
    {[index |-> i, action |-> rules[i].action, nat |-> rules[i].nat,
      prof |-> [f \in DOMAIN rules[i].prof |-> rules[i].prof[f].name]] :
        i \in {policy_match(rules, c, answers)} \ {0}}

\* The names in section sec that an entry of the policy refers to.
EntryNames(e, sec) ==
    (IF sec = "proto_objects" /\ Has(e, {"proto"}) THEN {e.proto} ELSE {})
    \cup (UNION {Range(Group(e, f)) : f \in CASE sec = "address_objects" -> {"src", "dst"}
                                               [] sec = "port_objects" -> {"sport", "dport"}
                                               [] OTHER -> {}})
    \cup {e[f] : f \in {g \in ProfileNames(e) : ProfileSection[g] = sec}}

\* db knows no more under the names in the policy than the sections of file give.
NoStrays(file, d) ==
    \A i \in DOMAIN file.policy : \A sec \in Sections : \A n \in EntryNames(file.policy[i], sec) :
        n \in DOMAIN d[sec] => n \in DOMAIN file.obj[sec] /\ ~d[sec][n].null

\* Whatever sequence of commands led here, a connection is decided as by a
\* process that starts with the tree as the last applied command left it:
\* reloading one section and the policy (apply_config_change, remove) comes to
\* the same as loading everything.  (Three things are in the way of that: a
\* name of the policy that `remove` looked up in vain, one that was added since,
\* and a routing that a reload left behind: NoStrays.)
VerdictAsFiled ==
    NoStrays(filed, db) =>
        \A fresh \in {load_config(filed, EmptyDb, opt, TRUE).list} :
            \A c \in Conns, answers \in Caches : Outcome(list, c, answers) = Outcome(fresh, c, answers)

\* An object a rule of the list is made of is not taken from the tree, as long
\* as no `add` in its section made new objects that no rule is registered
\* with (check_deps, usage_add).
UsedNotRemoved ==
    [][last' = "remove" => \A sec \in Sections :
          DOMAIN cfg.obj[sec] = DOMAIN filed.obj[sec]
          => (DOMAIN cfg.obj[sec] \ DOMAIN cfg'.obj[sec]) \cap UsedNames(list, sec) = {}]_vars

\* db has what the tree has: no null entry, no routing that a reload left behind.
NoLeftovers == \A sec \in Sections : \A n \in DOMAIN db[sec] : ~db[sec][n].null /\ n \in DOMAIN cfg.obj[sec]

\* What the filters let through and load_db_policy refuses: the action "reject",
\* an empty feature, a script, and profiles nobody looked for before the action
\* became accept.
LetThrough(old, new) ==
    \/ load_if_exists(new, "action", "deny") = "reject"
    \/ "" \in Range(Group(new, "features"))
    \/ /\ load_if_exists(new, "action", "deny") = "accept"
       /\ load_if_exists(old, "action", "deny") # "accept" \/ load_if_exists(new, "script_profile", "") # ""

\* A command that sets or toggles a field and is accepted, of an object or of
\* the policy, turns no entry of the policy that makes a rule into one that
\* makes none: what the filters let through can be loaded (but LetThrough).
SetKeepsRules ==
    [][last' = "set" /\ NoLeftovers =>
          \A i \in DOMAIN cfg.policy :
              ~RuleError(db, cfg.policy[i]) /\ RuleError(db', cfg'.policy[i])
              => LetThrough(cfg.policy[i], cfg'.policy[i])]_vars

\* The names in a rule, and what is said in words.
Names(r) ==
    [disabled |-> r.disabled, proto |-> r.proto.name, action |-> r.action, nat |-> r.nat,
     group |-> [f \in GroupFields |-> [i \in DOMAIN r.group[f] |-> r.group[f][i].name]],
     prof |-> [f \in DOMAIN r.prof |-> r.prof[f].name]]

\* A rule that can be read back: its features would be without a name, and a
\* rule that had no nat would have an unknown one.
ReadBack(r) == DOMAIN r.group["features"] = {} /\ r.nat # ""

\* Those of a list.
ReadBackOf(rules) ==
    LET upto[i \in 0..Len(rules)] ==
            IF i = 0 THEN <<>>
            ELSE IF ReadBack(rules[i]) THEN Append(upto[i - 1], rules[i])
            ELSE upto[i - 1]
    IN  upto[Len(rules)]

\* Sections whose objects are written in full.
FullSections == {"address_objects", "port_objects", "proto_objects", "detection_profiles", "tls_profiles",
                 "alg_dns_profiles"}

\* What is written can be read: a process that starts from the file written
\* last has the same rules in the same order (but for those that cannot be
\* read back), the same objects and the same options (save_*, load_*).
SavedComesBack ==
    saved # <<>> =>
        \A was \in {saved[1]}, now \in {load_config(disk, EmptyDb, [p \in {} |-> ""], TRUE)} :
            /\ \A rules \in {ReadBackOf(was.list)} :
                  /\ Len(now.list) = Len(rules)
                  /\ \A i \in 1..Len(rules) : Names(now.list[i]) = Names(rules[i])
            /\ \A sec \in FullSections :
                  [n \in DOMAIN now.db[sec] |-> now.db[sec][n].val]
                  = [n \in {x \in DOMAIN was.db[sec] : ~was.db[sec][x].null} |-> was.db[sec][n].val]
            /\ \A p \in (SettingsPlain \cup CapturesPlain \cup DebugPlain \cup StartOnly) \cap DOMAIN was.opt :
                  p \in DOMAIN now.opt /\ now.opt[p] = was.opt[p]
=============================================================================
