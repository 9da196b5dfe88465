# Verification of smithproxy

Smithproxy is a transparent and SOCKS proxy that matches connections against a
policy, identifies users, inspects traffic (TLS, DNS, HTTP) and is configured
at run time through a CLI and an HTTP API. This directory holds TLA+ models of
the parts of its own code that carry state between threads, events and
operators, the TLC runs that check them on small instances, and TLAPS proofs
about them. Paths below are relative to `src/src/` of the repository.

    tlc -workers 2 -config PolicyDb.cfg MCPolicyDb     one run
    tlapm PolicyDbProofs.tla                           one module of proofs

`PROJECT.json` lists components, runs, mutants, hazards and theorems, and maps
every definition to the lines it models.

## 1. Inventory

| Component | State | Operations | Interacts with | Hard behaviour | What makes it correct |
|---|---|---|---|---|---|
| Policy database (`service/cfgapi`, `service/cmd`) | libconfig tree, `db_policy_list`, config file | add, set, remove, move, reload, save | every session matches against the list | several critical sections per operation, several operators, exceptions half-way | matching always sees one whole configured policy |
| SOCKS proxy (`proxy/socks5`) | `socksServerCX` state machine, `SocksProxy` handoff, shared UDP association table | hello, request, DNS, verdict, reply, handoff, datagrams | policy list, DNS, event loop | callbacks, timeouts, index kept across a reload, raw pointers in a shared table | only what policy admits is connected, and after its reply |
| Identities (`policy/authfactory*`, `shm/shmauth*`) | shared table, process copy, map of identities | refresh, merge, timeout, removal, lookup | portal process, every session | two processes, two locks, entries used after unlock | identities are those the portal wrote and that did not time out |
| Portal tokens (`policy/authfactory4.cpp`, `proxy/mitmproxy.cpp`) | token table, its shared copy | create, refresh, look up | portal, sessions | same table pattern as identities | a token leads back to the page and policy it was made for |
| DNS inspection (`inspect/dns*`, `service/dnsupd`) | request ids per session, prepared answer, shared cache, blacklist | request, response, serve from cache, refresh, clean up | sessions, updater thread, FQDN address objects | stale answers, TTL arithmetic, two writers | an answer fits its question and its remaining time |
| Rule matching (`policy/policy.cpp`, `policy/addrobj.cpp`) | none (rules) | match, action | policy list, DNS cache, libcidr | empty groups, several contexts per side, names resolved at match time | first match; the same rule as a fresh process would find |
| Address blocks (`ext/libcidr`) | none (values) | parse, print, compare, split, count | address objects, rule matching | prefix lengths at octet limits, 0 and full length; many text forms | the operations agree with sets of addresses; texts read back |
| Connection admission (`proxy/proxymaker.cpp`, `policy/loadb.cpp`) | session under construction, balancing counters | match, route, authorise, NAT, connect | policy, identities | the lock is taken anew in every step, with an index in hand | no rule no connection; the matched rule decides |
| MITM session (`proxy/mitmproxy.cpp`, `mitmhost.cpp`) | two contexts, replacement state, identity, whitelist | bytes, errors, half-close, pages, TLS requirements, STARTTLS | nearly all others | event order, later checks overwriting earlier ones, timers | payload flows only when every requirement is met; a failed side ends the session |
| Configuration objects (`service/cfgapi`, `policy/profiles.*`) | file, tree, objects, rules, options | load, upgrade, save, add, set, toggle, remove | policy rules, CLI, API | four copies brought up to date in parts; objects removed while referenced | what is filed is what decides; what is saved comes back |
| HTTP engine, signatures (`inspect/engine`) | parser state per flow | start, match | session | request/response pairing | each response with its request |
| HTTP API (`service/httpd`) | session tokens | login, check, expire | configuration | expiry races | only live tokens pass |
| CLI (`service/cmd`) | command tree, mode | generate, run | configuration | stale commands | a command acts on what it names |
| Service core, daemon (`service/core`, `service/daemon.cpp`) | threads, signals, pid file | start, reload, terminate | all | crash and restart | restart from the saved file |
| OCSP (`proxy/ocspinvoker.cpp`), filters (`proxy/filters`), knowledge base, Python inspector, smithd, logging, infrastructure scripts, vendored code | small or none | | | | see PROJECT.json |

## 2. Modules

    PolicyRules            matching and actions as operators
      PolicyDb             operators editing the policy      <- MCPolicyDb, PolicyDbProofs
        PolicyService      what it promises (INSTANCE)
      SocksProxy           SOCKS sessions                    <- MCSocksProxy, SocksProxyProofs,
                                                                SocksHandoffProofs
      ProxyMaker           admission of a session
        MitmSession        the session, from admission on    <- MCMitmSession, MitmSessionProofs
    AuthIdentity           identities and shared table       <- MCAuthIdentity, AuthIdentityProofs
    DnsInspector           DNS sessions, cache, updater      <- MCDnsInspector, DnsInspectorProofs
    Cidr                   address blocks as operators
      CidrBlocks           their algebra                     <- MCCidrBlocks, CidrBlocksProofs
      PolicyMatch          a rule against a connection       <- CfgObjectsProofs
    CfgSchema, CfgOptions  entries, objects and options of the file
      CfgValues            what set and toggle accept (also over PolicyMatch)
        CfgObjects         the operator's commands           <- MCCfgObjects, CfgObjectsProofs

### PolicyDb

`cfg` is the policy list of the configuration tree, `dbList` is
`db_policy_list`, `file` the saved file. An action is one critical section of
`CfgFactory::lock()`; `stage` remembers how far a `move` (three sections: change
the tree, `cleanup_db_policy`, `load_db_policy`) or a `load_config` (read the
tree, then reload) has come, for each operator. Set, toggle and remove hold
the lock to their end; add holds it until the list is refreshed, and then
`register_cli_entry` reads the length of the list twice without it
(`ReadLength`, `RegisterEntry`, with `seen` in between), so that the commands it
makes may be for an entry of another list, or for index -1. `load_db_policy` appends and throws at an entry without
fields; `load_config` catches that, the CLI does not, so the process ends and
starts again from the file (`EditThrows`, `MoveLoadThrows`, `Restart`). `cmds`
are the `move [i]` commands a session was given at login: nothing takes them
away, so they can name entries that are gone. A rule is the set of flows its
groups accept, a disabled bit and an action; what the fields mean, and rules
whose object names do not resolve, are in CfgObjects.

`PolicyService` states what all this promises to the connections that are
matched meanwhile: a flow meets the rule it met before, the one configured now,
or none for a time, and never a third one; once nothing is in progress every
flow meets the configured rule; and none is left without for ever.
`ServiceImplemented` maps what the loaded list decides to `decides`, what the
loadable part of the tree decides to `intended`, and the absence of operations
in progress to `settled`.

### SocksProxy

`cx` is the `socksServerCX` of a connection, `px` its `SocksProxy`, `object`
says whether the context still exists, `clients` is the shared table of UDP
associations, `list` the policy list, which `Reload` replaces at any time as
PolicyDb does. `Versions` are the protocol versions clients speak (0 for an
unknown one), `Commands` what they ask for. Requests are read by one action per
outcome (`Connect`, `UdpAssociate`, `BadRequest`, `ShortRequest` for one of less
than ten bytes, which is read again, `Datagram`, `UnauthorizedDatagram`), names are
resolved by `setup_dns_async` (whose socket may be there, may have failed, or may be
descriptor 0, which the code takes for an error) and `dns_response_callback` with
the fallback of `pre_write`. `on_left_message` looks at the context's error first,
which ends the proxy (`HandoffMessage`); then the policy is applied in `PolicyCheck`, and `socks5_handoff` is cut
where it releases the lock: bounds check, NAT lookup, left apply, right apply and
connect. Fields marked "history" do not exist in the code. The event loop
(`baseProxy`) is a library; it is modelled from how this code uses it. Left out:
`async_dns` off, the write of the hello, TLS to the client, unsupported address
types in datagrams. IPv6 connections are in the model but not in the instances.

### AuthIdentity

`shm` is the table shared with the portal; `copy` (`map_entries()`, by address)
and `entries` (`entries()`, a list) are what this process loaded last, `ip_map` holds
the identities in use. A removal erases from `copy` and saves it; whether the
library's `save()` then rewrites the list too is not to be seen in this repository, so it is
the constant `SaveFillsEntries` (the runs take the less favourable FALSE, the proofs either).
Each thread (the identity thread and
one per session) goes through load, merge, lookup, touch and removal; the two
locks and the semaphore are taken where the code takes them. The pointer to a
map entry is used after the lock is released, in two steps (`CheckEntry` is
`i_timeout()`, `TouchEntry` is `touch()`), and may be dangling: reading it is then a
free choice. One address family is modelled (the other is the same code on other
tables); traffic counters, logout at the portal and guests are left out.

### DnsInspector

`insp` is the inspector of a session (known request ids, verdict, prepared
response), `cache` the shared answers, `upd` the updater thread, which is cut
between `check_cache_expiry`, each query and the cleanup. Time is counted in the
updater's rounds of 10 s; `Tick` lets it pass at any moment. A response is
known by its question, the TTL of its first answer (which the cleanup looks at) and
its least TTL (which serving looks at). `apply_verdict` decrements in the
buffer, modulo `TtlMod`, and runs after every piece of data while the verdict is
CACHED, as in `MitmHostCX::inspect`. It comes after up to `MaxMessages` messages of one
flow entry (10 in the code), each of which is a step: `source` and `it` say whose they are
and how many there were, `due` that the verdict is still to be applied. Cached responses are switched on in the
profile. Left out: packet parsing, the subdomain cache, eviction at 2000
entries.

### ProxyMaker and MitmSession

`px` is a `MitmProxy` from `on_left_new` to its removal. Admission has an action
for each step that takes a lock of its own (`Make`, `Policy`, `Route`, `Dnat`,
`Snat`, `Connect`; `Authorize` is four of them: `Resolve`, `FindProfile`, `FindGroups` and the
last lookup); `Reload`, `Login` and `Logout` may come between
any two, and the proxy keeps only the index of its rule. The fields `rule`,
`denoted` (what the index has denoted since the match) and `groups` are history. Addresses of a routing profile expand to one of
`Servers`; a CRC may give any index.

`cx` holds the two contexts of a running session: what is in each write buffer
(payload, payload behind a failed check, a page), which side has failed, the
half-close timer, and the state of the TLS and authentication checks.
`on_left_bytes` and `on_right_bytes` are the whole handlers: `handle_requirements`
in the code's order, the overwriting of one result by the next included, sinkhole,
and the write to the other side. What is counted in bytes is kept as the two limits the code
compares with (`over200`, `over1k`): below 1024 bytes identities are looked at every time,
then at every hundredth read or write, which is a free choice. `on_starttls`, `FlushLeft`/`FlushRight` (the
event loop), `PeerFails`, `on_left_error`/`on_right_error`, `Tick` (half-close and
whitelist time) and `Reap` complete it; `Crash` is what ends the process: the uncaught `out_of_range`
of a rule looked up beyond the end (`mitmproxy.cpp:283`), and the unchecked results of lookups
(`proxymaker.cpp:335`, `mitmproxy.cpp:1319`). `leak` records that payload was written behind a check
that failed. Left out: content replacement, payload capture, OCSP queries (the
certificate's state is an input) and inspection engines (HTTP recognised or not is
an input).

### Cidr, CidrBlocks, PolicyMatch

`Cidr` translates libcidr with octets of `OctBits` bits, so that every index,
limit and prefix length is the code's with 8 replaced; a text is the sequence of
tokens the parser finds. A number after "/" goes through `IntOf`, the `(int) strtol()` of the code,
and sections before "::" beyond the eighth are written over the mask (`Overrun`). Powers of two are the recursive function `Pow2`, which the
proofs can unfold. `CidrBlocks` takes a block through parsing, printing,
splitting, widening and socket addresses, and compares the results with the sets of
addresses they stand for; `BlockText` says which texts they may be read from: not those that
overrun the address (from the seventeenth section on the code writes beyond the block), and not the
reverse names of v4. `PolicyMatch` is `PolicyRule::match`, over `cidr_contains` and
over the DNS cache for names; `Matchable` are the connections whose sockets `match_proto_cx`
knows (it throws for others).

### CfgSchema, CfgOptions, CfgValues, CfgObjects

`CfgSchema` has one loader, one saver and one template of a new entry for every
section; `CfgOptions` the same for settings, captures and debug, and the
upgrade of older files (one without *_internal_* is saved as it is, one without a version is
not saved); `CfgValues` the filters of `set` and `toggle` and what
they write. An address is kept as the block it was read to and written as `CidrText` of it, so "lan/mask" comes
back as "lan/4"; that the text reads back is `CidrTextAssumption`, which `TextRoundTrip` of CidrBlocks
justifies. Number of hardware threads, files that exist and file names with "^s" are the constants
`HwThreads`, `Existing`, `Placed`, `Expanded`. A quota that `load_captures` reads before it is set is a free
choice. `CfgObjects` puts an operator in front of them: `disk`, `cfg` (tree),
`db` (objects), `list` (rules made of objects) and `opt`, brought up to date by
`apply_config_change` or `remove` in parts as the code does it, saved from `db`,
`list` and `opt`, and loaded again by a restart. Objects know the rules that use them, as
`usage_add` records it. `filed`, `saved` and `last` are history. A command is one
action since it runs under the configuration lock (what is not so is in PolicyDb). The process starts
with files it comes up with (`FileOK`): where a rule lacks one of its groups, `load_config` throws
half-way, which at start ends the process and at a reload is in PolicyDb. Left out:
signatures, tenants, and the effects of settings on logging and capturing.

## 3. Runs

| Run | Instance | Shows |
|---|---|---|
| policy_db | 2 operators, 2 rules and a new one, 3 operations; 51,011 states | whatever two operators interleave, the list is a copy of the tree once they are done, every flow meets the rule the tree says, an emptied list is filled again; the database implements PolicyService |
| socks_tcp | 1 TCP client of every version and command, 2 targets, 3 lists, 2 reloads; 8,087 states | no rule no connection, reply before handoff, the matched rule is applied, one query per record type; every message to the proxy, of a request with or without error, ends in a connection or a close (or, after a policy change, in the `out_of_range` of the list) |
| socks_udp | 2 control connections (interchangeable) for one key, 1 UDP client, version 5, 1 reload; 1.7 million states | no dangling association even when both connections associate the same key and either goes first, one target per datagram socket |
| auth_identity | 2 addresses, 2 users, 1 session, 2 logins, 1 clearing | after a merge the identities are the shared rows (but for a removed row that the list still has), an idle identity is revived only by the late touch of a session that checked it before, a login reaches the identities in use |
| auth_login_lost (violation) | same, no clearing | removing one identity writes an old copy over another's login |
| dns | 1 session, 2 names (1 of an address object), answers of 1 round, one with a second record that runs out at once, 2 messages per flow entry; 571,740 states | first cached answer exact, verdict with response, cleanup and retry happen |
| dns_wrong_answer (violation) | the same with 2 ids and 1 message | a request gets the response prepared for an earlier one |
| mitm | 1 session slot, 1 client, 4 kinds of connection, 2 lists; 259,560 states | no rule no connection, NAT and authorisation of a rule that the index denoted during the admission, nothing past a failed certificate check of a TLS session, pending data kept for the half-close time, a failed side ends the session |
| mitm_denied (violation) | same | a connection a rule denies is connected |
| mitm_starttls (violation) | same | after STARTTLS a bad certificate does not stop the payload |
| cidr | octets of 2 bits, 21 texts, v6 split from /29 of 32 on; 2,905 states | containment is inclusion, texts read back, subnets partition, host counts |
| cfg_objects | 10 sections, a file of today's, one of an earlier version and schema 1000, one without *_internal_*, 3 commands; 67,231 states | a connection is decided as by a fresh process with the filed tree (unless a name of the policy is one that only db knows: `NoStrays`), what is saved comes back (but for rules with features or without nat: `ReadBack`), used objects are not removed, an accepted `set` loses no rule (but by `LetThrough`) |

Why the bounds are enough. Three operations let one operator be inside a move or an add while
another interleaves a removal and a reload, and let a list shrink under a stale
command. Three lists (empty, one rule, two rules with the other action first)
make an index refer to another rule, to none, or stay the same; two reloads
allow a change and a change back. Two logins on two addresses let one identity be
removed while the other's login is not yet loaded. TTLs of one round let an entry
be fresh, in its last round and run out, with `MaxAge` one beyond; `TtlMod` 3
makes a decrement below zero visible. `blacklist_rounds` 2 lets a round pass with
the name blacklisted. The session's limits in bytes may be passed with any event, and
beyond them a periodic check may be due or not every time; timers of one tick let them run and run
out; the two lists have different lengths and different rules under the same index, and reloads are
not limited. Octets of two bits keep nibbles (one bit) and octets apart and make all v4 blocks
reachable; the texts include prefixes at and beyond the limits, some that `(int)` cuts to a legal one, and masks with gaps.
Two control connections for one key are the least that let one destructor meet the other's association. Three
commands are the least that lose a use (`add`), `remove`, and show the effect, or that
edit, save and restart; the commands offered reach each section, filter and way of failing.

Deadlock is checked except where the system may stop: in the SOCKS runs finitely many connections
come to their end, and CfgObjects ends at `MaxCmds`.

Fairness. `PolicyDb`: an operator that is inside an operation goes on (a thread
in a function, waiting for a lock that is always released); no operator need
start anything. `SocksProxy`: the event loop keeps serving a connection
(`Serve`) and keeps reporting that it has failed (`on_left_error`), clients owe nothing. `AuthIdentity`: strong fairness, since a thread waits for a
mutex others take again and again and gets it in the end, and since a semaphore that can be
acquired is not refused for ever; the identity thread loops for ever
(`create_identity_refresh_thread`), a session that started a lookup finishes it. `DnsInspector`: the updater's loop has no exit but shutdown, each
query ends in an answer or a timeout, and time passes. `MitmSession`: time passes, and the event loop
reports an error of a socket in every cycle until the session is dead; peers, flushes and
admission owe nothing.

## 4. Proofs

For every value of the constants (and therefore any number of operators, rules,
addresses, users, sessions and operations):

* `PolicyDbProofs!TypeCorrect`: tree, list, file and commands keep their types;
  in particular the loaded list and the file never hold an empty entry. The lemmas say
  what `Loadable`, `RemoveAt`, `move_policy` and the generated commands return.
* `PolicyDbProofs!Copies`: `CopyOfConfig` is inductive: unless someone still has to
  clear the list, it is empty with a load pending, or begins with one whole copy
  of the loadable policy and holds nothing else. The second case is needed
  because two operators can both have cleared before either loads, so the list
  may be loaded twice.
* `PolicyDbProofs!Verdicts`: `QuietVerdicts` follows, since a first match in a list
  that starts with a copy and adds only its members is the first match in the copy.
* `AuthIdentityProofs!TypeCorrect`: shape of table, copy, map and threads.
* `AuthIdentityProofs!IdentitiesConsistent`: `QuietConsistent`, from the invariant
  `Consistent`: an address in the copy is in the shared table (`CopyInShm`), one in the
  map is in the copy if `save()` fills both containers (`MapInCopy`), the list has what the copy
  has (`EntriesInCopy`), the copy is the table unless a new
  version waits to be loaded (`CopyCurrent`), and the map agrees with the copy at
  every address no thread still has to merge (`MapCurrent`). The property alone is
  not inductive: it says nothing while a merge is under way. It is proved for both values of
  `SaveFillsEntries`; with FALSE a merge may bring back an identity whose row is gone, which the
  property excepts.
* `SocksProxyProofs!TypeCorrect`, `NeverDangling`, `RuleFirst`, `ReplyFirst`, all from one
  inductive invariant `Inv`: the types; `Tabled` (an entry of the association table is an
  existing context whose own key it is); and for each connection `Sound`: a UDP session
  past its first datagram has a target (`Named`), only a decided request has an
  association, a handoff or a connection (`Judged`), past the index check there is a rule
  (`Ruled`), and a TCP session's reply is written with the verdict and flushed before
  the handoff (`Replied`). `NoDanglingAssoc` needs `Judged`: a second association of one context
  would otherwise leave the first entry behind. The types need `Named`. Each action has a
  lemma for the types and one for `Sound` of its own connection; `Spread` does the others.

* `SocksHandoffProofs!RuleKept`, `AskedOnce`, `OneTarget`: the other three invariants of
  SocksProxy, from `Inv2`, which adds to `Inv` for each connection `Steady`: a decided
  request is past its name lookup and is not read again before it is connected, and nothing
  is applied before the index check (`Settled`); while the list is the one matched
  against, matching again would give the same rule, and only that rule has been applied
  (`Faithful`); the record types asked for are distinct and among those marked as tested, and
  the one outstanding on TCP is the last (`Asks`, `Once`); a UDP session sends
  only to its allowed target, which is its destination, and no lookup that could replace it
  is under way (`Aimed`). Without the last part `Aimed` is not inductive: an answer
  that `pre_write` puts in place would change the destination after the first datagram.
* `PolicyDbProofs!ImplementsService`: the safety half of `ServiceImplemented`, for each step of each
  operator (`ServiceStep`). What the list decides is a function of the list; `ListStep` says that a
  step leaves the list, empties it, or makes it decide as the configuration does, from `Copies`.
* `AuthIdentityProofs!RevivedByLateTouchOnly`: the action property `IdleRevivedByLateTouchOnly`. Every
  write to the map is an upsert that keeps the idle bit of a present entry (`UpsertKeepsIdle`), a removal
  (`RemoveRevivesNone`), or a touch by a session that is past its check.
* `DnsInspectorProofs!TypeCorrect`, `VerdictMeansResponse`, `FirstServeIsExact`, from the types, `Fits`
  (the TTLs of a cached answer fit their field, the least is no larger than the first) and `Paired`:
  verdict and response are set and reset together (`Together`), a response that is still to be sent for
  the first time is as the cache had it (`Exact`), and messages are counted only within a flow
  entry (`Counted`). `FirstServeExact` needs both: without `Fits` the subtraction could wrap, and without
  `Exact` a "first" answer could be one sent and decremented before.
* `MitmSessionProofs!TypeCorrect`, `NoRuleStops`, `AdmittedByItsRule`, `TlsChecked` and the action
  property `PendingIsKept`, from `Inv`: the types and for each session `Good`: what its stage says
  about its rule and index (`Ruled`), that what the index denotes now is in its history `denoted` (`Located`), that
  authorisation and NAT are those of a rule in that history (`Admitted`, `Natted`), that a session that is
  TLS from the start and failed its check is dead or has a closed side and nothing unchecked queued for
  the other (`Sealed`), and that contexts exist only while the session runs (`Fresh`).
  `NoRuleNoConnection` is not inductive alone: index -1 goes through policy, routing and authorisation,
  and only `Ruled` tells that `setup_snat` still has to fail for it.
* `CfgObjectsProofs!TypeCorrect` and the action property `UsedStays` (`UsedNotRemoved`), from `Inv`:
  tree and file are such that they can be read (`FileOK`), objects and rules have their shape
  (`DbOK`, `ListOK`), the names a rule was made with are still those of objects (`Backed`), and those
  objects know that they are used wherever the tree has no name that the last applied command did not leave
  (`Registered`, `Grown`). `Backed` is needed because a refused `remove` enters null objects under
  the names it looked up, which must not hide an object; the condition in `Registered` because `add`
  makes the objects of a section anew and registers no rule with them. That the loop of
  `load_db_policy` makes a list of accepted rules (`PolicyLoaded`) is an induction over the entries, done with
  the least entry at which it would fail. The property needs no condition on `db`: `Backed` gives
  what it asks of it.
* `CfgObjectsProofs!VerdictsFiled` (`VerdictAsFiled`), from two further parts of `Inv`: `Current` (in every
  section there is an object for every entry of the tree that its loader accepts, and for no other
  entry, and addresses, ports and protocols are what the loader makes of the entry) and `Decided` (unless
  a stray name is in the way, the rules are, one by one, those that a fresh process would make of the filed
  tree). `Current` is kept because a section's loader sees other sections only where
  it does not matter to the verdict (`LoadAnywhere`); two loops over the same entries then keep the same ones
  (`Lockstep`, `SameRules`), and equal rules give the same outcome (`OutcomeAlike`). The condition `NoStrays`
  came out of the proof: the property had only asked for no null object, but a name that was looked up in
  vain, refused in a rule and then added is no longer null, and a routing that a reload left in place makes a
  rule that a restart would not make.
* `CfgObjectsProofs!SavesComeBack` (`SavedComesBack`), from `Inv` and `Written`: the file is `save_config` of the
  recorded objects, rules and options, and these have the shape of `Running`. `FreshSaved` follows
  each object through its saver and its loader, `RuleComesBack` each rule, `OptionsWritten` the options through
  the loaders that run one after the other (`Faithful`: what the ones before took over is left alone).
* `CfgObjectsProofs!SetKeeps` (the action property `SetKeepsRules`), from `Current`: whatever `set` writes, an
  entry of an object that could be loaded still can (`StillLoadable`), so no name a rule needs goes away
  (`StillAccepted`), and what a filter of the policy accepts is found by `load_db_policy` (`StillMade`).
  The exceptions in `LetThrough` are what the proof could not do without, and each is a gap between a filter
  and the loader (section 5).
* `CfgObjectsProofs!BroaderMatches`, `ShadowedNeverMet`: `cidr_contains` is a preorder on blocks of
  any octet size, masks with gaps included (`ContainsReflexive`, `ContainsTransitive`); so a rule whose
  protocol, addresses (names as the DNS cache has them) and ports cover those of another matches all the
  other matches, and `policy_match` never returns the other if it comes later. The hypotheses
  say what `cover` means, an empty group being everything, and that ports are numbers.
* `CidrBlocksProofs!TypeCorrect`, `InclusionDecided`, `SubnetsCover`, `HostsAreCounted`, `TextsComeBack`: all
  five invariants of CidrBlocks, for octets of any even number of bits, so for the code's 8. The
  inductive invariant is `Shape`: the block is `IsBlock(b, n)` for some n, that is, its mask is the
  first n bits of sixteen octets, n is not before the bits of its protocol, and a v4 address is in mapped form.
  It is more than the types: `TypeOK` says that the bits of the mask after the start are contiguous, `Shape` what
  the mask is. `Parsed` gives it for what is read, `EndsOf`, `HostsOf`, `SupernetOf`, `SubnetsOf` for the
  operations, `TextAgain` for what is printed and read again. Under them lie powers of two (`PowerDef`: a
  recursive function exists and is unique, by the least number at which it would fail), digits of an octet
  (`SameDigits`: two octets with the same bits are equal), and the bits of sixteen octets (`Cleared`, `BitSet`,
  `MaskBits`). Then the properties follow block by block: `ContainsIsLiesIn` from the lexicographic order at the
  first octet that differs (`WiderEnds`, `WiderOnly`), `ChildrenPartition` from the one bit in which the two children
  differ (`SideBySide`), `HostCount` from the sum of what the octets of a broadcast address have over those
  of the network address (`SpreadSum`), and the round trip from the tokens: the sections before and after
  the longest run of zeros give the octets again (`V6Read`), a mask has the length of its own protocol's
  octets only (`SameLength`), half octets make octets (`Reverse6`), and the mark of a v4 address in v6 clothes
  is its two full octets (`ClothedRead`).

The assumptions are the named `ASSUME`s of the modules, which TLC evaluates on every run: sets
are finite where they are counted, rules, policies and routing profiles are
sequences of records of the types the code declares, there is a kind of connection, process
names and `None` differ from the values beside them, SOCKS versions are 4, 5 or the unknown 0, the balancing
counter wraps at a multiple of every number of servers, and the number of hardware threads is a number.
`CidrTextAssumption` says that the text of a block an address object holds reads back as this block; CidrBlocks
proves that of every block (`TextsComeBack`). `CfgObjectsAssumption` says what
libconfig guarantees of a file it has read (no setting has an empty name, a list is a list, a
number is a number, rules have their groups), that connections are `Matchable`, that the texts taken for numbers are those of integers, and that "cidr" and "fqdn"
are not among them. `BlocksAssumption` says that the texts are of the forms the parser finds, with natural
numbers in them and no more than eight sections before "::". The reverse name of a v4 block is not among those a block starts from: `FromPtr4` leaves the octets
before the address zero, so such a block is not in mapped form, as `TypeOK` asks (every block is still printed as
one and read back, in `TextRoundTrip`).

Only model-checked: every liveness property, the second half of
`ServiceImplemented` included (fairness is out of TLAPS's reach here). Every invariant and every action property
that a passing run checks is proved.

## 5. Disagreements

The violation runs show where the code does not do what its comments or messages
say; PROJECT.json quotes both. Further ones were met while modelling; the models
contain them, but no run is devoted to them.

Policy and its commands:

* `cmdserver.cpp:1711`: `move` clears and loads in two critical sections, so connections are
  matched against an empty list, although the lock is there "to not try to match against
  potentially empty/partial policy list" (`smithproxy.cpp:662`).
* `cfgapi.cpp:4446`: a `move [i]` command generated for a longer list loses entries, and when the
  move fails the changed tree stays unloaded until somebody refreshes the list (`stale` in PolicyDb).
* `cmdserver.cpp:1836`: `register_cli_entry` measures the list after the lock is released.
* `cmdserver.cpp:1455`, `cfgapi.hpp:529`: `add` forgets the uses of a section's objects, after
  which `remove` takes a used one; a removed protocol turns its rule into one for any protocol.
  `remove` of an unknown name enters a null object, which the filters then accept.
* The filter of `action` accepts "reject", which `load_db_policy` refuses: the rule is dropped, and the
  next save erases it. The same happens to an empty feature, which no filter sees, to any script, and to a
  rule whose profiles are missing when its action becomes accept, since nobody looked for them before.
* `cfgapi.cpp:3077`: `cleanup` leaves the routing and `tls_ca`, so that after a reload a rule may use one that is not
  in the file any more.
* Features, `nat` "", `fill_length`, scripts, `magic_ip` and `address6` are
  not written by save; an empty `udp_quick_ports` is saved as `[0]`; `pcap_quota` is applied only
  together with `pcap_single`; `http_api.port` is never used; `auth_portal.address` reaches the redirects only with a reload
  of the auth profiles.
* The filter of `host_bufsz_min` and the like accepts 10000000, which a load passes over.
* `cfgapi.cpp:1215` and others: a rule without `src`, `sport`, `dst` or `dport` throws, and what would be loaded
  after it is not.
* `set redirect_warning_ports` on an empty array stores texts, on which the next load throws.

SOCKS:

* `socksproxy.cpp:80`: `policy_action` returns -1 for no match; kept in a `bool`, the
  client is told "accepted" and then dropped at the handoff.
* `socksproxy.cpp:108`: a rejected request is handed off and connected all the same.
* `socksproxy.cpp:216`: the index checked without lock may be out of range when it is used, and throws.
* `socksproxy.cpp:112`: "There is nothing to handoff on UDP association connection",
  but the control connection reaches HANDOFF too and is closed by the index check.
* `sockshostcx.cpp:224`: negative results of `send_dns_request` are taken for sockets, and descriptor 0 for an error; the
  request then waits until the client gives up. The same happens when both record
  types have failed.
* `sockshostcx.hpp:102`: the destructor of a second association erases the
  first one's entry.

Sessions and identities:

* `mitmproxy.cpp:467`: "'li' is still valid, since we still hold the lock", after
  the scope of the lock. `mitmproxy.cpp:524`: `i_timeout()` and `touch()` run without it too, so that a timeout
  in between is undone.
* A session that is resolved keeps its identity whatever the portal writes later (`mitmproxy.cpp:388`).
* `proxymaker.cpp:310`, `:328`, `:335`: three lookups by one index under three locks; the last is used unchecked, as
  is the one at `mitmproxy.cpp:1319`.
* `authfactory4.cpp:92`: a new login on a known address keeps the old `last_seen_at`;
  `authfactory4.cpp:235`: the result of `acquire()` is ignored.
* `mitmproxy.cpp:283`: a session that learns of its identity after a reload to a shorter
  list throws `out_of_range`, which nothing catches; `authorize_is_bad` finds nothing bad when
  the index now denotes a rule without auth profile.
* `handle_requirements` overwrites the result of the authentication by that of the TLS
  check; a redirected client's data may still be forwarded. "Rest of connections should be closed
  when sending replacement to a client" is not so for the server's side.
* Features of a rule (sinkholes) are applied only if it has an auth profile; the sinkhole is
  skipped where content rules exist. The round-robin counter is incremented outside its lock.

DNS:

* `dnsinspector.cpp:376`: a prepared answer is sent again on later data of the session, and its TTL
  is decremented again each time and may wrap; the request it answers is forwarded to the server too,
  since nothing calls `handle_cached_response`.
* `dnsinspector.cpp:347`: a response is accepted for any id the session ever used;
  `opt_match_id` is set and never read.

Address blocks:

* A v4 block read from a reverse name leaves octets 10 and 11 zero, contrary to the comment in
  `cidr_to_in6addr`; the test `nocts == 15` never holds; more than eight sections without "::"
  are accepted (the last eight count); more than eight before "::" are written over the mask and, from the
  seventeenth on, beyond the block (`cidr.cpp:1449`); a prefix that is no number is 0, and one beyond
  32 bits is cut to an `int` (`cidr.cpp:1007`, `:1218`).

## 6. Not modelled, and what is left

The largest parts left out are the diagnostics of the CLI and the JSON output of the API (they
print), the HTTP engine, HTTP/2 and signatures (pattern matching on payloads), start-up of
threads and sockets, logging, and third-party code other than libcidr. Portal tokens
are left out because the portal is not in the repository and the code says nothing of what
a token must lead to: `handle_replacement_auth` pushes the new token into the table before it
takes the semaphore, the identity thread may replace the table meanwhile, and tokens made in
the same second are equal since each generator is seeded with the time alone (`shmauth.hpp`).
Synchronous DNS of SOCKS, DTLS and the login to the HTTP API could be modelled with what is here.
