----------------------------- MODULE ProxyMaker -----------------------------
(***************************************************************************)
(* Admission of a connection by the transparent proxy: what on_left_new    *)
(* of the TCP and UDP acceptors (proxy/mitmproxy.cpp) does with a newly    *)
(* accepted socket, through the steps of proxy/proxymaker.cpp.             *)
(*                                                                         *)
(*   list   CfgFactory::db_policy_list, replaced by a reload at any time   *)
(*   ident  the identity map: groups of the user behind an address         *)
(*   lb     balancing state of the routing profile                         *)
(*   px     a MitmProxy, from its making to its removal                    *)
(*                                                                         *)
(* Each step that takes a lock of its own is an action of its own, so the  *)
(* policy may change between any two of them; the proxy keeps the index of *)
(* its rule.  resolve_identity is one step here: AuthIdentity has its own. *)
(* Fields marked "history" do not exist in the code.                       *)
(***************************************************************************)
EXTENDS PolicyRules

CONSTANTS Conns,       \* slots for sessions
          Kinds,       \* what can be accepted: source, target, protocol, certificate
          Policies,    \* the policy lists a reload can produce
          Groups,      \* names of user groups
          NoId,        \* no identity for an address
          Servers,     \* lists of addresses a routing profile can expand to
          RrMod        \* bound: the round-robin counter is kept modulo this

POLICY_IMPLICIT_PASS == 65500

Hosts == {k.client : k \in Kinds}

\* The ports a replacement page can be shown on.
is_replaceable(port) == port \in {80, 443}

\* failed_certcheck_replacement and failed_certcheck_override of a TLS profile.
\* One that does not inspect, or lets the target pass by its SNI list, has the
\* verification reset and counts as one without replacement.  NoTls: the
\* options of a fresh SSL context, when no profile is applied.
TlsProfile == [replace : BOOLEAN, override : BOOLEAN]
NoTls == [replace |-> FALSE, override |-> FALSE]

\* What admission reads of a rule (PolicyRule), of its auth profile and of the
\* sub-profile of a group: its TLS profile, if it has one, and whether it has
\* content rules.
SubProfiles == [name : Groups, tls : Seq(TlsProfile), content : BOOLEAN]
AuthProfiles == [authenticate : BOOLEAN, resolve : BOOLEAN, sub : Seq(SubProfiles)]
Rules == [flows : SUBSET {k.flow : k \in Kinds}, disabled : BOOLEAN, pass : BOOLEAN,
          nonat : BOOLEAN, auth : Seq(AuthProfiles), tls : TlsProfile,
          sink : SUBSET {"L", "R"}, content : BOOLEAN, route : {"no", "rr", "l3", "l4"}]

\* Where a session can go: the target it was made for, or one of a routing profile.
Targets == {k.target : k \in Kinds} \cup UNION {{s[i] : i \in 1..Len(s)} : s \in Servers}

ASSUME ProxyMakerAssumption ==
    /\ \A g \in SUBSET Groups : NoId # g
    /\ RrMod \in Nat \ {0}
    /\ \A l \in Policies : l \in Seq(Rules) /\ Len(l) < POLICY_IMPLICIT_PASS
    /\ Servers \subseteq Seq(Targets)
    /\ Kinds # {}
    /\ \A s \in Servers : RrMod % (IF s = <<>> THEN 1 ELSE Len(s)) = 0
    /\ \A k \in Kinds : k.port \in Nat /\ k.magic \in BOOLEAN /\ k.udp \in BOOLEAN

VARIABLES list, ident, lb, px

pmVars == <<list, ident, lb, px>>

\* "identified", "profiled" and "grouped" are inside authorize().
Stages == {"none", "made", "matched", "routing", "routed", "identified", "profiled", "grouped",
           "authorized", "ready", "running"}

AnyKind == CHOOSE k \in Kinds : TRUE

\* A slot without session.
NoProxy == [stage |-> "none", kind |-> AnyKind, policy |-> NoPolicy,
            authenticate |-> FALSE, resolve |-> FALSE, block |-> FALSE, resolved |-> FALSE,
            tls |-> NoTls, sink |-> {}, content |-> FALSE, bypass |-> FALSE,
            route |-> "no", target |-> AnyKind.target, nonlocal |-> FALSE,
            groups |-> NoId,       \* maybe_groups of authorize_is_bad, kept until connect()
            rule |-> <<>>,         \* history: the rule that matched
            denoted |-> {}]        \* history: what the index has denoted since the match

PmInit ==
    /\ list \in Policies
    /\ ident \in [Hosts -> {NoId}]
    /\ lb = [rr |-> 0, cand |-> <<>>]
    /\ px = [c \in Conns |-> NoProxy]

-----------------------------------------------------------------------------
(* The surroundings: reload, logins and logouts, and what the routing       *)
(* profile's addresses resolve to.                                         *)

\* What an index denotes in a list: a rule, or nothing.
RuleAt(l, i) == IF i \in 0..(Len(l) - 1) THEN <<l[i + 1]>> ELSE <<>>

Reload ==
    /\ list' \in Policies \ {list}
    /\ px' = [c \in Conns |-> IF px[c].denoted # {} /\ px[c].stage # "ready"
                              THEN [px[c] EXCEPT !.denoted = @ \cup {RuleAt(list', px[c].policy)}]
                              ELSE px[c]]
    /\ UNCHANGED <<ident, lb>>

Login(h, g) ==
    /\ ident[h] = NoId
    /\ ident' = [ident EXCEPT ![h] = g]
    /\ UNCHANGED <<list, lb, px>>

Logout(h) ==
    /\ ident[h] # NoId
    /\ ident' = [ident EXCEPT ![h] = NoId]
    /\ UNCHANGED <<list, lb, px>>

-----------------------------------------------------------------------------
(* Identities of a session: mitmproxy.cpp.                                  *)

\* find_auth_subprofile: the first sub-profile named like one of the groups;
\* a rule has at most one auth profile.
find_auth_subprofile(auth, groups) ==
    LET sub == IF auth = <<>> THEN <<>> ELSE auth[1].sub
        hits == {i \in 1..Len(sub) : sub[i].name \in groups}
    IN  IF hits = {} THEN <<>> ELSE <<sub[CHOOSE i \in hits : \A j \in hits : i <= j]>>

\* apply_id_policies: a TLS profile of the sub-profile replaces the rule's, and
\* so do content rules.
apply_id_policies(p, groups) ==
    LET sub == find_auth_subprofile(list[p.policy + 1].auth, groups)
    IN  IF sub = <<>> THEN p
        ELSE [p EXCEPT !.tls = IF sub[1].tls = <<>> THEN @ ELSE sub[1].tls[1],
                       !.content = @ \/ sub[1].content]

\* find_id_groups: the groups behind an address.
find_id_groups(h) == IF h \in Hosts THEN ident[h] ELSE NoId

\* A session that learns of the identity behind h looks its rule up by index,
\* without lock: db_policy_list.at() throws beyond the end, and nothing catches it.
LookupThrows(p, h) == ~p.resolved /\ find_id_groups(h) # NoId /\ p.policy >= Len(list)

\* resolve_identity, when it returns, for a context whose host is h.  An identity
\* that is still there is touched; one that is new to the session brings its
\* sub-profile.
resolve_identity(p, h) ==
    LET groups == find_id_groups(h)
        q == [p EXCEPT !.resolved = groups # NoId]
    IN  IF groups = NoId \/ p.resolved THEN q ELSE apply_id_policies(q, groups)

-----------------------------------------------------------------------------
(* proxymaker.cpp                                                          *)

\* on_left_new: a proxy is made of the accepted context and one for the target.
Make(c, k) ==
    /\ px[c].stage = "none"
    /\ px' = [px EXCEPT ![c] = [NoProxy EXCEPT !.stage = "made", !.kind = k, !.target = k.target]]
    /\ UNCHANGED <<list, ident, lb>>

prof_content_apply(p, r) == [p EXCEPT !.content = r.content]

prof_tls_apply(p, r) == [p EXCEPT !.tls = r.tls]

\* policy_apply_features: the filters of the rule's feature tags.
policy_apply_features(p, r) == [p EXCEPT !.sink = r.sink]

\* policy_apply for a matching rule with action pass: its profiles, and its
\* features if there is an auth profile among them.
policy_apply(p, r) ==
    LET q == prof_tls_apply(prof_content_apply(p, r), r)
    IN  IF ~r.pass THEN p
        ELSE IF r.auth = <<>> THEN q
        ELSE policy_apply_features([q EXCEPT !.authenticate = r.auth[1].authenticate,
                                             !.resolve = r.auth[1].resolve], r)

\* policy(): the magic address of the portal passes, everything else is matched.
Policy(c) ==
    LET p == px[c]
        i == policy_match(list, p.kind.flow)
    IN  /\ p.stage = "made"
        /\ px' = [px EXCEPT ![c] =
                    IF p.kind.magic
                    THEN [p EXCEPT !.stage = "routed", !.policy = POLICY_IMPLICIT_PASS, !.bypass = TRUE]
                    ELSE IF i = NoPolicy THEN [p EXCEPT !.stage = "routed"]
                    ELSE [policy_apply(p, list[i + 1]) EXCEPT
                                !.stage = "matched", !.policy = i, !.rule = <<list[i + 1]>>,
                                !.denoted = {<<list[i + 1]>>}]]
        /\ UNCHANGED <<list, ident, lb>>

\* policy(), second half: lookup_policy once more, by index, and
\* ProfileRouting::update if the rule found there is routed.
Route(c) ==
    LET p == px[c]
        routed == p.policy < Len(list) /\ list[p.policy + 1].route # "no"
    IN  /\ p.stage = "matched"
        /\ px' = [px EXCEPT ![c].stage = IF routed THEN "routing" ELSE "routed",
                            ![c].route = IF routed THEN list[p.policy + 1].route ELSE "no"]
        /\ \/ routed /\ \E s \in Servers \cup {lb.cand} : lb' = [rr |-> (lb.rr + 1) % RrMod, cand |-> s]
           \/ ~routed /\ UNCHANGED lb
        /\ UNCHANGED <<list, ident>>

\* lb_index_rr, lb_index_l3 and lb_index_l4: a CRC of addresses and ports can
\* give any index.
lb_index(method, n) == IF method = "rr" THEN {lb.rr % n} ELSE 0..(n - 1)

\* get_dnat_target under the lock of the balancing state, and route().
Dnat(c) ==
    /\ px[c].stage = "routing"
    /\ IF lb.cand = <<>>
       THEN px' = [px EXCEPT ![c].stage = "routed"]
       ELSE \E i \in lb_index(px[c].route, Len(lb.cand)) :
                px' = [px EXCEPT ![c].stage = "routed", ![c].target = lb.cand[i + 1]]
    /\ UNCHANGED <<list, ident, lb>>

\* policy_prof_auth: the auth profile of the rule the index denotes now, if any.
policy_prof_auth(i) ==
    LET r == RuleAt(list, i) IN IF r = <<>> THEN <<>> ELSE r[1].auth

\* What on_left_new makes of authorize(): a session that may not go on does so
\* where a page can be shown instead.  The UDP acceptor looks its source up only
\* now and may fail to.
Authorized(c, q, ok) ==
    \/ /\ ok \/ is_replaceable(q.kind.port)
       /\ px' = [px EXCEPT ![c] = [q EXCEPT !.stage = "authorized"]]
    \/ /\ (~ok /\ ~is_replaceable(q.kind.port)) \/ q.kind.udp
       /\ px' = [px EXCEPT ![c] = NoProxy]

\* authorize(): an identity is looked for where the rule said so; one that must
\* authenticate and is known goes on to authorize_is_bad.
Resolve(c) ==
    LET p == px[c]
        asks == p.authenticate \/ p.resolve
        q == IF asks THEN resolve_identity(p, p.kind.client) ELSE p
    IN  /\ p.stage = "routed"
        /\ ~(asks /\ LookupThrows(p, p.kind.client))
        /\ IF p.authenticate /\ q.resolved
           THEN px' = [px EXCEPT ![c] = [q EXCEPT !.stage = "identified"]]
           ELSE Authorized(c, q, ~p.authenticate)
        /\ UNCHANGED <<list, ident, lb>>

\* authorize_is_bad, its first lookup: without auth profile nothing is bad.
FindProfile(c) ==
    LET p == px[c]
    IN  /\ p.stage = "identified"
        /\ IF policy_prof_auth(p.policy) = <<>> THEN Authorized(c, p, TRUE)
           ELSE px' = [px EXCEPT ![c].stage = "profiled"]
        /\ UNCHANGED <<list, ident, lb>>

\* authorize_is_bad: the groups of the address, under the lock of the identities.
FindGroups(c) ==
    LET p == px[c]
        groups == find_id_groups(p.kind.client)
    IN  /\ p.stage = "profiled"
        /\ IF groups = NoId THEN Authorized(c, [p EXCEPT !.block = TRUE], FALSE)
           ELSE px' = [px EXCEPT ![c].stage = "grouped", ![c].groups = groups]
        /\ UNCHANGED <<list, ident, lb>>

\* Mutant: any known user will do.
authorize_is_bad_mut(p) == p.groups = NoId

\* authorize_is_bad: the groups found against the sub-profiles of the rule the
\* index denotes by then.
authorize_is_bad(p) == find_auth_subprofile(policy_prof_auth(p.policy), p.groups) = <<>>

\* authorize_is_bad, its second lookup, whose result is not checked: without auth
\* profile the process ends.
CheckGroups(c) ==
    LET p == px[c]
        bad == authorize_is_bad(p)
    IN  /\ p.stage = "grouped"
        /\ policy_prof_auth(p.policy) # <<>>
        /\ Authorized(c, [p EXCEPT !.block = bad], ~bad)
        /\ UNCHANGED <<list, ident, lb>>

\* Mutant: a failed lookup is taken for "no NAT to set up".
setup_snat_mut(p) == [ok |-> TRUE, nonlocal |-> p.policy \in 0..(Len(list) - 1) /\ list[p.policy + 1].nonat]

\* setup_snat: NAT of the rule by index; at() throws for -1 and beyond the end.
setup_snat(p) ==
    IF p.policy = POLICY_IMPLICIT_PASS THEN [ok |-> TRUE, nonlocal |-> FALSE]
    ELSE IF p.policy \in 0..(Len(list) - 1) THEN [ok |-> TRUE, nonlocal |-> list[p.policy + 1].nonat]
    ELSE [ok |-> FALSE, nonlocal |-> FALSE]

Snat(c) ==
    LET s == setup_snat(px[c])
    IN  /\ px[c].stage = "authorized"
        /\ px' = [px EXCEPT ![c] = IF s.ok THEN [@ EXCEPT !.stage = "ready", !.nonlocal = s.nonlocal]
                                   ELSE NoProxy]
        /\ UNCHANGED <<list, ident, lb>>

\* connect(): the target is connected, from the address setup_snat chose, and the
\* session handed to its acceptor; what only its admission reads ends here.
Connect(c) ==
    /\ px[c].stage = "ready"
    /\ px' = [px EXCEPT ![c].stage = "running", ![c].denoted = {}, ![c].groups = NoId,
                        ![c].route = "no", ![c].nonlocal = FALSE]
    /\ UNCHANGED <<list, ident, lb>>
=============================================================================
