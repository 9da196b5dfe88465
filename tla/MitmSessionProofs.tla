-------------------------- MODULE MitmSessionProofs --------------------------
(***************************************************************************)
(* Proofs about MitmSession and the admission in ProxyMaker, for any       *)
(* policies, sessions, identities and timeouts.                            *)
(***************************************************************************)
EXTENDS MitmSession, WellFoundedInduction, TLAPS

-----------------------------------------------------------------------------
(* The inductive invariant                                                 *)

\* A MitmProxy with all its fields.
Session ==
    [stage : Stages, kind : Kinds, policy : -1..POLICY_IMPLICIT_PASS,
     authenticate : BOOLEAN, resolve : BOOLEAN, block : BOOLEAN, resolved : BOOLEAN,
     tls : TlsProfile, sink : SUBSET {"L", "R"}, content : BOOLEAN, bypass : BOOLEAN,
     route : {"no", "rr", "l3", "l4"}, target : Targets, nonlocal : BOOLEAN,
     rule : Seq(Rules), denoted : SUBSET Seq(Rules), groups : {NoId} \cup SUBSET Groups]

\* The two contexts of a session.
Context ==
    [com : {"plain", "tls"}, type : {"NONE", "HTTP"}, app : BOOLEAN, handled : BOOLEAN,
     lq : SUBSET {"data", "unchecked", "page"}, rq : SUBSET {"data", "unchecked"},
     lopen : BOOLEAN, ropen : BOOLEAN, caw : BOOLEAN, lerr : BOOLEAN, rerr : BOOLEAN,
     dead : BOOLEAN, hold : 0..NotHeld, over200 : BOOLEAN, over1k : BOOLEAN,
     failed : BOOLEAN, leak : BOOLEAN]

Typed ==
    /\ list \in Policies
    /\ ident \in [Hosts -> {NoId} \cup SUBSET Groups]
    /\ lb \in [rr : 0..(RrMod - 1), cand : Servers \cup {<<>>}]
    /\ px \in [Conns -> Session]
    /\ cx \in [Conns -> Context]
    /\ wl \in [Keys -> 0..WlTimeout]

\* Stages between the match and the connection.
Admitting ==
    {"matched", "routing", "routed", "identified", "profiled", "grouped", "authorized"}

\* What a session has of the rule that matched it.  A session without rule has
\* no index, unless it goes to the portal; one that looks at identities has an
\* index; one matched by a passing rule looks at them as that rule says.  The
\* history of what the index denoted is there while the session is admitted.
Ruled(p) ==
    /\ p.stage \notin {"none", "made"} =>
            p.rule # <<>> \/ p.kind.magic \/ p.policy = NoPolicy
    /\ p.stage \in {"ready", "running"} => (p.rule # <<>> \/ p.kind.magic) /\ p.policy >= 0
    /\ p.authenticate \/ p.resolve \/ p.stage = "matched" => p.policy >= 0
    /\ p.stage \in {"none", "made"} => p.rule = <<>> /\ p.policy = NoPolicy
    /\ p.stage \in {"none", "made", "running"} => p.denoted = {}
    /\ p.stage = "grouped" => p.groups # NoId
    /\ p.rule # <<>> => p.policy # POLICY_IMPLICIT_PASS
    /\ (p.rule # <<>> /\ p.rule[1].pass /\ p.rule[1].auth # <<>>) =>
            p.authenticate = p.rule[1].auth[1].authenticate

\* What the index denotes now is in the history.
Located(p) ==
    (p.stage \in Admitting /\ p.rule # <<>>) => RuleAt(list, p.policy) \in p.denoted

\* The rule that matched asks for a login, and no page can be shown.
Demands(p) ==
    /\ p.rule # <<>> /\ p.rule[1].pass /\ p.rule[1].auth # <<>> /\ p.rule[1].auth[1].authenticate
    /\ ~is_replaceable(p.kind.port)

\* What an index denotes (a rule or nothing) lets a user with groups g pass.
Lets(d, g) ==
    \/ d = <<>> \/ d[1].auth = <<>>
    \/ g # NoId /\ find_auth_subprofile(d[1].auth, g) # <<>>

\* A session is past authorize() by something its index denoted meanwhile.
Admitted(p) ==
    (p.stage \in {"authorized", "ready"} /\ Demands(p)) =>
        \E d \in p.denoted : Lets(d, p.groups)

\* Its NAT is that of a rule its index denoted meanwhile.
Natted(p) ==
    (p.stage = "ready" /\ p.rule # <<>>) =>
        \E d \in p.denoted : d # <<>> /\ p.nonlocal = d[1].nonat

\* A TLS session whose certificate failed is dead, or one side is closed and
\* nothing unchecked waits for the other.
Sealed(p, x) ==
    p.kind.tls = "tls" =>
        /\ ~x.leak
        /\ x.failed => x.handled
        /\ ~x.failed => "unchecked" \notin x.lq /\ "unchecked" \notin x.rq
        /\ x.failed => \/ x.dead
                       \/ ~x.ropen /\ "unchecked" \notin x.lq
                       \/ ~x.lopen /\ "unchecked" \notin x.rq

\* Contexts exist while the session runs.
Fresh(p, x) == p.stage # "running" => x = NoCx

Good(p, x) == Ruled(p) /\ Located(p) /\ Admitted(p) /\ Natted(p) /\ Sealed(p, x) /\ Fresh(p, x)

Inv == Typed /\ \A c \in Conns : Good(px[c], cx[c])

-----------------------------------------------------------------------------
(* Operators                                                               *)

\* A non-empty set of naturals has a first element, and the operators choose it.
LEMMA FirstChosen ==
    ASSUME NEW S \in SUBSET Nat, S # {}
    PROVE  (CHOOSE i \in S : \A j \in S : i <= j) \in S
<1>1. PICK x \in S : \A y \in S : ~(<<y, x>> \in OpToRel(<, Nat))
  BY NatLessThanWellFounded, WFMin
<1>2. ASSUME NEW y \in S
      PROVE  x <= y
  <2>1. ~(<<y, x>> \in {ss \in Nat \X Nat : ss[1] < ss[2]})
    BY <1>1 DEF OpToRel
  <2> QED
    BY <2>1
<1>3. \E i \in S : \A j \in S : i <= j
  BY <1>2
<1> QED
  BY <1>3

\* policy_match gives -1 or an index into the list.
LEMMA MatchRange ==
    ASSUME NEW l \in Seq(Rules), NEW f
    PROVE  policy_match(l, f) = NoPolicy \/ policy_match(l, f) \in 0..(Len(l) - 1)
<1>1. Hits(l, f) \in SUBSET Nat /\ \A i \in Hits(l, f) : i \in 1..Len(l)
  BY DEF Hits
<1>2. CASE Hits(l, f) = {}
  BY <1>2 DEF policy_match
<1>3. CASE Hits(l, f) # {}
  <2> DEFINE first == CHOOSE i \in Hits(l, f) : \A j \in Hits(l, f) : i <= j
  <2>1. first \in Hits(l, f)
    BY <1>1, <1>3, FirstChosen
  <2>2. first \in 1..Len(l)
    BY <1>1, <2>1
  <2>3. policy_match(l, f) = first - 1
    BY <1>3 DEF policy_match
  <2> QED
    BY <2>2, <2>3
<1> QED
  BY <1>2, <1>3

\* The list is a short sequence of rules.
LEMMA ListType ==
    ASSUME Typed
    PROVE  list \in Seq(Rules) /\ Len(list) \in Nat /\ Len(list) < POLICY_IMPLICIT_PASS
  BY ProxyMakerAssumption DEF Typed

\* What find_auth_subprofile finds is a sub-profile.
LEMMA SubprofileType ==
    ASSUME NEW auth \in Seq(AuthProfiles), NEW g, find_auth_subprofile(auth, g) # <<>>
    PROVE  find_auth_subprofile(auth, g)[1] \in SubProfiles
<1> DEFINE sub == IF auth = <<>> THEN <<>> ELSE auth[1].sub
           hits == {i \in 1..Len(sub) : sub[i].name \in g}
           first == CHOOSE i \in hits : \A j \in hits : i <= j
<1>1. sub \in Seq(SubProfiles)
  <2>1. CASE auth = <<>>
    BY <2>1
  <2>2. CASE auth # <<>>
    <3>1. auth[1] \in AuthProfiles
      BY <2>2
    <3>2. auth[1].sub \in Seq(SubProfiles)
      BY <3>1 DEF AuthProfiles
    <3> QED
      BY <2>2, <3>2
  <2> QED
    BY <2>1, <2>2
<1>2. find_auth_subprofile(auth, g) = IF hits = {} THEN <<>> ELSE <<sub[first]>>
  BY DEF find_auth_subprofile
<1>3. hits \in SUBSET Nat /\ hits # {}
  BY <1>1, <1>2
<1>4. first \in hits
  BY <1>3, FirstChosen
<1>5. first \in 1..Len(sub)
  BY <1>4
<1> HIDE DEF sub, hits, first
<1>6. sub[first] \in SubProfiles
  BY <1>1, <1>5
<1> QED
  BY <1>2, <1>3, <1>6

\* What an index denotes is a rule or nothing.
LEMMA RuleAtType ==
    ASSUME NEW l \in Seq(Rules), NEW i \in Int
    PROVE  /\ RuleAt(l, i) \in Seq(Rules)
           /\ i \in 0..(Len(l) - 1) =>
                 l[i + 1] \in Rules /\ RuleAt(l, i) # <<>> /\ RuleAt(l, i)[1] = l[i + 1]
<1>1. CASE i \in 0..(Len(l) - 1)
  <2>1. l[i + 1] \in Rules
    BY <1>1
  <2>2. RuleAt(l, i) = <<l[i + 1]>>
    BY <1>1 DEF RuleAt
  <2> QED
    BY <2>1, <2>2
<1>2. CASE i \notin 0..(Len(l) - 1)
  BY <1>2 DEF RuleAt
<1> QED
  BY <1>1, <1>2

\* resolve_identity changes whether the identity is known, the TLS profile and
\* the content rules.
LEMMA Resolved ==
    ASSUME Typed, NEW p \in Session, p.policy >= 0, NEW h, ~LookupThrows(p, h)
    PROVE  \E t \in TlsProfile, o \in BOOLEAN :
              resolve_identity(p, h)
                = [p EXCEPT !.resolved = find_id_groups(h) # NoId, !.tls = t, !.content = o]
<1> DEFINE groups == find_id_groups(h)
           b == groups # NoId
           q == [p EXCEPT !.resolved = b]
<1>0. b \in BOOLEAN
  OBVIOUS
<1> HIDE DEF b
<1>1. q.policy = p.policy /\ q.policy \in Nat /\ q.tls = p.tls /\ q.content = p.content
      /\ p.tls \in TlsProfile /\ p.content \in BOOLEAN
  BY <1>0 DEF Session
<1>2. CASE ~b \/ p.resolved
  <2>1. resolve_identity(p, h) = q
    BY <1>2 DEF resolve_identity, b
  <2>2. q = [p EXCEPT !.resolved = b, !.tls = p.tls, !.content = p.content]
    BY <1>0 DEF Session
  <2> QED
    BY <1>1, <2>1, <2>2 DEF b
<1>3. CASE b /\ ~p.resolved
  <2> DEFINE auth == list[q.policy + 1].auth
             sub == find_auth_subprofile(auth, groups)
             t == IF sub[1].tls = <<>> THEN q.tls ELSE sub[1].tls[1]
             o == q.content \/ sub[1].content
  <2>1. resolve_identity(p, h) = IF sub = <<>> THEN q ELSE [q EXCEPT !.tls = t, !.content = o]
    <3>1. resolve_identity(p, h) = apply_id_policies(q, groups)
      BY <1>3 DEF resolve_identity, b
    <3> HIDE DEF q
    <3>2. apply_id_policies(q, groups) = IF sub = <<>> THEN q ELSE [q EXCEPT !.tls = t, !.content = o]
      BY DEF apply_id_policies
    <3> QED
      BY <3>1, <3>2
  <2>2. q.policy < Len(list) /\ list \in Seq(Rules)
    BY <1>1, <1>3, ListType DEF LookupThrows, b, Session
  <2>3. list[q.policy + 1] \in Rules
    BY <1>1, <2>2
  <2>4. auth \in Seq(AuthProfiles)
    BY <2>3 DEF Rules
  <2> HIDE DEF q, auth
  <2>5. CASE sub = <<>>
    <3>1. q = [p EXCEPT !.resolved = b, !.tls = p.tls, !.content = p.content]
      BY <1>0 DEF Session, q
    <3> QED
      BY <1>1, <2>1, <2>5, <3>1 DEF b
  <2>6. CASE sub # <<>>
    <3>1. sub[1] \in SubProfiles
      BY <2>4, <2>6, SubprofileType
    <3>2. sub[1].tls \in Seq(TlsProfile) /\ sub[1].content \in BOOLEAN
      BY <3>1 DEF SubProfiles
    <3>3. sub[1].tls # <<>> => sub[1].tls[1] \in TlsProfile
      BY <3>2
    <3>4. t \in TlsProfile /\ o \in BOOLEAN
      BY <1>1, <3>2, <3>3
    <3> HIDE DEF t, o
    <3>5. [q EXCEPT !.tls = t, !.content = o] = [p EXCEPT !.resolved = b, !.tls = t, !.content = o]
      BY DEF q
    <3> QED
      BY <2>1, <2>6, <3>4, <3>5 DEF b
  <2> QED
    BY <2>5, <2>6
<1> QED
  BY <1>2, <1>3

-----------------------------------------------------------------------------
(* Steps                                                                   *)

Balancers == [rr : 0..(RrMod - 1), cand : Servers \cup {<<>>}]

\* A step of one session, under an unchanged policy.
LEMMA Put ==
    ASSUME Inv, NEW c \in Conns, NEW p \in Session, NEW x \in Context, Good(p, x),
           px' = [px EXCEPT ![c] = p], cx' = [cx EXCEPT ![c] = x],
           wl' \in [Keys -> 0..WlTimeout], lb' \in Balancers, UNCHANGED <<list, ident>>
    PROVE  Inv'
<1>1. Typed'
  BY DEF Inv, Typed, Balancers
<1>2. ASSUME NEW d \in Conns
      PROVE  Good(px[d], cx[d])'
  <2>1. CASE d = c
    <3>1. px'[d] = p /\ cx'[d] = x
      BY <2>1 DEF Inv, Typed
    <3>2. Located(p)' <=> Located(p)
      BY DEF Located
    <3> QED
      BY <3>1, <3>2 DEF Good, Ruled, Admitted, Natted, Sealed, Fresh, Located
  <2>2. CASE d # c
    <3>1. px'[d] = px[d] /\ cx'[d] = cx[d] /\ list' = list
      BY <2>2 DEF Inv, Typed
    <3>2. Good(px[d], cx[d])
      BY DEF Inv
    <3> QED
      BY <3>1, <3>2 DEF Good, Ruled, Admitted, Natted, Sealed, Fresh, Located
  <2> QED
    BY <2>1, <2>2
<1> QED
  BY <1>1, <1>2 DEF Inv

\* The same before the session runs: its contexts are not touched.
LEMMA Admit ==
    ASSUME Inv, NEW c \in Conns, NEW p \in Session, Good(p, cx[c]),
           px' = [px EXCEPT ![c] = p], lb' \in Balancers, UNCHANGED <<cx, wl, list, ident>>
    PROVE  Inv'
<1>1. cx[c] \in Context /\ wl' \in [Keys -> 0..WlTimeout]
  BY DEF Inv, Typed
<1>2. cx' = [cx EXCEPT ![c] = cx[c]]
  BY DEF Inv, Typed
<1> QED
  BY <1>1, <1>2, Put

\* The same while the session runs: its MitmProxy is not touched.
LEMMA Run ==
    ASSUME Inv, NEW c \in Conns, NEW x \in Context, Good(px[c], x),
           cx' = [cx EXCEPT ![c] = x], UNCHANGED <<px, wl, lb, list, ident>>
    PROVE  Inv'
<1>1. px[c] \in Session /\ wl' \in [Keys -> 0..WlTimeout] /\ lb' \in Balancers
  BY DEF Inv, Typed, Balancers
<1>2. px' = [px EXCEPT ![c] = px[c]]
  BY DEF Inv, Typed
<1> QED
  BY <1>1, <1>2, Put

\* A slot without session satisfies the invariant.
LEMMA NoSession ==
    /\ NoProxy \in Session
    /\ NoCx \in Context
    /\ Good(NoProxy, NoCx)
<1>1. AnyKind \in Kinds /\ AnyKind.target \in Targets
  BY ProxyMakerAssumption DEF AnyKind, Targets
<1>2. NoProxy \in Session
  BY <1>1 DEF NoProxy, Session, Stages, NoPolicy, TlsProfile, NoTls, POLICY_IMPLICIT_PASS
<1>3. NoCx \in Context
  BY MitmAssumption DEF NoCx, Context, NotHeld
<1>4. Good(NoProxy, NoCx)
  BY DEF Good, Ruled, Located, Admitted, Natted, Sealed, Fresh, NoProxy, NoCx, Admitting
<1> QED
  BY <1>2, <1>3, <1>4

\* A removed session leaves an empty slot.
LEMMA Drop ==
    ASSUME Inv, NEW c \in Conns, px[c].stage # "running",
           px' = [px EXCEPT ![c] = NoProxy], UNCHANGED <<cx, wl, list, ident, lb>>
    PROVE  Inv'
<1>1. cx[c] = NoCx /\ lb' \in Balancers
  BY DEF Inv, Good, Fresh, Typed, Balancers
<1> QED
  BY <1>1, NoSession, Admit

\* The invariant holds initially.
LEMMA InvInit == Init => Inv
<1> SUFFICES ASSUME Init PROVE Inv
  OBVIOUS
<1>1. lb \in Balancers
  BY ProxyMakerAssumption DEF Init, PmInit, Balancers
<1>2. wl \in [Keys -> 0..WlTimeout]
  BY MitmAssumption DEF Init
<1>3. Typed
  BY <1>1, <1>2, NoSession DEF Init, PmInit, Typed, Balancers
<1> QED
  BY <1>3, NoSession DEF Init, PmInit, Inv

\* A reload enters what the index denotes in the new list.
LEMMA ReloadStep ==
    ASSUME Inv, Reload, UNCHANGED <<cx, wl>>
    PROVE  Inv'
<1>0. list' \in Seq(Rules)
  BY ProxyMakerAssumption DEF Reload
<1>1. ASSUME NEW c \in Conns
      PROVE  px'[c] \in Session /\ Good(px[c], cx[c])'
  <2> DEFINE r == RuleAt(list', px[c].policy)
             h == px[c].denoted \cup {r}
             q == [px[c] EXCEPT !.denoted = h]
  <2>1. px[c] \in Session /\ Good(px[c], cx[c])
    BY DEF Inv, Typed
  <2>2. px'[c] = IF px[c].denoted # {} /\ px[c].stage # "ready" THEN q ELSE px[c]
    BY DEF Reload
  <2>3. cx'[c] = cx[c]
    OBVIOUS
  <2>4. px[c].policy \in Int /\ px[c].denoted \in SUBSET Seq(Rules) /\ px[c].stage \in Stages
    BY <2>1 DEF Session
  <2>5. r \in Seq(Rules)
    BY <1>0, <2>4, RuleAtType
  <2>6. CASE px[c].denoted # {} /\ px[c].stage # "ready"
    <3>1. h \in SUBSET Seq(Rules) /\ r \in h
      BY <2>4, <2>5
    <3>2. px'[c] = q
      BY <2>2, <2>6
    <3>3. px[c].stage \in Admitting
      BY <2>1, <2>4, <2>6 DEF Good, Ruled, Admitting, Stages
    <3> HIDE DEF h, r
    <3>4. q \in Session
      BY <2>1, <3>1 DEF Session
    <3>5. /\ q.stage = px[c].stage /\ q.kind = px[c].kind /\ q.policy = px[c].policy
          /\ q.authenticate = px[c].authenticate /\ q.resolve = px[c].resolve
          /\ q.rule = px[c].rule /\ q.denoted = h /\ q.groups = px[c].groups
      BY <2>1 DEF Session
    <3>6. px[c].denoted \subseteq h
      BY DEF h
    <3> HIDE DEF q
    <3>7. Ruled(q)
      BY <2>1, <3>3, <3>5 DEF Good, Ruled, Admitting
    <3>8. Admitted(q)
      BY <2>1, <2>6, <3>5, <3>6 DEF Good, Admitted, Demands
    <3>9. Natted(q) /\ Sealed(q, cx[c]) /\ Fresh(q, cx[c])
      BY <2>1, <2>6, <3>5 DEF Good, Natted, Sealed, Fresh
    <3>10. Ruled(px[c])' /\ Admitted(px[c])' /\ Natted(px[c])' /\ Sealed(px[c], cx[c])' /\ Fresh(px[c], cx[c])'
      BY <2>3, <3>2, <3>7, <3>8, <3>9 DEF Ruled, Admitted, Natted, Sealed, Fresh
    <3>11. Located(px[c])'
      BY <3>1, <3>2, <3>5 DEF Located, r
    <3> QED
      BY <3>2, <3>4, <3>10, <3>11 DEF Good
  <2>7. CASE ~(px[c].denoted # {} /\ px[c].stage # "ready")
    <3>1. px'[c] = px[c]
      BY <2>2, <2>7
    <3>2. Located(px[c])'
      BY <2>1, <2>7, <3>1 DEF Good, Located, Admitting
    <3>3. Ruled(px[c])' /\ Admitted(px[c])' /\ Natted(px[c])' /\ Sealed(px[c], cx[c])' /\ Fresh(px[c], cx[c])'
      BY <2>1, <2>3, <3>1 DEF Good, Ruled, Admitted, Natted, Sealed, Fresh
    <3> QED
      BY <2>1, <3>1, <3>2, <3>3 DEF Good
  <2> QED
    BY <2>6, <2>7
<1>2. px' \in [Conns -> Session]
  BY <1>1 DEF Reload
<1>3. Typed'
  BY <1>2 DEF Inv, Typed, Reload
<1> QED
  BY <1>1, <1>3 DEF Inv

\* Logins and logouts touch no session.
LEMMA IdentStep ==
    ASSUME Inv, NEW h \in Hosts, UNCHANGED <<cx, wl>>,
           Logout(h) \/ \E g \in SUBSET Groups : Login(h, g)
    PROVE  Inv'
<1>1. Typed'
  BY DEF Inv, Typed, Logout, Login
<1>2. UNCHANGED <<list, px, cx>>
  BY DEF Logout, Login
<1> QED
  BY <1>1, <1>2 DEF Inv, Good, Ruled, Located, Admitted, Natted, Sealed, Fresh

\* The index of the implicit rule is a number.
LEMMA ImplicitPass == POLICY_IMPLICIT_PASS \in Nat \ {0}
  BY DEF POLICY_IMPLICIT_PASS

\* A balancing state stays one.
LEMMA SameLb ==
    ASSUME Inv, UNCHANGED lb
    PROVE  lb' \in Balancers
  BY DEF Inv, Typed, Balancers

\* A new session has no rule yet.
LEMMA MakeStep ==
    ASSUME Inv, NEW c \in Conns, NEW k \in Kinds, Make(c, k), UNCHANGED <<cx, wl>>
    PROVE  Inv'
<1> DEFINE q == [NoProxy EXCEPT !.stage = "made", !.kind = k, !.target = k.target]
<1>1. k.target \in Targets
  BY DEF Targets
<1>2. q \in Session
  BY <1>1, NoSession DEF Session, Stages
<1>3. /\ q.stage = "made" /\ q.policy = NoPolicy /\ ~q.authenticate /\ ~q.resolve
      /\ q.rule = <<>> /\ q.denoted = {}
  BY DEF NoProxy
<1>4. cx[c] = NoCx
  BY DEF Inv, Good, Fresh, Make
<1>5. px' = [px EXCEPT ![c] = q] /\ UNCHANGED <<list, ident, lb>>
  BY DEF Make
<1> HIDE DEF q
<1>6. Good(q, cx[c])
  BY <1>3, <1>4 DEF Good, Ruled, Located, Admitted, Natted, Sealed, Fresh, Admitting, NoCx
<1> QED
  BY <1>2, <1>5, <1>6, SameLb, Admit

\* A session with the profiles of a rule.
Profiled(p, a, e, t, k, o) ==
    [p EXCEPT !.authenticate = a, !.resolve = e, !.tls = t, !.sink = k, !.content = o]

\* It is a session, at the same place.
LEMMA ProfiledType ==
    ASSUME NEW p \in Session, NEW a \in BOOLEAN, NEW e \in BOOLEAN, NEW t \in TlsProfile,
           NEW k \in SUBSET {"L", "R"}, NEW o \in BOOLEAN
    PROVE  LET u == Profiled(p, a, e, t, k, o)
           IN  u \in Session /\ u.kind = p.kind /\ u.authenticate = a
<1>1. Profiled(p, a, e, t, k, o) \in Session
  BY DEF Session, Profiled
<1> QED
  BY <1>1 DEF Session, Profiled

\* The profiles of a rule: what policy_apply changes.
LEMMA Applied ==
    ASSUME NEW p \in Session, NEW r \in Rules
    PROVE  \E a \in BOOLEAN, e \in BOOLEAN, t \in TlsProfile, k \in SUBSET {"L", "R"}, o \in BOOLEAN :
              /\ policy_apply(p, r) = Profiled(p, a, e, t, k, o)
              /\ r.pass /\ r.auth # <<>> => a = r.auth[1].authenticate
<1>1. CASE ~r.pass
  <2>1. policy_apply(p, r) = Profiled(p, p.authenticate, p.resolve, p.tls, p.sink, p.content)
    BY <1>1 DEF policy_apply, Session, Profiled
  <2>2. /\ p.authenticate \in BOOLEAN /\ p.resolve \in BOOLEAN /\ p.tls \in TlsProfile
        /\ p.sink \in SUBSET {"L", "R"} /\ p.content \in BOOLEAN
    BY DEF Session
  <2> QED
    BY <1>1, <2>1, <2>2
<1>2. CASE r.pass /\ r.auth = <<>>
  <2>1. policy_apply(p, r) = Profiled(p, p.authenticate, p.resolve, r.tls, p.sink, r.content)
    BY <1>2 DEF policy_apply, prof_tls_apply, prof_content_apply, Session, Profiled
  <2>2. /\ p.authenticate \in BOOLEAN /\ p.resolve \in BOOLEAN /\ r.tls \in TlsProfile
        /\ p.sink \in SUBSET {"L", "R"} /\ r.content \in BOOLEAN
    BY DEF Session, Rules
  <2> QED
    BY <1>2, <2>1, <2>2
<1>3. CASE r.pass /\ r.auth # <<>>
  <2>1. policy_apply(p, r)
          = Profiled(p, r.auth[1].authenticate, r.auth[1].resolve, r.tls, r.sink, r.content)
    BY <1>3 DEF policy_apply, prof_tls_apply, prof_content_apply, policy_apply_features, Profiled
  <2>2. r.auth \in Seq(AuthProfiles) /\ r.tls \in TlsProfile /\ r.content \in BOOLEAN
        /\ r.sink \in SUBSET {"L", "R"}
    BY DEF Rules
  <2>3. r.auth[1] \in AuthProfiles
    BY <1>3, <2>2
  <2>4. r.auth[1].authenticate \in BOOLEAN /\ r.auth[1].resolve \in BOOLEAN
    BY <2>3 DEF AuthProfiles
  <2> QED
    BY <2>1, <2>2, <2>4
<1>4. r.pass \in BOOLEAN
  BY DEF Rules
<1> QED
  BY <1>1, <1>2, <1>3

\* A match puts the session at the rule it matched.
LEMMA PolicyStep ==
    ASSUME Inv, NEW c \in Conns, Policy(c), UNCHANGED <<cx, wl>>
    PROVE  Inv'
<1> DEFINE p == px[c]
           i == policy_match(list, p.kind.flow)
<1>1. p \in Session /\ Good(p, cx[c]) /\ p.stage = "made" /\ cx[c] = NoCx
  BY DEF Inv, Typed, Policy, Good, Fresh
<1>2. UNCHANGED <<list, ident, lb>> /\ lb' \in Balancers
  BY SameLb DEF Policy
<1>3. CASE p.kind.magic
  <2> DEFINE q == [p EXCEPT !.stage = "routed", !.policy = POLICY_IMPLICIT_PASS, !.bypass = TRUE]
  <2>0. POLICY_IMPLICIT_PASS \in -1..POLICY_IMPLICIT_PASS
    BY ImplicitPass
  <2> HIDE DEF p
  <2>1. q \in Session
    BY <1>1, <2>0 DEF Session, Stages
  <2> USE DEF p
  <2>2. /\ q.stage = "routed" /\ q.policy >= 0 /\ q.kind = p.kind /\ q.kind.magic
        /\ q.rule = p.rule /\ q.denoted = p.denoted
    BY <1>1, <1>3, ImplicitPass DEF Session
  <2>3. px' = [px EXCEPT ![c] = q]
    BY <1>3 DEF Policy
  <2> HIDE DEF q
  <2>4. Good(q, cx[c])
    BY <1>1, <2>2 DEF Good, Ruled, Located, Admitted, Natted, Sealed, Fresh, Admitting, NoCx
  <2> QED
    BY <1>2, <2>1, <2>3, <2>4, Admit
<1>4. CASE ~p.kind.magic /\ i = NoPolicy
  <2> DEFINE q == [p EXCEPT !.stage = "routed"]
  <2>1. q \in Session
    BY <1>1 DEF Session, Stages
  <2>2. /\ q.stage = "routed" /\ q.policy = p.policy /\ q.kind = p.kind
        /\ q.rule = p.rule /\ q.denoted = p.denoted
        /\ q.authenticate = p.authenticate /\ q.resolve = p.resolve
    BY <1>1 DEF Session
  <2>3. px' = [px EXCEPT ![c] = q]
    BY <1>4 DEF Policy
  <2> HIDE DEF q
  <2>4. Good(q, cx[c])
    BY <1>1, <2>2 DEF Good, Ruled, Located, Admitted, Natted, Sealed, Fresh, Admitting, NoCx
  <2> QED
    BY <1>2, <2>1, <2>3, <2>4, Admit
<1>5. CASE ~p.kind.magic /\ i # NoPolicy
  <2> DEFINE r == list[i + 1]
             u == policy_apply(p, r)
             q == [u EXCEPT !.stage = "matched", !.policy = i, !.rule = <<r>>, !.denoted = {<<r>>}]
  <2>1. i \in 0..(Len(list) - 1) /\ list \in Seq(Rules) /\ Len(list) < POLICY_IMPLICIT_PASS
        /\ Len(list) \in Nat
    BY <1>5, MatchRange, ListType DEF Inv
  <2>3. px' = [px EXCEPT ![c] = q]
    BY <1>5 DEF Policy
  <2> HIDE DEF i
  <2>2. r \in Rules /\ i \in -1..POLICY_IMPLICIT_PASS
    BY <2>1, ImplicitPass
  <2> HIDE DEF r
  <2>4. PICK a \in BOOLEAN, e \in BOOLEAN, t \in TlsProfile, k \in SUBSET {"L", "R"}, o \in BOOLEAN :
              /\ policy_apply(p, r) = Profiled(p, a, e, t, k, o)
              /\ r.pass /\ r.auth # <<>> => a = r.auth[1].authenticate
    BY <1>1, <2>2, Applied
  <2>5. u \in Session /\ u.kind = p.kind /\ u.authenticate = a
    BY <1>1, <2>4, ProfiledType
  <2> HIDE DEF u
  <2>6. <<r>> \in Seq(Rules) /\ <<r>> # <<>> /\ <<r>>[1] = r
    BY <2>2
  <2>7. q \in Session
    BY <2>2, <2>5, <2>6 DEF Session, Stages
  <2>8. /\ q.stage = "matched" /\ q.policy = i /\ q.kind = p.kind
        /\ q.rule = <<r>> /\ q.denoted = {<<r>>} /\ q.authenticate = a
    BY <2>5 DEF Session
  <2> HIDE DEF q
  <2>9. Ruled(q)
    BY <2>1, <2>4, <2>6, <2>8 DEF Ruled
  <2>10. Located(q)
    BY <2>1, <2>6, <2>8 DEF Located, r, RuleAt
  <2>11. Good(q, cx[c])
    BY <1>1, <2>8, <2>9, <2>10 DEF Good, Admitted, Natted, Sealed, Fresh, NoCx
  <2> QED
    BY <1>2, <2>3, <2>7, <2>11, Admit
<1> QED
  BY <1>3, <1>4, <1>5

\* The second lookup can only mark the session for routing.
LEMMA RouteStep ==
    ASSUME Inv, NEW c \in Conns, Route(c), UNCHANGED <<cx, wl>>
    PROVE  Inv'
<1> DEFINE p == px[c]
           routed == p.policy < Len(list) /\ list[p.policy + 1].route # "no"
           g == IF routed THEN "routing" ELSE "routed"
           m == IF routed THEN list[p.policy + 1].route ELSE "no"
           q == [p EXCEPT !.stage = g, !.route = m]
<1>1. p \in Session /\ Good(p, cx[c]) /\ p.stage = "matched" /\ cx[c] = NoCx
  BY DEF Inv, Typed, Route, Good, Fresh
<1>2. UNCHANGED <<list, ident>> /\ px' = [px EXCEPT ![c] = q]
  BY DEF Route
<1>3. lb' \in Balancers
  <2>1. lb \in Balancers /\ (lb.rr + 1) % RrMod \in 0..(RrMod - 1)
    BY ProxyMakerAssumption DEF Inv, Typed, Balancers
  <2>2. CASE UNCHANGED lb
    BY <2>1, <2>2
  <2>3. CASE \E s \in Servers \cup {lb.cand} : lb' = [rr |-> (lb.rr + 1) % RrMod, cand |-> s]
    BY <2>1, <2>3 DEF Balancers
  <2> QED
    BY <2>2, <2>3 DEF Route
<1>4. p.policy \in Int /\ p.policy >= -1 /\ list \in Seq(Rules)
  BY <1>1, ListType DEF Session, Inv
<1>5. m \in {"no", "rr", "l3", "l4"}
  <2>1. CASE routed /\ p.policy >= 0
    <3>1. list[p.policy + 1] \in Rules
      BY <1>4, <2>1
    <3> QED
      BY <2>1, <3>1 DEF Rules
  <2>2. CASE ~routed
    BY <2>2
  <2>3. p.policy # -1
    BY <1>1 DEF Good, Ruled
  <2> QED
    BY <1>4, <2>1, <2>2, <2>3
<1>6. g \in {"routing", "routed"}
  OBVIOUS
<1> HIDE DEF g, m, routed
<1>7. q \in Session
  BY <1>1, <1>5, <1>6 DEF Session, Stages
<1>8. /\ q.stage = g /\ q.kind = p.kind /\ q.policy = p.policy /\ q.rule = p.rule
      /\ q.authenticate = p.authenticate /\ q.resolve = p.resolve /\ q.denoted = p.denoted
  BY <1>1 DEF Session
<1> HIDE DEF q
<1>9. Good(q, cx[c])
  BY <1>1, <1>6, <1>8 DEF Good, Ruled, Located, Admitted, Natted, Sealed, Fresh, Admitting, NoCx
<1> QED
  BY <1>2, <1>3, <1>7, <1>9, Admit

\* get_dnat_target picks an address of the candidates.
LEMMA DnatStep ==
    ASSUME Inv, NEW c \in Conns, Dnat(c), UNCHANGED <<cx, wl>>
    PROVE  Inv'
<1> DEFINE p == px[c]
<1>1. p \in Session /\ Good(p, cx[c]) /\ p.stage = "routing" /\ cx[c] = NoCx
  BY DEF Inv, Typed, Dnat, Good, Fresh
<1>2. UNCHANGED <<list, ident, lb>> /\ lb' \in Balancers
  BY SameLb DEF Dnat
<1>3. \E t \in Targets : px' = [px EXCEPT ![c] = [p EXCEPT !.stage = "routed", !.target = t]]
  <2>1. CASE lb.cand = <<>>
    <3>1. [p EXCEPT !.stage = "routed"] = [p EXCEPT !.stage = "routed", !.target = p.target]
          /\ p.target \in Targets
      BY <1>1 DEF Session
    <3>2. px' = [px EXCEPT ![c] = [p EXCEPT !.stage = "routed"]]
      BY <2>1 DEF Dnat
    <3> QED
      BY <3>1, <3>2
  <2>2. CASE lb.cand # <<>>
    <3>1. lb.cand \in Servers /\ lb.rr \in Nat
      BY <2>2, ProxyMakerAssumption DEF Inv, Typed
    <3>2. Len(lb.cand) \in Nat \ {0} /\ lb.cand \in Seq(Targets)
      BY <2>2, <3>1, ProxyMakerAssumption
    <3>3. PICK i \in lb_index(p.route, Len(lb.cand)) :
            px' = [px EXCEPT ![c] = [p EXCEPT !.stage = "routed", !.target = lb.cand[i + 1]]]
      BY <2>2 DEF Dnat
    <3>4. i + 1 \in 1..Len(lb.cand)
      BY <3>1, <3>2, <3>3 DEF lb_index
    <3>5. lb.cand[i + 1] \in Targets
      BY <3>2, <3>4
    <3> QED
      BY <3>3, <3>5
  <2> QED
    BY <2>1, <2>2
<1>4. PICK t \in Targets : px' = [px EXCEPT ![c] = [p EXCEPT !.stage = "routed", !.target = t]]
  BY <1>3
<1> DEFINE q == [p EXCEPT !.stage = "routed", !.target = t]
<1>5. q \in Session
  BY <1>1 DEF Session, Stages
<1>6. /\ q.stage = "routed" /\ q.kind = p.kind /\ q.policy = p.policy /\ q.rule = p.rule
      /\ q.authenticate = p.authenticate /\ q.resolve = p.resolve /\ q.denoted = p.denoted
  BY <1>1 DEF Session
<1> HIDE DEF q
<1>7. Good(q, cx[c])
  BY <1>1, <1>6 DEF Good, Ruled, Located, Admitted, Natted, Sealed, Fresh, Admitting, NoCx
<1>8. px' = [px EXCEPT ![c] = q]
  BY <1>4 DEF q
<1> QED
  BY <1>2, <1>5, <1>7, <1>8, Admit

\* A session at the same place of its admission.
Placed(p, q) ==
    /\ q.kind = p.kind /\ q.policy = p.policy /\ q.rule = p.rule /\ q.denoted = p.denoted
    /\ q.authenticate = p.authenticate /\ q.resolve = p.resolve

\* A session goes on inside authorize(), or out of it.
LEMMA Onward ==
    ASSUME Inv, NEW c \in Conns, NEW q \in Session, px[c].stage \in Admitting, Placed(px[c], q),
           q.stage \in Admitting \ {"matched"}, q.stage = "grouped" => q.groups # NoId,
           q.stage = "authorized" /\ Demands(q) => \E d \in q.denoted : Lets(d, q.groups),
           px' = [px EXCEPT ![c] = q], UNCHANGED <<cx, wl, list, ident, lb>>
    PROVE  Inv'
<1>1. Good(px[c], cx[c]) /\ cx[c] = NoCx /\ lb' \in Balancers
  BY SameLb DEF Inv, Good, Fresh, Admitting
<1>2. Ruled(q)
  BY <1>1 DEF Good, Ruled, Placed, Admitting
<1>3. Located(q)
  BY <1>1 DEF Good, Located, Placed
<1>4. Admitted(q) /\ Natted(q)
  BY DEF Admitted, Natted, Admitting
<1>5. Sealed(q, cx[c]) /\ Fresh(q, cx[c])
  BY <1>1 DEF Sealed, Fresh, NoCx
<1> QED
  BY <1>1, <1>2, <1>3, <1>4, <1>5, Admit DEF Good

\* Whoever is let pass is so by something the index denoted.
Judged(q, ok) == ok /\ Demands(q) => \E d \in q.denoted : Lets(d, q.groups)

\* What on_left_new makes of the answer of authorize().
LEMMA Answered ==
    ASSUME Inv, NEW c \in Conns, NEW q \in Session, NEW ok \in BOOLEAN, px[c].stage \in Admitting,
           Placed(px[c], q), Judged(q, ok),
           Authorized(c, q, ok), UNCHANGED <<cx, wl, list, ident, lb>>
    PROVE  Inv'
<1> DEFINE z == [q EXCEPT !.stage = "authorized"]
<1>1. CASE px' = [px EXCEPT ![c] = NoProxy]
  BY <1>1, Drop DEF Admitting
<1>2. CASE (ok \/ is_replaceable(q.kind.port)) /\ px' = [px EXCEPT ![c] = z]
  <2>1. z \in Session
    BY DEF Session, Stages
  <2>2. z.stage = "authorized" /\ z.kind = q.kind /\ z.groups = q.groups /\ Placed(q, z)
    BY DEF Session, Placed
  <2> HIDE DEF z
  <2>3. Placed(px[c], z)
    BY <2>2 DEF Placed
  <2>4. Demands(z) => \E d \in z.denoted : Lets(d, z.groups)
    BY <1>2, <2>2 DEF Judged, Demands, Placed
  <2> QED
    BY <1>2, <2>1, <2>2, <2>3, <2>4, Onward DEF Admitting
<1> QED
  BY <1>1, <1>2 DEF Authorized

\* What a session is before and after a step of authorize().
LEMMA Judging ==
    ASSUME Inv, NEW c \in Conns, px[c].stage \in Admitting, px[c].rule # <<>>
    PROVE  /\ px[c] \in Session /\ Placed(px[c], px[c])
           /\ RuleAt(list, px[c].policy) \in px[c].denoted
  BY DEF Inv, Typed, Good, Located, Placed

\* resolve_identity leaves the place of the session alone.
LEMMA ResolvedPlaced ==
    ASSUME Typed, NEW p \in Session, p.policy >= 0, NEW h, ~LookupThrows(p, h)
    PROVE  /\ resolve_identity(p, h) \in Session /\ Placed(p, resolve_identity(p, h))
           /\ resolve_identity(p, h).stage = p.stage /\ resolve_identity(p, h).groups = p.groups
<1>1. PICK t \in TlsProfile, o \in BOOLEAN :
        resolve_identity(p, h) = [p EXCEPT !.resolved = find_id_groups(h) # NoId, !.tls = t, !.content = o]
  BY Resolved
<1> DEFINE b == find_id_groups(h) # NoId
           q == [p EXCEPT !.resolved = b, !.tls = t, !.content = o]
<1>2. b \in BOOLEAN /\ resolve_identity(p, h) = q
  BY <1>1
<1> HIDE DEF b
<1>3. q \in Session
  BY <1>2 DEF Session
<1>4. Placed(p, q) /\ q.stage = p.stage /\ q.groups = p.groups
  BY DEF Session, Placed
<1> QED
  BY <1>2, <1>3, <1>4

\* The first step of authorize(): nobody who must authenticate is passed by it.
LEMMA ResolveStep ==
    ASSUME Inv, NEW c \in Conns, Resolve(c), UNCHANGED <<cx, wl>>
    PROVE  Inv'
<1> DEFINE p == px[c]
           asks == p.authenticate \/ p.resolve
           q == IF asks THEN resolve_identity(p, p.kind.client) ELSE p
           z == [q EXCEPT !.stage = "identified"]
<1>1. p \in Session /\ Good(p, cx[c]) /\ p.stage = "routed" /\ Typed
  BY DEF Inv, Typed, Resolve
<1>2. UNCHANGED <<list, ident, lb>> /\ ~(asks /\ LookupThrows(p, p.kind.client))
  BY DEF Resolve
<1>3. asks => p.policy >= 0
  BY <1>1 DEF Good, Ruled
<1>4. q \in Session /\ Placed(p, q) /\ q.stage = "routed"
  <2>1. CASE asks
    <3> HIDE DEF p
    <3> QED
      BY <1>1, <1>2, <1>3, <2>1, ResolvedPlaced
  <2>2. CASE ~asks
    BY <1>1, <2>2 DEF Placed
  <2> QED
    BY <2>1, <2>2
<1>5. IF p.authenticate /\ q.resolved THEN px' = [px EXCEPT ![c] = z]
      ELSE Authorized(c, q, ~p.authenticate)
  BY DEF Resolve
<1> HIDE DEF q
<1>6. CASE p.authenticate /\ q.resolved
  <2>1. z \in Session
    BY <1>4 DEF Session, Stages
  <2>2. Placed(q, z) /\ z.stage = "identified"
    BY <1>4 DEF Session, Placed
  <2>3. px' = [px EXCEPT ![c] = z]
    BY <1>5, <1>6
  <2> HIDE DEF z
  <2>4. Placed(p, z)
    BY <1>4, <2>2 DEF Placed
  <2> QED
    BY <1>1, <1>2, <2>1, <2>2, <2>3, <2>4, Onward DEF Admitting
<1>7. CASE ~(p.authenticate /\ q.resolved)
  <2>1. Authorized(c, q, ~p.authenticate)
    BY <1>5, <1>7
  <2>2. Judged(q, ~p.authenticate) /\ (~p.authenticate) \in BOOLEAN
    BY <1>1, <1>4 DEF Good, Ruled, Demands, Placed, Judged
  <2> QED
    BY <1>1, <1>2, <1>4, <2>1, <2>2, Answered DEF Admitting
<1> QED
  BY <1>6, <1>7

\* The first lookup of authorize_is_bad: without auth profile it lets pass.
LEMMA FindProfileStep ==
    ASSUME Inv, NEW c \in Conns, FindProfile(c), UNCHANGED <<cx, wl>>
    PROVE  Inv'
<1> DEFINE p == px[c]
           z == [p EXCEPT !.stage = "profiled"]
<1>1. p \in Session /\ p.stage = "identified" /\ UNCHANGED <<list, ident, lb>> /\ Placed(p, p)
  BY DEF Inv, Typed, FindProfile, Placed
<1>2. CASE policy_prof_auth(p.policy) = <<>>
  <2>1. Authorized(c, p, TRUE)
    BY <1>2 DEF FindProfile
  <2>2. Lets(RuleAt(list, p.policy), p.groups)
    BY <1>2 DEF policy_prof_auth, Lets
  <2>3. Judged(p, TRUE)
    BY <1>1, <2>2, Judging DEF Judged, Demands, Admitting
  <2> QED
    BY <1>1, <2>1, <2>3, Answered DEF Admitting
<1>3. CASE policy_prof_auth(p.policy) # <<>>
  <2>1. px' = [px EXCEPT ![c] = z]
    BY <1>3 DEF FindProfile
  <2>2. z \in Session
    BY <1>1 DEF Session, Stages
  <2>3. Placed(p, z) /\ z.stage = "profiled"
    BY <1>1 DEF Session, Placed
  <2> HIDE DEF z
  <2> QED
    BY <1>1, <2>1, <2>2, <2>3, Onward DEF Admitting
<1> QED
  BY <1>2, <1>3

\* A host is unknown or has groups.
LEMMA GroupsType ==
    ASSUME Typed, NEW h
    PROVE  find_id_groups(h) \in {NoId} \cup SUBSET Groups
  BY DEF Typed, find_id_groups

\* Its second step: an address without identity is not let pass.
LEMMA FindGroupsStep ==
    ASSUME Inv, NEW c \in Conns, FindGroups(c), UNCHANGED <<cx, wl>>
    PROVE  Inv'
<1> DEFINE p == px[c]
           g == find_id_groups(p.kind.client)
           z == [p EXCEPT !.stage = "grouped", !.groups = g]
           w == [p EXCEPT !.block = TRUE]
<1>1. p \in Session /\ p.stage = "profiled" /\ UNCHANGED <<list, ident, lb>> /\ Typed
  BY DEF Inv, Typed, FindGroups
<1>2. g \in {NoId} \cup SUBSET Groups
  BY <1>1, GroupsType
<1>3. IF g = NoId THEN Authorized(c, w, FALSE) ELSE px' = [px EXCEPT ![c] = z]
  BY DEF FindGroups
<1> HIDE DEF g
<1>4. CASE g = NoId
  <2>1. w \in Session
    BY <1>1 DEF Session
  <2>2. Placed(p, w)
    BY <1>1 DEF Session, Placed
  <2>3. Authorized(c, w, FALSE) /\ Judged(w, FALSE)
    BY <1>3, <1>4 DEF Judged
  <2> HIDE DEF w
  <2> QED
    BY <1>1, <2>1, <2>2, <2>3, Answered DEF Admitting
<1>5. CASE g # NoId
  <2>1. z \in Session
    BY <1>1, <1>2 DEF Session, Stages
  <2>2. Placed(p, z) /\ z.stage = "grouped" /\ z.groups = g
    BY <1>1 DEF Session, Placed
  <2>3. px' = [px EXCEPT ![c] = z]
    BY <1>3, <1>5
  <2> HIDE DEF z
  <2> QED
    BY <1>1, <1>5, <2>1, <2>2, <2>3, Onward DEF Admitting
<1> QED
  BY <1>4, <1>5

\* Its last step: who passes is in a group that what the index denotes names.
LEMMA CheckGroupsStep ==
    ASSUME Inv, NEW c \in Conns, CheckGroups(c), UNCHANGED <<cx, wl>>
    PROVE  Inv'
<1> DEFINE p == px[c]
           bad == authorize_is_bad(p)
           w == [p EXCEPT !.block = bad]
           d == RuleAt(list, p.policy)
<1>1. /\ p \in Session /\ p.stage = "grouped" /\ UNCHANGED <<list, ident, lb>> /\ Good(p, cx[c])
      /\ policy_prof_auth(p.policy) # <<>>
  BY DEF Inv, Typed, CheckGroups
<1>2. Authorized(c, w, ~bad)
  BY DEF CheckGroups
<1>3. bad \in BOOLEAN /\ p.groups # NoId
  BY <1>1 DEF authorize_is_bad, Good, Ruled
<1>4. ~bad => Lets(d, p.groups)
  BY <1>1, <1>3 DEF authorize_is_bad, policy_prof_auth, Lets
<1> HIDE DEF bad, d
<1>5. w \in Session
  BY <1>1, <1>3 DEF Session
<1>6. Placed(p, w) /\ w.groups = p.groups
  BY <1>1 DEF Session, Placed
<1> HIDE DEF w
<1>7. Judged(w, ~bad) /\ (~bad) \in BOOLEAN
  BY <1>1, <1>3, <1>4, <1>6, Judging DEF Judged, Demands, Placed, Admitting, d
<1> QED
  BY <1>1, <1>2, <1>5, <1>6, <1>7, Answered DEF Admitting

\* setup_snat stops a session that has no rule.
LEMMA SnatStep ==
    ASSUME Inv, NEW c \in Conns, Snat(c), UNCHANGED <<cx, wl>>
    PROVE  Inv'
<1> DEFINE p == px[c]
           s == setup_snat(p)
<1>1. p \in Session /\ Good(p, cx[c]) /\ p.stage = "authorized" /\ cx[c] = NoCx
  BY DEF Inv, Typed, Snat, Good, Fresh
<1>2. UNCHANGED <<list, ident, lb>> /\ lb' \in Balancers
  BY SameLb DEF Snat
<1>3. px' = [px EXCEPT ![c] = IF s.ok THEN [p EXCEPT !.stage = "ready", !.nonlocal = s.nonlocal]
                              ELSE NoProxy]
  BY DEF Snat
<1>4. CASE ~s.ok
  BY <1>1, <1>2, <1>3, <1>4, Drop
<1>5. CASE s.ok
  <2>0. list \in Seq(Rules) /\ Len(list) \in Nat /\ Len(list) < POLICY_IMPLICIT_PASS
    BY ListType DEF Inv
  <2>1. p.policy \in Int /\ (p.policy = POLICY_IMPLICIT_PASS \/ p.policy \in 0..(Len(list) - 1))
    BY <1>1, <1>5 DEF setup_snat, Session
  <2>2. s.nonlocal \in BOOLEAN
    <3>1. CASE p.policy = POLICY_IMPLICIT_PASS
      BY <3>1 DEF setup_snat
    <3>2. CASE p.policy # POLICY_IMPLICIT_PASS
      <4>1. list[p.policy + 1] \in Rules
        BY <2>0, <2>1, <3>2
      <4> QED
        BY <2>1, <3>2, <4>1 DEF setup_snat, Rules
    <3> QED
      BY <3>1, <3>2
  <2>3. p.rule # <<>> => \E d \in p.denoted : d # <<>> /\ s.nonlocal = d[1].nonat
    <3>1. SUFFICES ASSUME p.rule # <<>>
                   PROVE  \E d \in p.denoted : d # <<>> /\ s.nonlocal = d[1].nonat
      OBVIOUS
    <3>2. p.policy # POLICY_IMPLICIT_PASS /\ p.policy \in 0..(Len(list) - 1)
      BY <1>1, <2>1, <3>1 DEF Good, Ruled
    <3>3. RuleAt(list, p.policy) \in p.denoted
      BY <1>1, <3>1, Judging DEF Admitting
    <3>4. RuleAt(list, p.policy) # <<>> /\ RuleAt(list, p.policy)[1] = list[p.policy + 1]
      BY <2>0, <2>1, <3>2, RuleAtType
    <3>5. s.nonlocal = list[p.policy + 1].nonat
      BY <3>2 DEF setup_snat
    <3> QED
      BY <3>3, <3>4, <3>5
  <2> HIDE DEF s
  <2> DEFINE q == [p EXCEPT !.stage = "ready", !.nonlocal = s.nonlocal]
  <2>4. q \in Session
    BY <1>1, <2>2 DEF Session, Stages
  <2>5. /\ q.stage = "ready" /\ q.kind = p.kind /\ q.policy = p.policy /\ q.rule = p.rule
        /\ q.authenticate = p.authenticate /\ q.resolve = p.resolve /\ q.denoted = p.denoted
        /\ q.groups = p.groups /\ q.nonlocal = s.nonlocal
    BY <1>1 DEF Session
  <2>6. px' = [px EXCEPT ![c] = q]
    BY <1>3, <1>5
  <2> HIDE DEF q
  <2>7. p.policy # NoPolicy /\ p.policy >= 0
    BY <2>1, ImplicitPass DEF NoPolicy
  <2>8. Ruled(q)
    BY <1>1, <2>5, <2>7 DEF Good, Ruled
  <2>9. Admitted(q) /\ Located(q)
    BY <1>1, <2>5 DEF Good, Admitted, Demands, Located, Admitting
  <2>10. Natted(q)
    BY <2>3, <2>5 DEF Natted
  <2>11. Sealed(q, cx[c]) /\ Fresh(q, cx[c])
    BY <1>1, <2>5 DEF Sealed, Fresh, NoCx
  <2> QED
    BY <1>2, <2>4, <2>6, <2>8, <2>9, <2>10, <2>11, Admit DEF Good
<1> QED
  BY <1>4, <1>5

\* connect() starts with fresh contexts.
LEMMA BeginStep ==
    ASSUME Inv, NEW c \in Conns, Begin(c)
    PROVE  Inv'
<1> DEFINE p == px[c]
           q == [p EXCEPT !.stage = "running", !.denoted = {}, !.groups = NoId, !.route = "no",
                          !.nonlocal = FALSE]
           com == IF p.kind.tls = "tls" THEN "tls" ELSE "plain"
           x == [NoCx EXCEPT !.com = com, !.lopen = TRUE, !.ropen = TRUE]
<1>1. p \in Session /\ Good(p, cx[c]) /\ p.stage = "ready"
  BY DEF Inv, Typed, Begin, Connect
<1>2. UNCHANGED <<list, ident, lb, wl>> /\ lb' \in Balancers /\ wl' \in [Keys -> 0..WlTimeout]
  BY SameLb DEF Begin, Connect, Inv, Typed
<1>3. px' = [px EXCEPT ![c] = q] /\ cx' = [cx EXCEPT ![c] = x]
  BY DEF Begin, Connect
<1>4. com \in {"plain", "tls"}
  OBVIOUS
<1> HIDE DEF com
<1>5. q \in Session
  BY <1>1 DEF Session, Stages
<1>6. x \in Context
  BY <1>4, NoSession DEF Context
<1>7. /\ q.stage = "running" /\ q.kind = p.kind /\ q.policy = p.policy /\ q.rule = p.rule
      /\ q.authenticate = p.authenticate /\ q.resolve = p.resolve /\ q.denoted = {}
  BY <1>1 DEF Session
<1>8. ~x.leak /\ ~x.failed /\ x.lq = {} /\ x.rq = {}
  BY DEF NoCx
<1> HIDE DEF q, x
<1>9. Ruled(q)
  BY <1>1, <1>7 DEF Good, Ruled
<1>10. Located(q) /\ Admitted(q) /\ Natted(q) /\ Fresh(q, x)
  BY <1>7 DEF Located, Admitted, Natted, Fresh, Admitting
<1>11. Sealed(q, x)
  BY <1>8 DEF Sealed
<1> QED
  BY <1>2, <1>3, <1>5, <1>6, <1>9, <1>10, <1>11, Put DEF Good

-----------------------------------------------------------------------------
(* A running session                                                       *)

\* What the checks leave alone in a MitmProxy.
Same(p, q) ==
    /\ q.stage = p.stage /\ q.kind = p.kind /\ q.policy = p.policy /\ q.rule = p.rule
    /\ q.authenticate = p.authenticate /\ q.resolve = p.resolve
    /\ q.denoted = p.denoted /\ q.groups = p.groups

\* What they leave alone in the contexts: at most a page is queued.
Kept(x, y) ==
    /\ y.rq = x.rq /\ y.lopen = x.lopen /\ y.ropen = x.ropen /\ y.leak = x.leak /\ y.over200 = x.over200
    /\ ("unchecked" \in y.lq) <=> ("unchecked" \in x.lq)
    /\ x.dead => y.dead

\* The invariant of a running session is the part about its rule and its queues.
LEMMA RunningGood ==
    ASSUME NEW p \in Session, NEW q \in Session, NEW x, NEW y,
           Good(p, x), p.stage = "running", Same(p, q), Sealed(q, y)
    PROVE  Good(q, y)
<1>1. Ruled(q)
  BY DEF Good, Ruled, Same
<1>2. Located(q) /\ Admitted(q) /\ Natted(q) /\ Fresh(q, y)
  BY DEF Located, Admitted, Natted, Fresh, Admitting, Same
<1> QED
  BY <1>1, <1>2 DEF Good

\* resolve_identity leaves the place of the session alone.
LEMMA ResolvedSame ==
    ASSUME Typed, NEW p \in Session, p.policy >= 0, NEW h, ~LookupThrows(p, h)
    PROVE  resolve_identity(p, h) \in Session /\ Same(p, resolve_identity(p, h))
  BY ResolvedPlaced DEF Placed, Same

\* A page in the client's queue.
LEMMA PageType ==
    ASSUME NEW x \in Context
    PROVE  /\ WritePage(x) \in Context /\ Kept(x, WritePage(x))
           /\ WritePage(x).handled = x.handled /\ WritePage(x).failed = x.failed
           /\ WritePage(x).dead = x.dead
<1> DEFINE l == x.lq \cup {"page"}
           y == [x EXCEPT !.lq = l, !.caw = TRUE]
<1>1. l \in SUBSET {"data", "unchecked", "page"} /\ (("unchecked" \in l) <=> ("unchecked" \in x.lq))
  BY DEF Context
<1>2. WritePage(x) = y
  BY DEF WritePage, Context
<1> HIDE DEF l
<1>3. y \in Context
  BY <1>1 DEF Context
<1>4. y.lq = l /\ y.rq = x.rq /\ y.lopen = x.lopen /\ y.ropen = x.ropen /\ y.leak = x.leak /\ y.over200 = x.over200
      /\ y.dead = x.dead /\ y.handled = x.handled /\ y.failed = x.failed
  BY DEF Context
<1> HIDE DEF y
<1> QED
  BY <1>1, <1>2, <1>3, <1>4 DEF Kept

\* handle_authentication may write a page or end the session.
LEMMA AuthenticationKeeps ==
    ASSUME Typed, NEW p \in Session, NEW x \in Context,
           p.authenticate \/ p.resolve => p.policy >= 0, ~\A cached \in BOOLEAN : AuthCrash(p, x, cached)
    PROVE  LET a == handle_authentication(p, x)
           IN  /\ a.px \in Session /\ Same(p, a.px)
               /\ a.cx \in Context /\ Kept(x, a.cx)
               /\ a.cx.handled = x.handled /\ a.cx.failed = x.failed
               /\ a.cx.dead => x.dead \/ (a.px.authenticate /\ ~a.px.resolved /\ x.over200)
<1>0. Kept(x, x) /\ Same(p, p)
  BY DEF Kept, Same
<1>1. CASE ~(p.authenticate \/ p.resolve)
  <2>1. handle_authentication(p, x) = [px |-> p, cx |-> x]
    BY <1>1 DEF handle_authentication
  <2> QED
    BY <1>0, <2>1
<1>2. CASE p.authenticate \/ p.resolve
  <2> DEFINE q == resolve_client(p)
             dead == [x EXCEPT !.dead = TRUE]
             y == IF AuthPage(p, x) THEN WritePage(x)
                  ELSE IF p.authenticate /\ ~q.resolved /\ x.over200 THEN dead ELSE x
  <2>1. handle_authentication(p, x) = [px |-> q, cx |-> y]
    BY <1>2 DEF handle_authentication
  <2>2. q \in Session /\ Same(p, q)
    BY <1>2, ResolvedSame DEF AuthCrash, resolve_client
  <2>3. dead \in Context
    BY DEF Context
  <2>4. Kept(x, dead) /\ dead.handled = x.handled /\ dead.failed = x.failed
    BY DEF Context, Kept
  <2>5. y \in Context /\ Kept(x, y) /\ y.handled = x.handled /\ y.failed = x.failed
    <3> HIDE DEF dead
    <3> QED
      BY <1>0, <2>3, <2>4, PageType
  <2>6. y.dead => x.dead \/ (q.authenticate /\ ~q.resolved /\ x.over200)
    <3>1. q.authenticate = p.authenticate
      BY <2>2 DEF Same
    <3> HIDE DEF dead, q
    <3> QED
      BY <3>1, PageType
  <2> HIDE DEF q, y
  <2> QED
    BY <2>1, <2>2, <2>5, <2>6
<1> QED
  BY <1>1, <1>2

\* The certificate check fails at most once; then there is a page or an end.
LEMMA CheckKeeps ==
    ASSUME NEW p \in Session, NEW x \in Context, NEW req
    PROVE  LET s == handle_com_response_ssl(p, x, req)
           IN  /\ s.cx \in Context /\ Kept(x, s.cx) /\ s.cx.handled
               /\ \E refused \in BOOLEAN :
                    /\ s.cx.failed = (x.failed \/ refused)
                    /\ refused => ~x.handled /\ (s.redirected \/ s.cx.dead)
                    /\ s.redirected => refused
                    /\ s.cx.dead => x.dead \/ refused
<1> DEFINE refused == ~x.handled /\ CertRefused(p, x) /\ ~is_white_listed(p)
           f == x.failed \/ refused
           y == [x EXCEPT !.handled = TRUE, !.failed = f]
           page == refused /\ (x.type = "HTTP" \/ p.kind.port = 443)
           h == [y EXCEPT !.type = "HTTP"]
           r == handle_replacement_ssl(p, h, req)
           e == y.dead \/ refused
           d == [y EXCEPT !.dead = e]
           s == handle_com_response_ssl(p, x, req)
<1>1. s = IF page THEN [cx |-> r.cx, redirected |-> TRUE, grant |-> r.grant]
          ELSE [cx |-> d, redirected |-> FALSE, grant |-> FALSE]
  BY DEF handle_com_response_ssl, Context
<1>2. refused \in BOOLEAN /\ f \in BOOLEAN /\ (page => refused) /\ (refused => ~x.handled) /\ page \in BOOLEAN
  OBVIOUS
<1>3. r.cx = WritePage(h)
  BY DEF handle_replacement_ssl
<1>4. (refused => f) /\ (f => x.failed \/ refused) /\ (x.failed => f) /\ x.failed \in BOOLEAN
  BY DEF Context
<1> HIDE DEF f, s, r
<1>5. y \in Context
  BY <1>2 DEF Context
<1>6. Kept(x, y) /\ y.handled /\ y.failed = f /\ y.dead = x.dead
  BY <1>2 DEF Context, Kept
<1> HIDE DEF y
<1>7. h \in Context /\ Kept(x, h) /\ h.handled /\ h.failed = f /\ h.dead = x.dead
  BY <1>5, <1>6 DEF Context, Kept
<1> HIDE DEF h
<1>8. r.cx \in Context /\ Kept(x, r.cx) /\ r.cx.handled /\ r.cx.failed = f /\ r.cx.dead = x.dead
  <2>1. Kept(h, r.cx) /\ r.cx \in Context /\ r.cx.handled = h.handled /\ r.cx.failed = h.failed
        /\ r.cx.dead = h.dead
    BY <1>3, <1>7, PageType
  <2> QED
    BY <1>7, <2>1 DEF Kept
<1>9. e \in BOOLEAN /\ (refused => e) /\ (x.dead => e) /\ (e => x.dead \/ refused)
  BY <1>5, <1>6 DEF Context
<1> HIDE DEF e
<1>10. d \in Context
  BY <1>5, <1>9 DEF Context
<1>11. d.rq = y.rq /\ d.lq = y.lq /\ d.lopen = y.lopen /\ d.ropen = y.ropen /\ d.leak = y.leak /\ d.over200 = y.over200
       /\ d.dead = e /\ d.handled = y.handled /\ d.failed = y.failed
  BY <1>5 DEF Context
<1> HIDE DEF d
<1>12. Kept(x, d) /\ d.handled /\ d.failed = f
  BY <1>6, <1>9, <1>11 DEF Kept
<1> HIDE DEF page, refused
<1>13. CASE page
  <2>1. s.cx = r.cx /\ s.redirected = TRUE
    BY <1>1, <1>13
  <2> QED
    BY <1>2, <1>4, <1>8, <1>13, <2>1 DEF s, f
<1>14. CASE ~page
  <2>1. s.cx = d /\ s.redirected = FALSE
    BY <1>1, <1>14
  <2> QED
    BY <1>2, <1>4, <1>9, <1>10, <1>11, <1>12, <1>14, <2>1 DEF s, f
<1> QED
  BY <1>13, <1>14

\* The contexts after proxy(): bytes passed on to the other side, or that side closed.
Passed(x, z, side, redirected) ==
    /\ z \in Context
    /\ z.dead = x.dead /\ z.failed = x.failed /\ z.handled = x.handled
    /\ z.leak = x.leak /\ z.over200 = x.over200
    /\ redirected => /\ z.lq = x.lq /\ z.rq = x.rq
                     /\ IF side = "L" THEN ~z.ropen ELSE ~z.lopen
    /\ ~redirected => /\ z.lopen = x.lopen /\ z.ropen = x.ropen
                      /\ side = "L" => z.lq = x.lq
                      /\ side = "R" => z.rq = x.rq
                      /\ "unchecked" \in z.rq => "unchecked" \in x.rq \/ x.failed
                      /\ "unchecked" \in z.lq => "unchecked" \in x.lq \/ x.failed

\* proxy() does that.
LEMMA ProxyKeeps ==
    ASSUME NEW p \in Session, NEW x \in Context, NEW side \in {"L", "R"}, NEW redirected
    PROVE  Passed(x, proxy(p, x, side, redirected), side, redirected)
<1> DEFINE z == proxy(p, x, side, redirected)
           b == {IF x.failed THEN "unchecked" ELSE "data"}
<1>1. CASE redirected /\ side = "L"
  <2>1. z = [x EXCEPT !.ropen = FALSE]
    BY <1>1 DEF proxy
  <2>2. z \in Context
    BY <2>1 DEF Context
  <2> QED
    BY <1>1, <2>1, <2>2 DEF Context, Passed
<1>2. CASE redirected /\ side = "R"
  <2>1. z = [x EXCEPT !.lopen = FALSE]
    BY <1>2 DEF proxy
  <2>2. z \in Context
    BY <2>1 DEF Context
  <2> QED
    BY <1>2, <2>1, <2>2 DEF Context, Passed
<1>3. CASE ~redirected /\ side \in p.sink /\ ~p.content
  <2>1. z = x
    BY <1>3 DEF proxy
  <2> QED
    BY <1>3, <2>1 DEF Passed
<1>4. CASE ~redirected /\ ~(side \in p.sink /\ ~p.content) /\ side = "L"
  <2> DEFINE w == x.rq \cup b
  <2>1. z = [x EXCEPT !.rq = w]
    BY <1>4 DEF proxy, Context
  <2>2. w \in SUBSET {"data", "unchecked"} /\ ("unchecked" \in w => "unchecked" \in x.rq \/ x.failed)
    BY DEF Context
  <2> HIDE DEF w
  <2>3. z \in Context
    BY <2>1, <2>2 DEF Context
  <2>4. z.rq = w /\ z.lq = x.lq /\ z.lopen = x.lopen /\ z.ropen = x.ropen
        /\ z.dead = x.dead /\ z.failed = x.failed /\ z.handled = x.handled
        /\ z.leak = x.leak /\ z.over200 = x.over200
    BY <2>1 DEF Context
  <2> QED
    BY <1>4, <2>2, <2>3, <2>4 DEF Passed
<1>5. CASE ~redirected /\ ~(side \in p.sink /\ ~p.content) /\ side = "R"
  <2> DEFINE w == x.lq \cup b
  <2>1. z = [x EXCEPT !.lq = w]
    BY <1>5 DEF proxy, Context
  <2>2. w \in SUBSET {"data", "unchecked", "page"} /\ ("unchecked" \in w => "unchecked" \in x.lq \/ x.failed)
    BY DEF Context
  <2> HIDE DEF w
  <2>3. z \in Context
    BY <2>1, <2>2 DEF Context
  <2>4. z.lq = w /\ z.rq = x.rq /\ z.lopen = x.lopen /\ z.ropen = x.ropen
        /\ z.dead = x.dead /\ z.failed = x.failed /\ z.handled = x.handled
        /\ z.leak = x.leak /\ z.over200 = x.over200
    BY <2>1 DEF Context
  <2> QED
    BY <1>5, <2>2, <2>3, <2>4 DEF Passed
<1> QED
  BY <1>1, <1>2, <1>3, <1>4, <1>5

\* The contexts at the start of a turn: what arrived can only be recognised.
Turn(c, x) ==
    /\ x \in Context
    /\ x.lq = cx[c].lq /\ x.rq = cx[c].rq /\ x.lopen = cx[c].lopen /\ x.ropen = cx[c].ropen
    /\ x.dead = cx[c].dead /\ x.failed = cx[c].failed /\ x.handled = cx[c].handled
    /\ x.leak = cx[c].leak

\* The checks end a session whose certificate fails, or whose client has to
\* authenticate and has not.
Checked(c) ==
    \/ ~cx[c].handled /\ cx'[c].failed
    \/ px'[c].authenticate /\ ~px'[c].resolved /\ cx'[c].over200

\* Bytes of one side keep a failed session sealed.
LEMMA BytesStep ==
    ASSUME Inv, NEW c \in Conns, NEW x, NEW side \in {"L", "R"}, NEW req, NEW due \in BOOLEAN,
           Alive(c), Turn(c, x), IF side = "L" THEN cx[c].lopen ELSE cx[c].ropen,
           Bytes(c, x, side, req, due)
    PROVE  Inv' /\ (cx'[c].dead => Checked(c)) /\ \A d \in Conns \ {c} : cx'[d] = cx[d]
<1> DEFINE p == px[c]
           a == IF due THEN handle_authentication(p, x) ELSE [px |-> p, cx |-> x]
           s == handle_com_response_ssl(a.px, a.cx, req)
           w == proxy(a.px, s.cx, side, s.redirected)
<1>1. /\ p \in Session /\ Good(p, cx[c]) /\ p.stage = "running" /\ Typed /\ x \in Context
      /\ p.authenticate \/ p.resolve => p.policy >= 0
  BY DEF Inv, Typed, Alive, Turn, Good, Ruled
<1>2. /\ px' = [px EXCEPT ![c] = a.px] /\ cx' = [cx EXCEPT ![c] = w]
      /\ UNCHANGED <<list, ident, lb>> /\ lb' \in Balancers
      /\ due => ~\A cached \in BOOLEAN : AuthCrash(p, x, cached)
  <2> DEFINE h == handle_requirements(p, x, req, due)
  <2>1. /\ px' = [px EXCEPT ![c] = h.px]
        /\ cx' = [cx EXCEPT ![c] = proxy(h.px, h.cx, side, h.redirected)]
        /\ UNCHANGED <<list, ident, lb>>
        /\ due => ~\A cached \in BOOLEAN : AuthCrash(p, x, cached)
    BY DEF Bytes
  <2> HIDE DEF a, s, p
  <2>2. h = [px |-> a.px, cx |-> s.cx, redirected |-> s.redirected, grant |-> s.grant]
    BY DEF handle_requirements, a, s
  <2>3. h.px = a.px /\ h.cx = s.cx /\ h.redirected = s.redirected
    BY <2>2
  <2> HIDE DEF h
  <2> QED
    BY <2>1, <2>3, SameLb
<1>3. wl' \in [Keys -> 0..WlTimeout]
  <2>1. wl \in [Keys -> 0..WlTimeout] /\ WlTimeout \in 0..WlTimeout
    BY <1>1, MitmAssumption DEF Typed
  <2>2. \E k, v : wl' = [wl EXCEPT ![k] = v] /\ v \in {WlTimeout, wl[k]}
    BY DEF Bytes
  <2> QED
    BY <2>1, <2>2
<1>4. /\ a.px \in Session /\ Same(p, a.px) /\ a.cx \in Context /\ Kept(x, a.cx)
      /\ a.cx.handled = x.handled /\ a.cx.failed = x.failed
      /\ a.cx.dead => x.dead \/ (a.px.authenticate /\ ~a.px.resolved /\ x.over200)
  <2> HIDE DEF p
  <2>1. CASE due
    BY <1>1, <1>2, <2>1, AuthenticationKeeps
  <2>2. CASE ~due
    BY <1>1, <2>2 DEF Kept, Same
  <2> QED
    BY <2>1, <2>2
<1> HIDE DEF a
<1>5. /\ s.cx \in Context /\ Kept(a.cx, s.cx) /\ s.cx.handled
      /\ \E refused \in BOOLEAN :
            /\ s.cx.failed = (a.cx.failed \/ refused)
            /\ refused => ~a.cx.handled /\ (s.redirected \/ s.cx.dead)
            /\ s.redirected => refused
            /\ s.cx.dead => a.cx.dead \/ refused
  BY <1>4, CheckKeeps
<1> HIDE DEF s
<1>6. Passed(s.cx, w, side, s.redirected)
  BY <1>4, <1>5, ProxyKeeps
<1>7. w \in Context
  BY <1>6 DEF Passed
<1> HIDE DEF w
<1>8. Sealed(a.px, w)
  <2>1. SUFFICES ASSUME p.kind.tls = "tls"
                 PROVE  /\ ~w.leak
                        /\ w.failed => w.handled
                        /\ ~w.failed => "unchecked" \notin w.lq /\ "unchecked" \notin w.rq
                        /\ w.failed => \/ w.dead
                                       \/ ~w.ropen /\ "unchecked" \notin w.lq
                                       \/ ~w.lopen /\ "unchecked" \notin w.rq
    BY <1>4 DEF Sealed, Same
  <2>2. /\ ~x.leak
        /\ x.failed => x.handled
        /\ ~x.failed => "unchecked" \notin x.lq /\ "unchecked" \notin x.rq
        /\ x.failed => \/ ~x.ropen /\ "unchecked" \notin x.lq
                       \/ ~x.lopen /\ "unchecked" \notin x.rq
    BY <1>1, <2>1 DEF Good, Sealed, Turn, Alive
  <2>3. PICK refused \in BOOLEAN :
            /\ s.cx.failed = (a.cx.failed \/ refused)
            /\ refused => ~a.cx.handled /\ (s.redirected \/ s.cx.dead)
            /\ s.redirected => refused
    BY <1>5
  <2>4. Kept(x, s.cx)
    BY <1>4, <1>5 DEF Kept
  <2>5. x.failed \in BOOLEAN
    BY <1>1 DEF Context
  <2>6. CASE refused
    <3>1. ~x.failed /\ s.cx.failed
      BY <1>4, <2>2, <2>3, <2>6
    <3>2. "unchecked" \notin s.cx.lq /\ "unchecked" \notin s.cx.rq
      BY <2>2, <2>4, <3>1 DEF Kept
    <3>3. CASE s.redirected
      BY <1>5, <1>6, <1>7, <2>2, <2>4, <3>1, <3>2, <3>3 DEF Kept, Passed
    <3>4. CASE ~s.redirected
      BY <1>5, <1>6, <1>7, <2>2, <2>3, <2>4, <2>6, <3>1, <3>4 DEF Kept, Passed
    <3> QED
      BY <3>3, <3>4
  <2>7. CASE ~refused
    <3>1. ~s.redirected /\ s.cx.failed = x.failed
      BY <1>4, <2>3, <2>5, <2>7
    <3>2. x.failed => IF side = "L" THEN ~x.ropen /\ "unchecked" \notin x.lq
                                    ELSE ~x.lopen /\ "unchecked" \notin x.rq
      BY <2>2 DEF Turn
    <3>3. CASE x.failed
      BY <1>5, <1>6, <1>7, <2>2, <2>4, <3>1, <3>2, <3>3 DEF Kept, Passed
    <3>4. CASE ~x.failed
      BY <1>5, <1>6, <1>7, <2>2, <2>4, <3>1, <3>4 DEF Kept, Passed
    <3> QED
      BY <3>3, <3>4
  <2> QED
    BY <2>6, <2>7
<1>9. Good(a.px, w)
  BY <1>1, <1>4, <1>8, RunningGood
<1>10. Inv'
  BY <1>2, <1>3, <1>4, <1>7, <1>9, Put
<1>11. w.dead => \/ ~cx[c].handled /\ w.failed
                 \/ a.px.authenticate /\ ~a.px.resolved /\ w.over200
  <2>1. w.dead = s.cx.dead /\ w.failed = s.cx.failed /\ w.over200 = x.over200
    BY <1>4, <1>5, <1>6 DEF Kept, Passed
  <2>2. x.handled = cx[c].handled /\ ~x.dead
    BY DEF Turn, Alive
  <2> QED
    BY <1>4, <1>5, <2>1, <2>2
<1>12. cx'[c] = w /\ px'[c] = a.px /\ \A d \in Conns \ {c} : cx'[d] = cx[d]
  BY <1>1, <1>2 DEF Typed
<1> QED
  BY <1>10, <1>11, <1>12 DEF Checked

\* Bytes of the client.
LEMMA LeftBytesStep ==
    ASSUME Inv, NEW c \in Conns, NEW http \in BOOLEAN, NEW req, NEW bytes \in Nat, NEW due \in BOOLEAN,
           on_left_bytes(c, http, req, bytes, due)
    PROVE  Inv' /\ (cx'[c].dead => Checked(c)) /\ \A d \in Conns \ {c} : cx'[d] = cx[d]
<1> DEFINE t == IF http THEN "HTTP" ELSE cx[c].type
           a == cx[c].app \/ http
           u == cx[c].over200 \/ bytes > 200
           v == cx[c].over1k \/ bytes >= 1024
           y == [cx[c] EXCEPT !.over200 = u, !.over1k = v]
           x == Seen(Metered(cx[c], bytes), http)
<1>1. cx[c] \in Context
  BY DEF Inv, Typed
<1>2. t \in {"NONE", "HTTP"} /\ a \in BOOLEAN /\ u \in BOOLEAN /\ v \in BOOLEAN
  BY <1>1 DEF Context
<1>3. x = [cx[c] EXCEPT !.over200 = u, !.over1k = v, !.type = t, !.app = a]
  <2>1. Metered(cx[c], bytes) = y
    BY DEF Metered
  <2>2. y.type = cx[c].type /\ y.app = cx[c].app
    BY <1>1 DEF Context
  <2> HIDE DEF u, v
  <2>3. Seen(y, http) = [y EXCEPT !.type = t, !.app = a]
    BY <2>2 DEF Seen
  <2> QED
    BY <2>1, <2>3
<1> HIDE DEF t, a, u, v, x
<1>4. x \in Context
  <2>1. y \in Context
    BY <1>1, <1>2 DEF Context
  <2>2. x = [y EXCEPT !.type = t, !.app = a]
    BY <1>3
  <2> HIDE DEF y
  <2> QED
    BY <1>2, <2>1, <2>2 DEF Context
<1>5. Turn(c, x)
  BY <1>1, <1>3, <1>4 DEF Turn, Context
<1>6. Alive(c) /\ cx[c].lopen /\ Bytes(c, x, "L", req, due)
  BY DEF on_left_bytes, x
<1> QED
  BY <1>5, <1>6, BytesStep

\* Bytes of the server.
LEMMA RightBytesStep ==
    ASSUME Inv, NEW c \in Conns, NEW due \in BOOLEAN, on_right_bytes(c, due)
    PROVE  Inv' /\ (cx'[c].dead => Checked(c)) /\ \A d \in Conns \ {c} : cx'[d] = cx[d]
<1>1. Turn(c, cx[c])
  BY DEF Inv, Typed, Turn
<1>2. Alive(c) /\ cx[c].ropen /\ Bytes(c, cx[c], "R", "page", due)
  BY DEF on_right_bytes
<1> QED
  BY <1>1, <1>2, BytesStep

\* After a crash there are no sessions.
LEMMA CrashStep ==
    ASSUME Inv, NEW c \in Conns, NEW http \in BOOLEAN, NEW cached \in BOOLEAN, Crash(c, http, cached)
    PROVE  Inv'
<1>1. Typed'
  BY NoSession, MitmAssumption DEF Inv, Typed, Crash
<1>2. \A d \in Conns : px'[d] = NoProxy /\ cx'[d] = NoCx
  BY DEF Crash
<1>3. Good(NoProxy, NoCx)'
  BY DEF Good, Ruled, Located, Admitted, Natted, Sealed, Fresh, NoProxy, NoCx, Admitting
<1> QED
  BY <1>1, <1>2, <1>3 DEF Inv, Good, Ruled, Located, Admitted, Natted, Sealed, Fresh

\* STARTTLS is not for sessions that are TLS from the start.
LEMMA StarttlsStep ==
    ASSUME Inv, NEW c \in Conns, on_starttls(c)
    PROVE  Inv'
<1> DEFINE p == px[c]
           t == IF p.policy < Len(list) THEN list[p.policy + 1].tls ELSE NoTls
           q == [p EXCEPT !.tls = t]
           x == [cx[c] EXCEPT !.com = "tls"]
           f == CertRefused(q, x) /\ ~is_white_listed(q)
           y == [x EXCEPT !.failed = f]
<1>1. p \in Session /\ cx[c] \in Context /\ Good(p, cx[c]) /\ p.stage = "running" /\ p.kind.tls = "starttls"
  BY DEF Inv, Typed, on_starttls, Alive
<1>2. px' = [px EXCEPT ![c] = q] /\ cx' = [cx EXCEPT ![c] = y] /\ UNCHANGED <<list, ident, lb, wl>>
  BY DEF on_starttls
<1>3. lb' \in Balancers /\ wl' \in [Keys -> 0..WlTimeout]
  BY <1>2, SameLb DEF Inv, Typed
<1>4. t \in TlsProfile
  <2>1. p.policy \in Int /\ p.policy >= 0
    BY <1>1 DEF Good, Ruled, Session
  <2>2. list \in Seq(Rules)
    BY ListType DEF Inv
  <2>3. CASE p.policy < Len(list)
    <3>1. list[p.policy + 1] \in Rules
      BY <2>1, <2>2, <2>3
    <3> QED
      BY <2>3, <3>1 DEF Rules
  <2>4. CASE ~(p.policy < Len(list))
    BY <2>4 DEF NoTls, TlsProfile
  <2> QED
    BY <2>3, <2>4
<1>5. f \in BOOLEAN
  OBVIOUS
<1> HIDE DEF t, f
<1>6. q \in Session
  BY <1>1, <1>4 DEF Session
<1>7. Same(p, q)
  BY <1>1 DEF Same, Session
<1>8. x \in Context
  BY <1>1 DEF Context
<1> HIDE DEF q, x
<1>9. y \in Context
  BY <1>5, <1>8 DEF Context
<1>10. Good(q, y)
  BY <1>1, <1>6, <1>7, RunningGood DEF Sealed, Same
<1> QED
  BY <1>2, <1>3, <1>6, <1>9, <1>10, Put

\* A step of the contexts alone.
LEMMA ContextStep ==
    ASSUME Inv, NEW c \in Conns, NEW x \in Context, px[c].stage = "running", Sealed(px[c], x),
           cx' = [cx EXCEPT ![c] = x], UNCHANGED <<px, wl, lb, list, ident>>
    PROVE  Inv'
<1>1. px[c] \in Session /\ Good(px[c], cx[c])
  BY DEF Inv, Typed
<1>2. Good(px[c], x)
  BY <1>1, RunningGood DEF Same
<1> QED
  BY <1>2, Run

\* Writing to the client.
LEMMA FlushLeftStep ==
    ASSUME Inv, NEW c \in Conns, NEW over1k \in BOOLEAN, FlushLeft(c, over1k)
    PROVE  Inv'
<1> DEFINE x == cx[c]
           k == x.leak \/ "unchecked" \in x.lq
           m == x.over1k \/ over1k
           y == [x EXCEPT !.lq = {}, !.leak = k, !.lopen = ~x.caw, !.lerr = x.caw, !.over1k = m]
<1>1. x \in Context /\ Good(px[c], x) /\ px[c].stage = "running" /\ ~x.dead /\ x.lopen
  BY DEF Inv, Typed, FlushLeft, Alive
<1>2. cx' = [cx EXCEPT ![c] = y] /\ UNCHANGED <<list, ident, lb, px, wl>>
  BY DEF FlushLeft
<1>3. k \in BOOLEAN /\ x.caw \in BOOLEAN /\ m \in BOOLEAN
  BY <1>1 DEF Context
<1>4. px[c].kind.tls = "tls" => ~k
  BY <1>1 DEF Good, Sealed
<1> HIDE DEF k, m
<1>5. y \in Context
  <2> DEFINE o == ~x.caw
             e == x.caw
             w == [x EXCEPT !.lq = {}, !.leak = k, !.lopen = o, !.lerr = e]
  <2>1. o \in BOOLEAN /\ e \in BOOLEAN
    BY <1>3
  <2>2. y = [w EXCEPT !.over1k = m]
    OBVIOUS
  <2> HIDE DEF o, e
  <2>3. w \in Context
    BY <1>1, <1>3, <2>1 DEF Context
  <2> HIDE DEF w
  <2> QED
    BY <1>3, <2>2, <2>3 DEF Context
<1>6. y.lq = {} /\ y.leak = k /\ y.rq = x.rq /\ y.ropen = x.ropen /\ y.dead = x.dead
      /\ y.failed = x.failed /\ y.handled = x.handled
  BY <1>1 DEF Context
<1> HIDE DEF y
<1>7. Sealed(px[c], y)
  BY <1>1, <1>4, <1>6 DEF Good, Sealed
<1> QED
  BY <1>1, <1>2, <1>5, <1>7, ContextStep

\* Writing to the server.
LEMMA FlushRightStep ==
    ASSUME Inv, NEW c \in Conns, FlushRight(c)
    PROVE  Inv'
<1> DEFINE x == cx[c]
           k == x.leak \/ "unchecked" \in x.rq
           y == [x EXCEPT !.rq = {}, !.leak = k]
<1>1. x \in Context /\ Good(px[c], x) /\ px[c].stage = "running" /\ ~x.dead /\ x.ropen
  BY DEF Inv, Typed, FlushRight, Alive
<1>2. cx' = [cx EXCEPT ![c] = y] /\ UNCHANGED <<list, ident, lb, px, wl>>
  BY DEF FlushRight
<1>3. k \in BOOLEAN
  BY <1>1 DEF Context
<1>4. px[c].kind.tls = "tls" => ~k
  BY <1>1 DEF Good, Sealed
<1> HIDE DEF k
<1>5. y \in Context
  BY <1>1, <1>3 DEF Context
<1>6. y.rq = {} /\ y.leak = k /\ y.lq = x.lq /\ y.ropen = x.ropen /\ y.lopen = x.lopen /\ y.dead = x.dead
      /\ y.failed = x.failed /\ y.handled = x.handled
  BY <1>1 DEF Context
<1> HIDE DEF y
<1>7. Sealed(px[c], y)
  BY <1>1, <1>4, <1>6 DEF Good, Sealed
<1> QED
  BY <1>1, <1>2, <1>5, <1>7, ContextStep

\* Contexts that differ in errors, in the half-close timer, or in being dead now.
Failing(x, y) ==
    /\ y.lq = x.lq /\ y.rq = x.rq /\ y.lopen = x.lopen /\ y.ropen = x.ropen
    /\ y.failed = x.failed /\ y.handled = x.handled /\ y.leak = x.leak
    /\ x.dead => y.dead

\* They stay sealed.
LEMMA FailingStep ==
    ASSUME Inv, NEW c \in Conns, NEW y \in Context, px[c].stage = "running", Failing(cx[c], y),
           cx' = [cx EXCEPT ![c] = y], UNCHANGED <<px, wl, lb, list, ident>>
    PROVE  Inv'
<1>1. Sealed(px[c], cx[c])
  BY DEF Inv, Good
<1>2. Sealed(px[c], y)
  BY <1>1 DEF Sealed, Failing
<1> QED
  BY <1>2, ContextStep

\* An error of a peer.
LEMMA PeerFailsStep ==
    ASSUME Inv, NEW c \in Conns, PeerFails(c)
    PROVE  Inv' /\ \A d \in Conns : cx'[d].dead = cx[d].dead
<1> DEFINE l == [cx[c] EXCEPT !.lerr = TRUE]
           r == [cx[c] EXCEPT !.rerr = TRUE]
<1>1. cx[c] \in Context /\ px[c].stage = "running" /\ UNCHANGED <<px, wl, lb, list, ident>>
      /\ cx \in [Conns -> Context]
  BY DEF Inv, Typed, PeerFails, Alive
<1>2. cx' = [cx EXCEPT ![c] = l] \/ cx' = [cx EXCEPT ![c] = r]
  BY DEF PeerFails
<1>3. l \in Context /\ r \in Context
  BY <1>1 DEF Context
<1>4. Failing(cx[c], l) /\ Failing(cx[c], r) /\ l.dead = cx[c].dead /\ r.dead = cx[c].dead
  BY <1>1 DEF Context, Failing
<1> HIDE DEF l, r
<1>5. Inv'
  BY <1>1, <1>2, <1>3, <1>4, FailingStep
<1> QED
  BY <1>1, <1>2, <1>4, <1>5

\* on_half_close keeps or kills.
LEMMA HalfCloseType ==
    ASSUME NEW x \in Context
    PROVE  /\ on_half_close(x) \in Context /\ Failing(x, on_half_close(x))
           /\ on_half_close(x).dead => x.dead \/ x.hold = 0
<1>1. HalfTimeout \in Nat
  BY MitmAssumption
<1>2. CASE x.hold = NotHeld
  <2> DEFINE y == [x EXCEPT !.hold = HalfTimeout]
  <2>1. on_half_close(x) = y
    BY <1>2 DEF on_half_close
  <2>2. HalfTimeout \in 0..NotHeld
    BY <1>1 DEF NotHeld
  <2>3. y \in Context
    BY <2>2 DEF Context
  <2>4. Failing(x, y) /\ y.dead = x.dead
    BY DEF Failing, Context
  <2> QED
    BY <2>1, <2>3, <2>4
<1>3. CASE x.hold # NotHeld /\ x.hold > 0
  BY <1>3 DEF on_half_close, Failing
<1>4. CASE x.hold # NotHeld /\ ~(x.hold > 0)
  <2> DEFINE y == [x EXCEPT !.dead = TRUE]
  <2>1. on_half_close(x) = y
    BY <1>4 DEF on_half_close
  <2>2. y \in Context
    BY DEF Context
  <2>3. Failing(x, y)
    BY DEF Failing, Context
  <2>4. x.hold \in Int /\ x.hold >= 0
    BY <1>1 DEF Context, NotHeld
  <2> QED
    BY <1>4, <2>1, <2>2, <2>3, <2>4
<1> QED
  BY <1>2, <1>3, <1>4

\* on_error ends a session at once only over UDP, with nothing pending, or
\* when the half-close time is over.
LEMMA ErrorStep ==
    ASSUME Inv, NEW c \in Conns, NEW pending, Alive(c), on_error(c, pending),
           UNCHANGED <<list, ident, lb, px, wl>>
    PROVE  /\ Inv'
           /\ cx'[c].dead => px[c].kind.udp \/ ~pending \/ cx[c].hold = 0
           /\ \A d \in Conns \ {c} : cx'[d] = cx[d]
<1> DEFINE x == cx[c]
           e == [x EXCEPT !.dead = TRUE]
           y == IF ~px[c].kind.udp /\ pending THEN on_half_close(x) ELSE e
<1>1. x \in Context /\ cx \in [Conns -> Context] /\ px[c].stage = "running" /\ ~x.dead
  BY DEF Inv, Typed, Alive
<1>2. cx' = [cx EXCEPT ![c] = y]
  BY DEF on_error
<1>3. e \in Context
  BY <1>1 DEF Context
<1>4. Failing(x, e)
  BY <1>1 DEF Context, Failing
<1> HIDE DEF e
<1>5. y \in Context /\ Failing(x, y)
  BY <1>1, <1>3, <1>4, HalfCloseType
<1>6. y.dead => px[c].kind.udp \/ ~pending \/ x.hold = 0
  BY <1>1, HalfCloseType
<1> HIDE DEF y
<1>7. Inv'
  BY <1>1, <1>2, <1>5, FailingStep
<1> QED
  BY <1>1, <1>2, <1>6, <1>7

\* An error of a dead session.
LEMMA ErrorOfDeadStep ==
    ASSUME Inv, NEW c \in Conns, NEW h, ErrorOfDead(c, h)
    PROVE  Inv'
<1> DEFINE p == px[c]
           q == resolve_identity(p, h)
<1>1. p \in Session /\ Good(p, cx[c]) /\ p.stage = "running" /\ Typed /\ ~LookupThrows(p, h) /\ p.policy >= 0
  BY DEF Inv, Typed, ErrorOfDead, Good, Ruled
<1>2. px' = [px EXCEPT ![c] = q] /\ UNCHANGED <<list, ident, lb, cx, wl>> /\ lb' \in Balancers
  BY SameLb DEF ErrorOfDead
<1>3. q \in Session /\ Same(p, q)
  <2> HIDE DEF p
  <2> QED
    BY <1>1, ResolvedSame
<1> HIDE DEF q
<1>4. Good(q, cx[c])
  BY <1>1, <1>3, RunningGood DEF Good, Sealed, Same
<1> QED
  BY <1>2, <1>3, <1>4, Admit

\* A dead session is removed.
LEMMA ReapStep ==
    ASSUME Inv, NEW c \in Conns, Reap(c)
    PROVE  Inv'
<1>1. px' = [px EXCEPT ![c] = NoProxy] /\ cx' = [cx EXCEPT ![c] = NoCx] /\ UNCHANGED <<list, ident, lb, wl>>
  BY DEF Reap
<1>2. lb' \in Balancers /\ wl' \in [Keys -> 0..WlTimeout]
  BY <1>1, SameLb DEF Inv, Typed
<1> QED
  BY <1>1, <1>2, NoSession, Put

\* Time passes.
LEMMA TickStep ==
    ASSUME Inv, Tick
    PROVE  Inv' /\ \A c \in Conns : cx'[c].dead = cx[c].dead
<1>1. HalfTimeout \in Nat /\ WlTimeout \in Nat
  BY MitmAssumption
<1>2. wl' \in [Keys -> 0..WlTimeout]
  BY <1>1 DEF Inv, Typed, Tick
<1>3. ASSUME NEW c \in Conns
      PROVE  cx'[c] \in Context /\ Good(px[c], cx[c])' /\ cx'[c].dead = cx[c].dead
  <2> DEFINE h == cx[c].hold - 1
             y == [cx[c] EXCEPT !.hold = h]
  <2>1. cx[c] \in Context /\ px[c] \in Session /\ Good(px[c], cx[c])
    BY DEF Inv, Typed
  <2>2. cx'[c] = IF cx[c].hold \in 1..HalfTimeout THEN y ELSE cx[c]
    BY DEF Tick
  <2>3. px'[c] = px[c] /\ list' = list
    BY DEF Tick
  <2>4. CASE cx[c].hold \in 1..HalfTimeout
    <3>1. h \in 0..NotHeld
      BY <1>1, <2>4 DEF NotHeld
    <3> HIDE DEF h
    <3>2. y \in Context
      BY <2>1, <3>1 DEF Context
    <3>3. Failing(cx[c], y) /\ y.dead = cx[c].dead
      BY <2>1 DEF Context, Failing
    <3>4. cx'[c] = y
      BY <2>2, <2>4
    <3>5. cx[c] # NoCx
      BY <1>1, <2>4 DEF NoCx, NotHeld
    <3>6. px[c].stage = "running"
      BY <2>1, <3>5 DEF Good, Fresh
    <3>7. Sealed(px[c], cx[c])'
      BY <2>1, <2>3, <3>3, <3>4 DEF Good, Sealed, Failing
    <3>8. (Ruled(px[c]) /\ Located(px[c]) /\ Admitted(px[c]) /\ Natted(px[c]) /\ Fresh(px[c], cx[c]))'
      BY <2>1, <2>3, <3>6 DEF Good, Ruled, Located, Admitted, Natted, Fresh
    <3> QED
      BY <3>2, <3>3, <3>4, <3>7, <3>8 DEF Good
  <2>5. CASE cx[c].hold \notin 1..HalfTimeout
    BY <2>1, <2>2, <2>3, <2>5 DEF Good, Ruled, Located, Admitted, Natted, Sealed, Fresh
  <2> QED
    BY <2>4, <2>5
<1>4. cx' \in [Conns -> Context]
  BY <1>3 DEF Tick
<1>5. Typed'
  BY <1>2, <1>4 DEF Inv, Typed, Tick
<1> QED
  BY <1>3, <1>5 DEF Inv

-----------------------------------------------------------------------------
(* The theorems                                                            *)

\* The steps of a connection being admitted, and of its surroundings.
LEMMA AdmissionStep ==
    ASSUME Inv, Admission
    PROVE  Inv' /\ UNCHANGED cx
<1>1. CASE Reload
  BY <1>1, ReloadStep DEF Admission
<1>2. CASE \E h \in Hosts : Logout(h) \/ \E g \in SUBSET Groups : Login(h, g)
  BY <1>2, IdentStep DEF Admission
<1>3. CASE \E c \in Conns : \E k \in Kinds : Make(c, k)
  BY <1>3, MakeStep DEF Admission
<1>4. CASE \E c \in Conns : Policy(c)
  BY <1>4, PolicyStep DEF Admission
<1>5. CASE \E c \in Conns : Route(c)
  BY <1>5, RouteStep DEF Admission
<1>6. CASE \E c \in Conns : Dnat(c)
  BY <1>6, DnatStep DEF Admission
<1>7. CASE \E c \in Conns : Resolve(c)
  BY <1>7, ResolveStep DEF Admission
<1>8. CASE \E c \in Conns : Snat(c)
  BY <1>8, SnatStep DEF Admission
<1>9. CASE \E c \in Conns : FindProfile(c)
  BY <1>9, FindProfileStep DEF Admission
<1>10. CASE \E c \in Conns : FindGroups(c)
  BY <1>10, FindGroupsStep DEF Admission
<1>11. CASE \E c \in Conns : CheckGroups(c)
  BY <1>11, CheckGroupsStep DEF Admission
<1> QED
  BY <1>1, <1>2, <1>3, <1>4, <1>5, <1>6, <1>7, <1>8, <1>9, <1>10, <1>11 DEF Admission

\* The actions of one running session.
LeftBytes(c) ==
    \E due \in BOOLEAN, http \in BOOLEAN, req \in {"page", "override"}, bytes \in {1, 201, 1024} :
        on_left_bytes(c, http, req, bytes, due)
RightBytes(c) == \E due \in BOOLEAN : on_right_bytes(c, due)
Crashes(c) == \E http, cached \in BOOLEAN : Crash(c, http, cached)
Flushes(c) == \E over1k \in BOOLEAN : FlushLeft(c, over1k)
Errors(c) == \E h \in FailedHosts(c) : ErrorOfDead(c, h)

SessionStep(c) ==
    \/ LeftBytes(c) \/ RightBytes(c) \/ Crashes(c) \/ Flushes(c) \/ Errors(c)
    \/ Begin(c) \/ on_starttls(c) \/ FlushRight(c) \/ PeerFails(c)
    \/ on_left_error(c) \/ on_right_error(c) \/ Reap(c)

\* Next is made of them.
LEMMA NextCases == Next => Admission \/ Tick \/ \E c \in Conns : SessionStep(c)
  BY DEF Next, SessionStep, LeftBytes, RightBytes, Crashes, Flushes, Errors

\* Every step keeps the invariant.
LEMMA InvStep == Inv /\ [Next]_vars => Inv'
<1> SUFFICES ASSUME Inv, [Next]_vars PROVE Inv'
  OBVIOUS
<1>1. CASE Admission
  BY <1>1, AdmissionStep
<1>2. CASE Tick
  BY <1>2, TickStep
<1>3. ASSUME NEW c \in Conns, SessionStep(c)
      PROVE  Inv'
  <2>1. CASE LeftBytes(c)
    <3>1. PICK due \in BOOLEAN, http \in BOOLEAN, req \in {"page", "override"}, bytes \in {1, 201, 1024} :
            on_left_bytes(c, http, req, bytes, due)
      BY <2>1 DEF LeftBytes
    <3>2. bytes \in Nat
      OBVIOUS
    <3> QED
      BY <3>1, <3>2, LeftBytesStep
  <2>2. CASE Crashes(c)
    BY <2>2, CrashStep DEF Crashes
  <2>3. CASE Begin(c)
    BY <2>3, BeginStep
  <2>4. CASE RightBytes(c)
    BY <2>4, RightBytesStep DEF RightBytes
  <2>5. CASE on_starttls(c)
    BY <2>5, StarttlsStep
  <2>6. CASE Flushes(c)
    BY <2>6, FlushLeftStep DEF Flushes
  <2>7. CASE FlushRight(c)
    BY <2>7, FlushRightStep
  <2>8. CASE PeerFails(c)
    BY <2>8, PeerFailsStep
  <2>9. CASE on_left_error(c)
    BY <2>9, ErrorStep DEF on_left_error
  <2>10. CASE on_right_error(c)
    BY <2>10, ErrorStep DEF on_right_error
  <2>11. CASE Errors(c)
    BY <2>11, ErrorOfDeadStep DEF Errors
  <2>12. CASE Reap(c)
    BY <2>12, ReapStep
  <2> QED
    BY <1>3, <2>1, <2>2, <2>3, <2>4, <2>5, <2>6, <2>7, <2>8, <2>9, <2>10, <2>11, <2>12 DEF SessionStep
<1>4. CASE UNCHANGED vars
  BY <1>4 DEF vars, Inv, Typed, Good, Ruled, Located, Admitted, Natted, Sealed, Fresh
<1> QED
  BY <1>1, <1>2, <1>3, <1>4, NextCases

\* The invariant holds in every state.
LEMMA Invariance == Spec => []Inv
  BY InvInit, InvStep, PTL DEF Spec

\* Whatever is admitted, checked and written: indices, queues, half-close and
\* override timers keep their ranges.
THEOREM TypeCorrect == Spec => []TypeOK
<1>1. Inv => TypeOK
  <2> SUFFICES ASSUME Inv PROVE TypeOK
    OBVIOUS
  <2>1. ASSUME NEW c \in Conns
        PROVE  /\ px[c].stage \in Stages /\ px[c].kind \in Kinds /\ px[c].tls \in TlsProfile
               /\ px[c].policy \in -1..POLICY_IMPLICIT_PASS
    <3>1. px[c] \in Session
      BY DEF Inv, Typed
    <3> QED
      BY <3>1 DEF Session
  <2>2. ASSUME NEW c \in Conns
        PROVE  /\ cx[c].lq \subseteq {"data", "unchecked", "page"} /\ cx[c].rq \subseteq {"data", "unchecked"}
               /\ cx[c].hold \in 0..NotHeld
    <3>1. cx[c] \in Context
      BY DEF Inv, Typed
    <3> QED
      BY <3>1 DEF Context
  <2>3. \A i \in -1..POLICY_IMPLICIT_PASS :
            i \in {NoPolicy, POLICY_IMPLICIT_PASS} \cup 0..(POLICY_IMPLICIT_PASS - 1)
    BY ImplicitPass DEF NoPolicy
  <2> QED
    BY <2>1, <2>2, <2>3 DEF TypeOK, Inv, Typed
<1> QED
  BY <1>1, Invariance, PTL

\* Although policy() lets a connection without a rule pass, none is ever ready
\* to be connected: the lookup of setup_snat stops it in every policy.
THEOREM NoRuleStops == Spec => []NoRuleNoConnection
<1>1. Inv => NoRuleNoConnection
  BY DEF Inv, Good, Ruled, NoRuleNoConnection
<1> QED
  BY <1>1, Invariance, PTL

\* With reloads between any two of the lookups by index, the NAT and the group
\* membership of an admitted session are those of rules its index denoted
\* during its admission.
THEOREM AdmittedByItsRule == Spec => []AdmittedAsDenoted
<1>1. Inv => AdmittedAsDenoted
  <2> SUFFICES ASSUME Inv, NEW c \in Conns, px[c].stage = "ready", px[c].rule # <<>>
               PROVE  LET p == px[c]
                          r == p.rule[1]
                      IN  /\ \E d \in p.denoted : d # <<>> /\ p.nonlocal = d[1].nonat
                          /\ (r.pass /\ r.auth # <<>> /\ r.auth[1].authenticate
                                /\ ~is_replaceable(p.kind.port)) =>
                                  \E d \in p.denoted :
                                      \/ d = <<>> \/ d[1].auth = <<>>
                                      \/ p.groups # NoId /\ find_auth_subprofile(d[1].auth, p.groups) # <<>>
    BY DEF AdmittedAsDenoted
  <2>1. Admitted(px[c]) /\ Natted(px[c])
    BY DEF Inv, Good
  <2> QED
    BY <2>1 DEF Admitted, Natted, Demands, Lets
<1> QED
  BY <1>1, Invariance, PTL

\* No payload is written in a session that was TLS from the start and whose
\* certificate was refused.
THEOREM TlsChecked == Spec => []TlsFromStartChecked
<1>1. Inv => TlsFromStartChecked
  BY DEF Inv, Good, Sealed, TlsFromStartChecked
<1> QED
  BY <1>1, Invariance, PTL

\* PendingKept of one session and one step.
KeepsPending(c) ==
    (Alive(c) /\ cx'[c].dead) =>
        \/ ~cx[c].handled /\ cx'[c].failed
        \/ px'[c].authenticate /\ ~px'[c].resolved /\ cx'[c].over200
        \/ cx[c].lerr /\ (px[c].kind.udp \/ cx[c].hold = 0 \/ cx[c].rq = {})
        \/ cx[c].rerr /\ (px[c].kind.udp \/ cx[c].hold = 0 \/ cx[c].lq = {})

\* A step that leaves the contexts of a session alone, or alive, keeps it.
LEMMA NotKilled ==
    ASSUME NEW d \in Conns, cx'[d].dead = cx[d].dead \/ ~cx'[d].dead
    PROVE  KeepsPending(d)
  BY DEF KeepsPending, Alive

\* Only the checks and on_error end a session, and on_error looks at what is pending.
LEMMA PendingStep == Inv /\ Next => \A d \in Conns : KeepsPending(d)
<1> SUFFICES ASSUME Inv, Next, NEW d \in Conns PROVE KeepsPending(d)
  OBVIOUS
<1>0. cx \in [Conns -> Context] /\ cx[d] \in Context /\ ~NoCx.dead
  BY DEF Inv, Typed, NoCx
<1>1. CASE Admission
  BY <1>1, AdmissionStep, NotKilled
<1>2. CASE Tick
  BY <1>2, TickStep, NotKilled
<1>3. ASSUME NEW c \in Conns, SessionStep(c)
      PROVE  KeepsPending(d)
  <2>1. CASE LeftBytes(c)
    <3>1. PICK due \in BOOLEAN, http \in BOOLEAN, req \in {"page", "override"}, bytes \in {1, 201, 1024} :
            on_left_bytes(c, http, req, bytes, due)
      BY <2>1 DEF LeftBytes
    <3>2. bytes \in Nat
      OBVIOUS
    <3>3. (cx'[c].dead => Checked(c)) /\ \A e \in Conns \ {c} : cx'[e] = cx[e]
      BY <3>1, <3>2, LeftBytesStep
    <3> QED
      BY <3>3, NotKilled DEF KeepsPending, Checked
  <2>2. CASE Crashes(c)
    <3>1. cx'[d] = NoCx
      BY <2>2 DEF Crashes, Crash
    <3> QED
      BY <1>0, <3>1, NotKilled
  <2>3. CASE Begin(c)
    <3>1. CASE d = c
      BY <2>3, <3>1 DEF Begin, Connect, KeepsPending, Alive
    <3>2. CASE d # c
      BY <1>0, <2>3, <3>2, NotKilled DEF Begin
    <3> QED
      BY <3>1, <3>2
  <2>4. CASE RightBytes(c)
    <3>1. (cx'[c].dead => Checked(c)) /\ \A e \in Conns \ {c} : cx'[e] = cx[e]
      BY <2>4, RightBytesStep DEF RightBytes
    <3> QED
      BY <3>1, NotKilled DEF KeepsPending, Checked
  <2>5. CASE on_starttls(c)
    <3>1. cx'[d].dead = cx[d].dead
      <4>1. PICK f : cx' = [cx EXCEPT ![c] = [[cx[c] EXCEPT !.com = "tls"] EXCEPT !.failed = f]]
        BY <2>5 DEF on_starttls
      <4> QED
        BY <1>0, <4>1 DEF Context
    <3> QED
      BY <3>1, NotKilled
  <2>6. CASE Flushes(c)
    <3>1. cx'[d].dead = cx[d].dead
      BY <1>0, <2>6 DEF Flushes, FlushLeft, Context
    <3> QED
      BY <3>1, NotKilled
  <2>7. CASE FlushRight(c)
    <3>1. cx'[d].dead = cx[d].dead
      BY <1>0, <2>7 DEF FlushRight, Context
    <3> QED
      BY <3>1, NotKilled
  <2>8. CASE PeerFails(c)
    BY <2>8, PeerFailsStep, NotKilled
  <2>9. CASE on_left_error(c)
    <3>1. /\ cx'[c].dead => px[c].kind.udp \/ cx[c].rq = {} \/ cx[c].hold = 0
          /\ \A e \in Conns \ {c} : cx'[e] = cx[e]
      BY <2>9, ErrorStep DEF on_left_error
    <3>2. cx[c].lerr
      BY <2>9 DEF on_left_error
    <3> QED
      BY <3>1, <3>2, NotKilled DEF KeepsPending
  <2>10. CASE on_right_error(c)
    <3>1. /\ cx'[c].dead => px[c].kind.udp \/ cx[c].lq = {} \/ cx[c].hold = 0
          /\ \A e \in Conns \ {c} : cx'[e] = cx[e]
      BY <2>10, ErrorStep DEF on_right_error
    <3>2. cx[c].rerr
      BY <2>10 DEF on_right_error
    <3> QED
      BY <3>1, <3>2, NotKilled DEF KeepsPending
  <2>11. CASE Errors(c)
    BY <2>11, NotKilled DEF Errors, ErrorOfDead
  <2>12. CASE Reap(c)
    <3>1. cx'[d] = NoCx \/ cx'[d] = cx[d]
      BY <1>0, <2>12 DEF Reap
    <3> QED
      BY <1>0, <3>1, NotKilled
  <2> QED
    BY <1>3, <2>1, <2>2, <2>3, <2>4, <2>5, <2>6, <2>7, <2>8, <2>9, <2>10, <2>11, <2>12 DEF SessionStep
<1> QED
  BY <1>1, <1>2, <1>3, NextCases

\* Nothing ends a session but its checks and the errors of its sides, and an error
\* never cuts off what is pending for the other side before the half-close time,
\* in any interleaving with bytes, writes and ticks.
THEOREM PendingIsKept == Spec => PendingKept
<1>1. Inv /\ [Next]_vars => [\A c \in Conns : KeepsPending(c)]_vars
  BY PendingStep
<1> QED
  BY <1>1, Invariance, PTL DEF Spec, PendingKept, KeepsPending
=============================================================================
