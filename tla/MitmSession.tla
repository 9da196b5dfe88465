---------------------------- MODULE MitmSession ----------------------------
(***************************************************************************)
(* A running session of the transparent proxy (MitmProxy, MitmHostCX):     *)
(* bytes from both sides, the authentication and certificate checks made   *)
(* on them, replacement pages, STARTTLS, errors and half-close.  Sessions  *)
(* come from ProxyMaker.                                                   *)
(*                                                                         *)
(*   cx    the two contexts of a session and the state of its checks       *)
(*   wl    MitmProxy::whitelist_verify: time left of certificate overrides *)
(*                                                                         *)
(* The event loop (baseProxy) and the contexts' buffers are a library: the *)
(* loop hands over bytes and errors of a session that is not dead, writes  *)
(* buffered data, and removes a dead session in its next cycle.            *)
(***************************************************************************)
EXTENDS ProxyMaker

CONSTANTS HalfTimeout,  \* MitmProxy::half_timeout, in ticks
          WlTimeout     \* failed_check_override_timeout, in ticks

ASSUME MitmAssumption ==
    /\ {HalfTimeout, WlTimeout} \subseteq Nat
    /\ \A k \in Kinds : k.tls \in {"plain", "tls", "starttls"} /\ k.cert \in {"ok", "allowed", "bad"}

VARIABLES cx, wl

vars == <<list, ident, lb, px, cx, wl>>

Keys == Hosts \X Targets

NotHeld == HalfTimeout + 1

\* The contexts of a slot without running session.  Of a write buffer the model
\* keeps what is in it: payload, payload behind a failed check, or a page.
NoCx == [com |-> "plain", type |-> "NONE", app |-> FALSE, handled |-> FALSE,
         lq |-> {}, rq |-> {}, lopen |-> FALSE, ropen |-> FALSE, caw |-> FALSE,
         lerr |-> FALSE, rerr |-> FALSE, dead |-> FALSE, hold |-> NotHeld,
         over200 |-> FALSE,    \* meter_read_bytes > 200, of the client's context
         over1k |-> FALSE,     \* meter_read_bytes or meter_write_bytes of it >= 1024
         failed |-> FALSE,     \* history: the certificate is bad, must be replaced, is not excepted
         leak |-> FALSE]       \* history: payload was written all the same

Init ==
    /\ PmInit
    /\ cx = [c \in Conns |-> NoCx]
    /\ wl = [k \in Keys |-> 0]

-----------------------------------------------------------------------------
(* Checks and replacements, as operators from one state of a session to the *)
(* next.                                                                    *)

whitelist_make_key_l4(p) == <<p.kind.client, p.target>>

\* Mutant: the page is written to the peer of the client's context.
WritePage_mut(x) ==
    [x EXCEPT !.rq = @ \cup {"page"}, !.caw = TRUE]

\* A page for the client, after which its connection is closed.
WritePage(x) ==
    [x EXCEPT !.lq = @ \cup {"page"}, !.caw = TRUE]

\* handle_requirements looks at the identity while the client's context has read
\* and written less than 1024 bytes, and then at every hundredth read or write:
\* the answers it can give.
AuthDue(x) == IF x.over1k THEN BOOLEAN ELSE {TRUE}

\* resolve_identity for the client's context, on the bytes of either side.
resolve_client(p) == resolve_identity(p, p.kind.client)

\* handle_authentication wants a page: the client is unknown, or known and barred.
AuthPage(p, x) ==
    /\ x.type = "HTTP"
    /\ IF resolve_client(p).resolved THEN p.block ELSE p.authenticate

\* handle_authentication: unknown clients get the login page; without HTTP the
\* session is killed once it should have been recognised, after 200 bytes.
handle_authentication(p, x) ==
    IF ~(p.authenticate \/ p.resolve) THEN [px |-> p, cx |-> x]
    ELSE LET q == resolve_client(p)
         IN  [px |-> q,
              cx |-> IF AuthPage(p, x) THEN WritePage(x)
                     ELSE IF p.authenticate /\ ~q.resolved /\ x.over200
                          THEN [x EXCEPT !.dead = TRUE] ELSE x]

\* What ends the process: a rule looked up beyond the list, a page for a request
\* that was never parsed, or a login page for a new token (none is cached for
\* the address) when the index denotes no rule with an auth profile.
AuthCrash(p, x, cached) ==
    /\ p.authenticate \/ p.resolve
    /\ \/ LookupThrows(p, p.kind.client)
       \/ /\ ~LookupThrows(p, p.kind.client) /\ AuthPage(p, x)
          /\ \/ ~x.app
             \/ ~resolve_client(p).resolved /\ ~cached /\ policy_prof_auth(p.policy) = <<>>

\* The server's certificate failed and the profile wants a page instead.
CertRefused(p, x) == x.com = "tls" /\ ~p.bypass /\ p.kind.cert = "bad" /\ p.tls.replace

is_white_listed(p) == wl[whitelist_make_key_l4(p)] > 0

\* handle_replacement_ssl: a request for the override page whitelists the
\* pair of client and target; every answer is a page.
handle_replacement_ssl(p, x, req) ==
    [cx |-> WritePage(x), grant |-> x.app /\ req = "override" /\ p.tls.override]

\* Mutant: a certificate that failed on an unknown protocol is let go.
handle_com_response_ssl_mut(p, x, req) ==
    LET refused == ~x.handled /\ CertRefused(p, x) /\ ~is_white_listed(p)
        y == [x EXCEPT !.handled = TRUE, !.failed = @ \/ refused]
        page == refused /\ x.type = "HTTP"
        r == handle_replacement_ssl(p, [y EXCEPT !.type = "HTTP"], req)
    IN  IF page THEN [cx |-> r.cx, redirected |-> TRUE, grant |-> r.grant]
        ELSE [cx |-> y, redirected |-> FALSE, grant |-> FALSE]

\* handle_com_response_ssl, done once per session: a refused certificate ends
\* in a page, or in the death of the session where HTTP cannot be assumed.
handle_com_response_ssl(p, x, req) ==
    LET refused == ~x.handled /\ CertRefused(p, x) /\ ~is_white_listed(p)
        y == [x EXCEPT !.handled = TRUE, !.failed = @ \/ refused]
        page == refused /\ (x.type = "HTTP" \/ p.kind.port = 443)
        r == handle_replacement_ssl(p, [y EXCEPT !.type = "HTTP"], req)
    IN  IF page THEN [cx |-> r.cx, redirected |-> TRUE, grant |-> r.grant]
        ELSE [cx |-> [y EXCEPT !.dead = @ \/ refused], redirected |-> FALSE, grant |-> FALSE]

\* handle_requirements: the certificate check has the last word on redirection.
handle_requirements(p, x, req, due) ==
    LET a == IF due THEN handle_authentication(p, x) ELSE [px |-> p, cx |-> x]
        s == handle_com_response_ssl(a.px, a.cx, req)
    IN  [px |-> a.px, cx |-> s.cx, redirected |-> s.redirected, grant |-> s.grant]

\* proxy(): bytes go to the other side unless a filter sinks them (content rules
\* take precedence over filters); after a redirection the other side is closed.
proxy(p, x, side, redirected) ==
    IF redirected THEN IF side = "L" THEN [x EXCEPT !.ropen = FALSE] ELSE [x EXCEPT !.lopen = FALSE]
    ELSE IF side \in p.sink /\ ~p.content THEN x
    ELSE LET b == {IF x.failed THEN "unchecked" ELSE "data"}
         IN  IF side = "L" THEN [x EXCEPT !.rq = @ \cup b] ELSE [x EXCEPT !.lq = @ \cup b]

-----------------------------------------------------------------------------
(* The event loop and the two peers.                                        *)

Alive(c) == px[c].stage = "running" /\ ~cx[c].dead

\* connect() hands the session over; its contexts are new.
Begin(c) ==
    /\ Connect(c)
    /\ cx' = [cx EXCEPT ![c] = [NoCx EXCEPT !.com = IF px[c].kind.tls = "tls" THEN "tls" ELSE "plain",
                                            !.lopen = TRUE, !.ropen = TRUE]]
    /\ UNCHANGED wl

\* The client's bytes as the HTTP engine leaves them: recognised, which takes
\* the method its signature asks for, or not.
Seen(x, http) == [x EXCEPT !.type = IF http THEN "HTTP" ELSE @, !.app = @ \/ http]

\* The meters of the client's context, after a read that brings it to so many bytes.
Metered(x, bytes) ==
    [x EXCEPT !.over200 = @ \/ bytes > 200, !.over1k = @ \/ bytes >= 1024]

\* Bytes of one side, checked and passed on (on_left_bytes, on_right_bytes).
Bytes(c, x, side, req, due) ==
    LET h == handle_requirements(px[c], x, req, due)
        k == whitelist_make_key_l4(px[c])
    IN  /\ due \in AuthDue(x)
        /\ ~(due /\ \A cached \in BOOLEAN : AuthCrash(px[c], x, cached))
        /\ px' = [px EXCEPT ![c] = h.px]
        /\ cx' = [cx EXCEPT ![c] = proxy(h.px, h.cx, side, h.redirected)]
        \* an override given, or one whose timeout is reset by its use
        /\ \/ wl' = [wl EXCEPT ![k] = IF h.grant THEN WlTimeout ELSE @]
           \/ ~cx[c].handled /\ wl[k] > 0 /\ CertRefused(h.px, x) /\ wl' = [wl EXCEPT ![k] = WlTimeout]
        /\ UNCHANGED <<list, ident, lb>>

on_left_bytes(c, http, req, bytes, due) ==
    /\ Alive(c) /\ cx[c].lopen /\ ~cx[c].lerr
    /\ Bytes(c, Seen(Metered(cx[c], bytes), http), "L", req, due)

on_right_bytes(c, due) ==
    /\ Alive(c) /\ cx[c].ropen /\ ~cx[c].rerr
    /\ Bytes(c, cx[c], "R", "page", due)

\* The hosts of the contexts whose error the loop may still report.
FailedHosts(c) == (IF cx[c].lerr THEN {px[c].kind.client} ELSE {})
                    \cup (IF cx[c].rerr THEN {px[c].target} ELSE {})

\* The process ends and starts again with the same policy; the identities are
\* in shared memory, sessions and overrides are gone.
Crash(c, http, cached) ==
    /\ \/ Alive(c) /\ cx[c].lopen /\ ~cx[c].lerr /\ AuthCrash(px[c], Seen(cx[c], http), cached)
       \/ Alive(c) /\ cx[c].ropen /\ ~cx[c].rerr /\ AuthCrash(px[c], cx[c], cached)
       \/ /\ px[c].stage = "routed" /\ (px[c].authenticate \/ px[c].resolve)
          /\ LookupThrows(px[c], px[c].kind.client)
       \/ px[c].stage = "grouped" /\ policy_prof_auth(px[c].policy) = <<>>
       \/ /\ px[c].stage = "running" /\ cx[c].dead /\ px[c].resolve
          /\ \E h \in FailedHosts(c) : LookupThrows(px[c], h)
    /\ px' = [d \in Conns |-> NoProxy]
    /\ cx' = [d \in Conns |-> NoCx]
    /\ wl' = [k \in Keys |-> 0]
    /\ UNCHANGED <<list, ident, lb>>

\* on_starttls: both sides become TLS with the TLS profile the index denotes
\* now; the check of the certificate is not armed again.
on_starttls(c) ==
    LET p == px[c]
        q == [p EXCEPT !.tls = IF p.policy < Len(list) THEN list[p.policy + 1].tls ELSE NoTls]
        x == [cx[c] EXCEPT !.com = "tls"]
    IN  /\ Alive(c) /\ p.kind.tls = "starttls" /\ cx[c].com = "plain" /\ cx[c].lopen /\ cx[c].ropen
        /\ px' = [px EXCEPT ![c] = q]
        /\ cx' = [cx EXCEPT ![c] = [x EXCEPT !.failed = CertRefused(q, x) /\ ~is_white_listed(q)]]
        /\ UNCHANGED <<list, ident, lb, wl>>

\* Buffers are written while the session lives and the socket is open; a
\* context that is to close after its page does so when its buffer is empty.
FlushLeft(c, over1k) ==
    LET x == cx[c]
    IN  /\ Alive(c) /\ x.lopen /\ ~x.lerr /\ x.lq # {}
        /\ cx' = [cx EXCEPT ![c] = [x EXCEPT !.lq = {}, !.leak = @ \/ "unchecked" \in x.lq,
                                             !.lopen = ~x.caw, !.lerr = x.caw, !.over1k = @ \/ over1k]]
        /\ UNCHANGED <<list, ident, lb, px, wl>>

FlushRight(c) ==
    /\ Alive(c) /\ cx[c].ropen /\ ~cx[c].rerr /\ cx[c].rq # {}
    /\ cx' = [cx EXCEPT ![c].rq = {}, ![c].leak = @ \/ "unchecked" \in cx[c].rq]
    /\ UNCHANGED <<list, ident, lb, px, wl>>

PeerFails(c) ==
    /\ Alive(c)
    /\ \/ cx[c].lopen /\ ~cx[c].lerr /\ cx' = [cx EXCEPT ![c].lerr = TRUE]
       \/ cx[c].ropen /\ ~cx[c].rerr /\ cx' = [cx EXCEPT ![c].rerr = TRUE]
    /\ UNCHANGED <<list, ident, lb, px, wl>>

\* Mutant: the timer is started and never looked at.
on_half_close_mut(x) == IF x.hold = NotHeld THEN [x EXCEPT !.hold = HalfTimeout] ELSE x

\* on_half_close: start the timer, or see whether it has run out.
on_half_close(x) ==
    IF x.hold = NotHeld THEN [x EXCEPT !.hold = HalfTimeout]
    ELSE IF x.hold > 0 THEN x ELSE [x EXCEPT !.dead = TRUE]

\* Mutant: nobody looks at what is still to be sent.
on_error_mut(c, pending) == cx' = [cx EXCEPT ![c].dead = TRUE]

\* on_error: a side failed.  What the other side has still to be sent is held
\* for a while, except over UDP.
on_error(c, pending) ==
    cx' = [cx EXCEPT ![c] = IF ~px[c].kind.udp /\ pending THEN on_half_close(@)
                            ELSE [@ EXCEPT !.dead = TRUE]]

on_left_error(c) ==
    /\ Alive(c) /\ cx[c].lerr
    /\ on_error(c, cx[c].rq # {})
    /\ UNCHANGED <<list, ident, lb, px, wl>>

on_right_error(c) ==
    /\ Alive(c) /\ cx[c].rerr
    /\ on_error(c, cx[c].lq # {})
    /\ UNCHANGED <<list, ident, lb, px, wl>>

\* on_error of a session that was dead before: once more it is asked for its
\* identity, by the host of the context that failed.
ErrorOfDead(c, h) ==
    /\ px[c].stage = "running" /\ cx[c].dead /\ px[c].resolve
    /\ ~LookupThrows(px[c], h)
    /\ px' = [px EXCEPT ![c] = resolve_identity(px[c], h)]
    /\ UNCHANGED <<list, ident, lb, cx, wl>>

\* The acceptor removes a dead session.
Reap(c) ==
    /\ px[c].stage = "running" /\ cx[c].dead
    /\ px' = [px EXCEPT ![c] = NoProxy]
    /\ cx' = [cx EXCEPT ![c] = NoCx]
    /\ UNCHANGED <<list, ident, lb, wl>>

\* Time passes for half-closed sessions and for overrides.
Tick ==
    /\ cx' = [c \in Conns |-> IF cx[c].hold \in 1..HalfTimeout THEN [cx[c] EXCEPT !.hold = @ - 1] ELSE cx[c]]
    /\ wl' = [k \in Keys |-> IF wl[k] > 0 THEN wl[k] - 1 ELSE 0]
    /\ UNCHANGED <<list, ident, lb, px>>

Admission ==
    /\ \/ Reload
       \/ \E h \in Hosts : Logout(h) \/ \E g \in SUBSET Groups : Login(h, g)
       \/ \E c \in Conns :
            \/ \E k \in Kinds : Make(c, k)
            \/ Policy(c) \/ Route(c) \/ Dnat(c) \/ Snat(c)
            \/ Resolve(c) \/ FindProfile(c) \/ FindGroups(c) \/ CheckGroups(c)
    /\ UNCHANGED <<cx, wl>>

Next ==
    \/ Admission
    \/ Tick
    \/ \E c \in Conns :
        \/ \E due \in BOOLEAN :
            \/ on_right_bytes(c, due)
            \/ \E http \in BOOLEAN, req \in {"page", "override"}, bytes \in {1, 201, 1024} :
                    on_left_bytes(c, http, req, bytes, due)
        \/ \E http, cached \in BOOLEAN : Crash(c, http, cached)
        \/ \E over1k \in BOOLEAN : FlushLeft(c, over1k)
        \/ \E h \in FailedHosts(c) : ErrorOfDead(c, h)
        \/ Begin(c) \/ on_starttls(c) \/ FlushRight(c) \/ PeerFails(c)
        \/ on_left_error(c) \/ on_right_error(c) \/ Reap(c)

\* The loop reports an error until the session is dead, and time passes.
Fairness ==
    /\ WF_vars(Tick)
    /\ \A c \in Conns : WF_vars(on_left_error(c)) /\ WF_vars(on_right_error(c))

Spec == Init /\ [][Next]_vars /\ Fairness
-----------------------------------------------------------------------------
(* Properties                                                              *)

TypeOK ==
    /\ list \in Policies
    /\ ident \in [Hosts -> {NoId} \cup SUBSET Groups]
    /\ \A c \in Conns :
        /\ px[c].stage \in Stages /\ px[c].kind \in Kinds /\ px[c].tls \in TlsProfile
        /\ px[c].policy \in {NoPolicy, POLICY_IMPLICIT_PASS} \cup 0..(POLICY_IMPLICIT_PASS - 1)
        /\ cx[c].lq \subseteq {"data", "unchecked", "page"} /\ cx[c].rq \subseteq {"data", "unchecked"}
        /\ cx[c].hold \in 0..NotHeld
    /\ wl \in [Keys -> 0..WlTimeout]

\* A connection no rule matches is never connected to its target: policy()
\* lets it pass with index -1, and only the failing lookup in setup_snat
\* stops it (proxymaker.cpp).
NoRuleNoConnection ==
    \A c \in Conns : px[c].stage \in {"ready", "running"} => px[c].rule # <<>> \/ px[c].kind.magic

\* However often the policy is reloaded between the five lookups by index, a
\* session is connected with the NAT of a rule its index denoted during its
\* admission; and one that needs authentication, where no login page can be
\* shown, has a user in a group such a rule names, unless the index denoted no
\* auth profile for a while.  (Without reload that rule is the one that matched.)
AdmittedAsDenoted ==
    \A c \in Conns :
        (px[c].stage = "ready" /\ px[c].rule # <<>>) =>
            LET p == px[c]
                r == p.rule[1]
            IN  /\ \E d \in p.denoted : d # <<>> /\ p.nonlocal = d[1].nonat
                /\ (r.pass /\ r.auth # <<>> /\ r.auth[1].authenticate /\ ~is_replaceable(p.kind.port)) =>
                        \E d \in p.denoted :
                            \/ d = <<>> \/ d[1].auth = <<>>
                            \/ p.groups # NoId /\ find_auth_subprofile(d[1].auth, p.groups) # <<>>

\* "certainly there is NO ... WAY to letting it go": when the certificate of a
\* TLS session failed, must be replaced by a page and is not whitelisted,
\* nothing but the page is written to either side, however many more bytes come.
TlsFromStartChecked ==
    \A c \in Conns : cx[c].leak => px[c].kind.tls # "tls"

\* The same for sessions that become TLS by STARTTLS.
UnverifiedNotRelayed == \A c \in Conns : ~cx[c].leak

\* A rule that denies ("Connection %s denied") is not followed by a connection.
DeniedNotConnected ==
    \A c \in Conns : (px[c].stage = "running" /\ px[c].rule # <<>>) => px[c].rule[1].pass

\* A session ends for a cause only: its certificate check fails, its client
\* has to authenticate and did not within 200 bytes, or a side has failed; then
\* what is still to be sent to the other side of a TCP session is kept for the
\* half-close time.
PendingKept ==
    [][\A c \in Conns :
        (Alive(c) /\ cx'[c].dead) =>
            \/ ~cx[c].handled /\ cx'[c].failed
            \/ px'[c].authenticate /\ ~px'[c].resolved /\ cx'[c].over200
            \/ cx[c].lerr /\ (px[c].kind.udp \/ cx[c].hold = 0 \/ cx[c].rq = {})
            \/ cx[c].rerr /\ (px[c].kind.udp \/ cx[c].hold = 0 \/ cx[c].lq = {})]_vars

\* A session one of whose sides has failed is dead in the end, whatever is
\* still buffered and whatever the other side goes on sending.
ErrorEnds ==
    \A c \in Conns : (Alive(c) /\ (cx[c].lerr \/ cx[c].rerr)) ~> ~Alive(c)
=============================================================================
