----------------------------- MODULE SocksProxy -----------------------------
(***************************************************************************)
(* The SOCKS proxy: from the client's hello to the moment the session is   *)
(* handed off to a connected pair.  Source: proxy/socks5/sockshostcx.cpp   *)
(* (socksServerCX, the protocol), proxy/socks5/socksproxy.cpp (SocksProxy, *)
(* policy and handoff), async/asyncdns.hpp, async/asyncsocket.hpp.         *)
(*                                                                         *)
(* One worker thread serves a connection, but the policy list is changed   *)
(* by operators (PolicyDb) and the table of UDP associations is shared by  *)
(* all workers, so every critical section is an action.  The event loop    *)
(* (baseProxy, a library) is modelled from how this code relies on it: it  *)
(* delivers readable data, calls pre_write before writing, passes on       *)
(* new_message(), closes a context that reports an error, and destroys     *)
(* proxies marked dead.                                                    *)
(***************************************************************************)
EXTENDS PolicyRules, SequencesExt, FiniteSets

CONSTANTS Tcp, Udp,       \* connections accepted by MitmSocksProxy / MitmSocksUdpProxy
          Versions,       \* protocol versions the clients speak, 0 for an unknown one
          Commands,       \* commands they send, besides UDP_ASSOCIATE
          Targets,        \* destination addresses
          Keys,           \* "host:port" of UDP clients
          KeysOf,         \* [Tcp -> SUBSET Keys]: the keys a client's host can ask for
          KeyOf,          \* [Udp -> Keys]: where the datagrams come from
          Rules, Lists,   \* rules, and the policy lists operators load
          InitList,
          Ipv6,           \* connections carried by IPv6
          prefer_ipv6, mixed_ip_versions,
          None,
          MaxReloads      \* bound: policy changes in one behaviour

Cx == Tcp \cup Udp

ASSUME SocksAssumption ==
    /\ Tcp \cap Udp = {}
    /\ Versions \subseteq {0, 4, 5} /\ Commands \subseteq {"CONNECT", "BIND", "UDP_ASSOCIATE"}
    /\ KeysOf \in [Tcp -> SUBSET Keys]
    /\ KeyOf \in [Udp -> Keys]
    /\ \A r \in Rules : r.disabled \in BOOLEAN /\ r.pass \in BOOLEAN /\ r.auth \in BOOLEAN
    /\ Lists \subseteq Seq(Rules) /\ InitList \in Lists
    /\ prefer_ipv6 \in BOOLEAN /\ mixed_ip_versions \in BOOLEAN
    /\ None \notin Cx /\ None \notin Keys /\ None \notin Targets
    /\ "fqdn" \notin Targets /\ None \notin {"fqdn", "A", "AAAA", "ACCEPT", "REJECT"}
    /\ MaxReloads \in Nat

VARIABLES cx,         \* the socksServerCX of each connection
          px,         \* its SocksProxy
          object,     \* the socksServerCX object exists
          my_assoc,   \* UDP::my_assoc
          clients,    \* UDP::associations::clients, shared
          list,       \* CfgFactory::db_policy_list, shared
          reloads     \* how often list has changed

vars == <<cx, px, object, my_assoc, clients, list, reloads>>

socks5_state ==
    {"INIT", "WAIT_REQUEST", "REQ_RECEIVED", "WAIT_POLICY", "REQRES_SENT",
     "DNS_QUERY_SENT", "DNS_RESP_RECV", "DNS_RESP_FAILED", "HANDOFF", "ZOMBIE"}
socks5_request_error ==
    {"NONE", "UNSUPPORTED_VERSION", "UNSUPPORTED_ATYPE", "UNSUPPORTED_METHOD",
     "MALFORMED_DATA", "UNAUTHORIZED"}
socks5_cmd == {"CONNECT", "BIND", "UDP_ASSOCIATE"}
socks5_policy == {"PENDING", "ACCEPT", "REJECT"}
DNS_Record_Type == {"A", "AAAA"}

\* What the address field of a request turns out to be.
Addresses == Targets \cup {"fqdn", "unsupported", "malformed"}

SocksCx ==
    [state_ : socks5_state, error : BOOLEAN, socks_error_ : socks5_request_error,
     version : {0, 4, 5}, req_cmd : socks5_cmd \cup {None},
     verdict_ : socks5_policy,
     dst : Targets \cup {None},                  \* com()->nonlocal_dst_host()
     my_allowed_target : Targets \cup {"fqdn", None},
     tested : SUBSET DNS_Record_Type,            \* tested_dns_a, tested_dns_aaaa
     query : DNS_Record_Type \cup {None, "badfd"},  \* async_dns_query
     asked : Seq(DNS_Record_Type),               \* history: queries sent
     reply : {None, "ACCEPT", "REJECT"},         \* in writebuf()
     answered : {None, "ACCEPT", "REJECT"}]      \* history: what the client was told

\* Where socks5_handoff is; "thrown" is db_policy_list.at() out of range.
Steps == {"no", "check", "nat", "left", "right", "done", "thrown"}

Proxy ==
    [conn : {"none", "open", "dead", "gone"}, step : Steps,
     matched_policy : Int,
     seen : Nat,                                 \* history: reloads when it was matched
     applied : Seq(Int),                         \* history: what policy_apply used
     right : Targets \cup {None},                \* where the right side is connected to
     sent : SUBSET (Targets \cup {"fqdn"})]      \* history: datagrams passed on

NewCx ==
    [state_ |-> "INIT", error |-> FALSE, socks_error_ |-> "NONE", version |-> 0,
     req_cmd |-> None, verdict_ |-> "PENDING", dst |-> None, my_allowed_target |-> None,
     tested |-> {}, query |-> None, asked |-> <<>>, reply |-> None, answered |-> None]

NewProxy ==
    [conn |-> "none", step |-> "no", matched_policy |-> NoPolicy, seen |-> 0,
     applied |-> <<>>, right |-> None, sent |-> {}]

Init ==
    /\ cx = [c \in Cx |-> NewCx]
    /\ px = [c \in Cx |-> NewProxy]
    /\ object = [c \in Cx |-> FALSE]
    /\ my_assoc = [c \in Cx |-> None]
    /\ clients = [k \in Keys |-> None]
    /\ list = InitList
    /\ reloads = 0

Open(c) == px[c].conn = "open" /\ object[c]

Shared == <<my_assoc, clients, list, reloads>>

\* on_left_new: a SocksProxy with a fresh socksServerCX on its left.
on_left_new(c) ==
    /\ px[c].conn = "none"
    /\ px' = [px EXCEPT ![c].conn = "open"]
    /\ object' = [object EXCEPT ![c] = TRUE]
    /\ UNCHANGED <<cx, Shared>>

-----------------------------------------------------------------------------
(* socksServerCX: reading requests                                         *)

\* The context gives up: the event loop will close it.
Fails(c, v, cmd, why) ==
    cx' = [cx EXCEPT ![c].version = v, ![c].req_cmd = cmd, ![c].error = TRUE,
                     ![c].socks_error_ = why]

\* process_socks_hello_tcp, SOCKS5 or an unknown version; SOCKS4 goes
\* straight to process_socks_request.
process_socks_hello_tcp(c, v) ==
    /\ c \in Tcp /\ Open(c) /\ cx[c].state_ = "INIT"
    /\ cx' = IF v = 5
             THEN [cx EXCEPT ![c].version = 5, ![c].state_ = "WAIT_REQUEST"]
             ELSE [cx EXCEPT ![c].error = TRUE]
    /\ UNCHANGED <<px, object, Shared>>

\* The request may be read: after the hello, or at once for SOCKS4.
Readable(c, v) ==
    /\ c \in Tcp /\ Open(c)
    /\ cx[c].state_ = "WAIT_REQUEST" \/ (cx[c].state_ = "INIT" /\ v = 4)

\* setup_target and wait_policy: the pair for destination t is prepared.
setup_target(rec, t) == [rec EXCEPT !.dst = t, !.state_ = "WAIT_POLICY"]

\* setup_dns_async: every result of send_dns_request but 0 counts as a socket,
\* also -1, -2 and -3.  Descriptor 0, free in a process without stdin, has
\* carried the query too, but is taken for a failure.
setup_dns_async(rec, type, fd) ==
    IF fd = "zero"
    THEN [rec EXCEPT !.error = TRUE, !.asked = Append(@, type)]
    ELSE [rec EXCEPT !.tested = @ \cup {type}, !.state_ = "DNS_QUERY_SENT",
                     !.query = IF fd = "ok" THEN type ELSE "badfd",
                     !.asked = Append(@, type)]

\* handle5_connect_fqdn.  fill_w_dns_cache collects into a copy of target_ips,
\* so the query is always sent.
FirstQuery(c) == IF c \in Ipv6 \/ prefer_ipv6 THEN "AAAA" ELSE "A"

\* handle5_connect and handle4_connect, well-formed request.
Connect(c, v, cmd, a, fd) ==
    /\ Readable(c, v)
    /\ \/ v = 5 /\ cmd = "CONNECT" /\ a \in Targets \cup {"fqdn"}
       \/ v = 4 /\ a \in Targets
    /\ LET rec == [cx[c] EXCEPT !.version = v, !.req_cmd = cmd, !.socks_error_ = "NONE",
                                !.state_ = "REQ_RECEIVED"]
       IN  cx' = [cx EXCEPT ![c] = IF a = "fqdn" THEN setup_dns_async(rec, FirstQuery(c), fd)
                                   ELSE setup_target(rec, a)]
    /\ UNCHANGED <<px, object, Shared>>

\* A SOCKS5 request of less than 10 bytes: -1 is returned, nothing consumed, and
\* the request is read again with the next data.
ShortRequest(c, cmd) ==
    /\ Readable(c, 5)
    /\ cx' = [cx EXCEPT ![c].version = 5, ![c].req_cmd = cmd, ![c].socks_error_ = "NONE"]
    /\ UNCHANGED <<px, object, Shared>>

\* socks5_parse_request's verdict on an address.
ParseError(a) ==
    CASE a = "unsupported" -> "UNSUPPORTED_ATYPE"
      [] a = "malformed"   -> "MALFORMED_DATA"
      [] OTHER             -> "NONE"

\* UDP_ASSOCIATE parses and waits for the policy whatever the parser says.
UdpAssociate(c, a) ==
    /\ Readable(c, 5)
    /\ cx' = [cx EXCEPT ![c].version = 5, ![c].req_cmd = "UDP_ASSOCIATE",
                        ![c].socks_error_ = ParseError(a),
                        ![c].error = @ \/ ParseError(a) # "NONE",
                        ![c].state_ = "WAIT_POLICY"]
    /\ UNCHANGED <<px, object, Shared>>

\* process_socks_request, the remaining outcomes: a wrong version, a command
\* it does not know, an address it cannot use.
BadRequest(c, v, cmd, a) ==
    /\ Readable(c, v)
    /\ \/ /\ v = 5 /\ cmd = "CONNECT" /\ ParseError(a) # "NONE"
          /\ cx' = [cx EXCEPT ![c].version = v, ![c].req_cmd = cmd, ![c].error = TRUE,
                              ![c].socks_error_ = ParseError(a),
                              ![c].state_ = IF a = "malformed" THEN "REQ_RECEIVED" ELSE @]
       \/ v = 5 /\ cmd = "BIND" /\ Fails(c, v, cmd, "UNSUPPORTED_METHOD")
       \/ v = 4 /\ a = "malformed" /\ Fails(c, v, cmd, "MALFORMED_DATA")
       \/ v = 0 /\ Fails(c, v, cmd, "UNSUPPORTED_VERSION")
    /\ UNCHANGED <<px, object, Shared>>

-----------------------------------------------------------------------------
(* socksServerCX: UDP                                                      *)

\* Mutant: a socket may switch targets.
make_authorized_mut(c, a) == TRUE

\* UDP::make_authorized: the first target of a socket is the only one.
make_authorized(c, a) == cx[c].my_allowed_target \in {None, a}

\* socks5_parse_request stores an address, but not a name, before it authorizes.
Parsed(c, a) == IF a \in Targets THEN a ELSE cx[c].dst

Associated(c) == clients[KeyOf[c]] # None

\* process_socks_udp_request with a usable address, in state INIT.  The client
\* need not be associated for the target to be recorded; an unassociated one is
\* left in REQ_RECEIVED without an error.  While the pair is connected the
\* payload goes to the right side.
Datagram(c, a, fd) ==
    /\ c \in Udp /\ Open(c) /\ cx[c].state_ = "INIT"
    /\ make_authorized(c, a)
    /\ LET rec == [cx[c] EXCEPT !.req_cmd = "CONNECT", !.my_allowed_target = a,
                                !.state_ = "REQ_RECEIVED", !.dst = Parsed(c, a)]
       IN  cx' = [cx EXCEPT ![c] = IF ~Associated(c) THEN rec
                                   ELSE IF a = "fqdn" THEN setup_dns_async(rec, FirstQuery(c), fd)
                                   ELSE setup_target(rec, a)]
    /\ px' = [px EXCEPT ![c].sent = IF Associated(c) /\ px[c].right # None THEN @ \cup {a} ELSE @]
    /\ UNCHANGED <<object, Shared>>

\* authorize_if_udp: a datagram for another target ends this session and the
\* TCP connection that holds the association.
UnauthorizedDatagram(c, a) ==
    /\ c \in Udp /\ Open(c) /\ cx[c].state_ = "INIT"
    /\ ~make_authorized(c, a)
    /\ cx' = [d \in Cx |->
                IF d = c THEN [cx[d] EXCEPT !.req_cmd = "CONNECT", !.state_ = "REQ_RECEIVED",
                                            !.dst = Parsed(c, a), !.error = TRUE]
                ELSE IF d = clients[KeyOf[c]] THEN [cx[d] EXCEPT !.error = TRUE]
                ELSE cx[d]]
    /\ UNCHANGED <<px, object, Shared>>

\* process_out: data from the right side get a SOCKS header and the context
\* waits for the next datagram.
process_out(c) ==
    /\ c \in Udp /\ Open(c) /\ px[c].right # None
    /\ cx[c].state_ \notin {"INIT", "REQ_RECEIVED"}
    /\ cx' = [cx EXCEPT ![c].state_ = "INIT", ![c].asked = <<>>]
    /\ UNCHANGED <<px, object, Shared>>

-----------------------------------------------------------------------------
(* socksServerCX: asynchronous DNS                                         *)

\* AsyncSocket::handle_event untaps the query, then calls back.
Answers(c) == Open(c) /\ cx[c].query \in DNS_Record_Type

\* dns_response_callback with an address (choose_server_ip picks any).
DnsResolved(c, t) ==
    /\ Answers(c)
    /\ cx' = [cx EXCEPT ![c] = setup_target([@ EXCEPT !.query = None], t)]
    /\ UNCHANGED <<px, object, Shared>>

\* dns_response_callback without a usable address.
DnsEmpty(c) ==
    /\ Answers(c)
    /\ cx' = [cx EXCEPT ![c].query = None, ![c].state_ = "DNS_RESP_FAILED"]
    /\ UNCHANGED <<px, object, Shared>>

\* The query's socket is idle too long.
DnsTimeout(c) ==
    /\ Answers(c)
    /\ cx' = [cx EXCEPT ![c].query = None, ![c].state_ = "DNS_RESP_RECV", ![c].error = TRUE]
    /\ UNCHANGED <<px, object, Shared>>

\* Mutant: the other record type is asked for whatever was asked before.
NextQuery_mut(c) == {"A"}

\* The record type pre_write tries next: AAAA first, each one once.
NextQuery(c) ==
    IF "AAAA" \notin cx[c].tested THEN {"AAAA"} ELSE {"A"} \ cx[c].tested

\* pre_write in DNS_RESP_FAILED; it marks the type as tested before it asks.
\* With both types tested it does nothing.
pre_write_dns(c, fd) ==
    /\ Open(c) /\ cx[c].state_ = "DNS_RESP_FAILED"
    /\ \/ ~mixed_ip_versions /\ cx' = [cx EXCEPT ![c].error = TRUE]
       \/ /\ mixed_ip_versions
          /\ \E type \in NextQuery(c) :
                cx' = [cx EXCEPT ![c] =
                         setup_dns_async([cx[c] EXCEPT !.tested = @ \cup {type}], type, fd)]
    /\ UNCHANGED <<px, object, Shared>>

-----------------------------------------------------------------------------
(* SocksProxy::on_left_message: policy                                     *)

\* The event loop calls on_left_message.
new_message(c) ==
    \/ cx[c].state_ = "WAIT_POLICY" /\ cx[c].verdict_ = "PENDING"
    \/ cx[c].state_ = "HANDOFF"

\* on_left_message gets to the policy check.
PolicyDue(c) ==
    /\ Open(c) /\ new_message(c)
    /\ cx[c].socks_error_ = "NONE" /\ cx[c].state_ = "WAIT_POLICY"

\* socksServerCX::verdict with process_socks_reply: the reply is in writebuf.
verdict(rec, v) == [rec EXCEPT !.verdict_ = v, !.reply = v, !.state_ = "REQRES_SENT"]

\* Mutant: the implicit deny leaves the verdict open.
AsVerdict_mut(action) ==
    IF action = POLICY_ACTION_PASS THEN "ACCEPT"
    ELSE IF action = POLICY_ACTION_DENY THEN "REJECT" ELSE "PENDING"

\* policy_action's result as the bool on_left_message keeps it in: -1 is true.
AsVerdict(action) == IF action # POLICY_ACTION_DENY THEN "ACCEPT" ELSE "REJECT"

\* A request the parser refused: this is tested first, so once its reply is
\* flushed and the state is HANDOFF the same request is refused again, until the
\* event loop closes the context.
RefuseRequest(c) ==
    /\ Open(c) /\ new_message(c) /\ cx[c].socks_error_ # "NONE"
    /\ cx' = [cx EXCEPT ![c] = IF cx[c].socks_error_ = "MALFORMED_DATA"
                               THEN [@ EXCEPT !.error = TRUE]
                               ELSE verdict(@, "REJECT")]
    /\ UNCHANGED <<px, object, Shared>>

\* CONNECT: match and decide under CfgFactory::lock().  A UDP session gets no
\* reply and proceeds to the handoff at once.
PolicyCheck(c) ==
    /\ PolicyDue(c) /\ cx[c].req_cmd = "CONNECT"
    /\ LET m == policy_match(list, cx[c].dst)
           v == AsVerdict(policy_action(list, m))
       IN  /\ px' = [px EXCEPT ![c].matched_policy = m, ![c].seen = reloads,
                               ![c].step = IF c \in Udp THEN "check" ELSE @]
           /\ cx' = [cx EXCEPT ![c] = IF c \in Udp
                                      THEN [@ EXCEPT !.verdict_ = v, !.state_ = "ZOMBIE"]
                                      ELSE verdict(@, v)]
    /\ UNCHANGED <<object, Shared>>

\* A SOCKS4 request with another command: rejected without a policy.
RejectCommand(c) ==
    /\ PolicyDue(c) /\ cx[c].req_cmd = "BIND"
    /\ cx' = [cx EXCEPT ![c] = verdict(@, "REJECT")]
    /\ UNCHANGED <<px, object, Shared>>

\* std::map::emplace keeps the entry that is there.
Emplace(k, c) == [clients EXCEPT ![k] = IF @ = None THEN c ELSE @]

\* UDP_ASSOCIATE: always accepted; the key is the client's host and the port
\* it asked for.
AcceptAssociate(c, k) ==
    /\ PolicyDue(c) /\ cx[c].req_cmd = "UDP_ASSOCIATE"
    /\ clients' = Emplace(k, c)
    /\ my_assoc' = [my_assoc EXCEPT ![c] = k]
    /\ cx' = [cx EXCEPT ![c] = verdict(@, "ACCEPT")]
    /\ UNCHANGED <<px, object, list, reloads>>

\* The reply leaves writebuf.
Flush(c) ==
    /\ Open(c) /\ cx[c].reply # None
    /\ cx' = [cx EXCEPT ![c].reply = None, ![c].answered = cx[c].reply]
    /\ UNCHANGED <<px, object, Shared>>

\* Mutant: the handoff does not wait for the reply to be written.
pre_write_mut(c) ==
    /\ Open(c) /\ cx[c].state_ = "REQRES_SENT"
    /\ cx' = [cx EXCEPT ![c].state_ = "HANDOFF"]
    /\ UNCHANGED <<px, object, Shared>>

\* pre_write in REQRES_SENT: all flushed.
pre_write(c) ==
    /\ Open(c) /\ cx[c].state_ = "REQRES_SENT" /\ cx[c].reply = None
    /\ cx' = [cx EXCEPT ![c].state_ = "HANDOFF"]
    /\ UNCHANGED <<px, object, Shared>>

\* Mutant: the handoff message is swallowed.
HandoffMessage_mut(c) ==
    /\ Open(c) /\ cx[c].state_ = "HANDOFF" /\ cx[c].socks_error_ = "NONE"
    /\ cx' = [cx EXCEPT ![c].state_ = "ZOMBIE"]
    /\ UNCHANGED <<px, object, Shared>>

\* on_left_message in HANDOFF for a request without error, whatever the verdict.
HandoffMessage(c) ==
    /\ Open(c) /\ cx[c].state_ = "HANDOFF" /\ cx[c].socks_error_ = "NONE"
    /\ cx' = [cx EXCEPT ![c].state_ = "ZOMBIE"]
    /\ px' = [px EXCEPT ![c].step = "check"]
    /\ UNCHANGED <<object, Shared>>

-----------------------------------------------------------------------------
(* SocksProxy::socks5_handoff, socks5_handoff_udp                          *)

\* Mutant: the destructor leaves the table alone.
Erase_mut(c) == clients

\* The destructor of socksServerCX takes its key out of the table, whoever
\* the entry belongs to.
Erase(c) == [k \in Keys |-> IF object[c] /\ my_assoc[c] = k THEN None ELSE clients[k]]

Dies(c) == px' = [px EXCEPT ![c].conn = "dead"]

\* TCP: the socksServerCX is deleted, a plain context takes its socket over.
\* UDP: it stays on the left.
HandoffDelete(c) ==
    /\ object' = [object EXCEPT ![c] = c \in Udp]
    /\ clients' = IF c \in Udp THEN clients ELSE Erase(c)

\* Mutant: only the upper bound of the index is checked.
HandoffCheck_mut(c) ==
    /\ px[c].conn = "open" /\ px[c].step = "check"
    /\ IF px[c].matched_policy >= Len(list)
       THEN Dies(c) /\ UNCHANGED <<object, clients>>
       ELSE px' = [px EXCEPT ![c].step = "nat"] /\ HandoffDelete(c)
    /\ UNCHANGED <<cx, my_assoc, list, reloads>>

\* The index is compared with the length of the list without the lock.
HandoffCheck(c) ==
    /\ px[c].conn = "open" /\ px[c].step = "check"
    /\ IF px[c].matched_policy < 0 \/ px[c].matched_policy >= Len(list)
       THEN Dies(c) /\ UNCHANGED <<object, clients>>
       ELSE px' = [px EXCEPT ![c].step = "nat"] /\ HandoffDelete(c)
    /\ UNCHANGED <<cx, my_assoc, list, reloads>>

\* The client's address cannot be read from the socket any more.
HandoffNoSource(c) ==
    /\ c \in Tcp /\ px[c].conn = "open" /\ px[c].step = "nat"
    /\ Dies(c)
    /\ UNCHANGED <<cx, object, Shared>>

\* db_policy_list.at(matched_policy())->nat, under the lock.
HandoffNat(c) ==
    /\ px[c].conn = "open" /\ px[c].step = "nat"
    /\ px' = [px EXCEPT ![c].step = IF px[c].matched_policy < Len(list) THEN "left" ELSE "thrown"]
    /\ UNCHANGED <<cx, object, Shared>>

\* Mutant: the rule after the matched one is applied.
policy_apply_mut(c) == px[c].matched_policy + 1

\* policy_apply matches again for rule 0, keeps any other index, and returns
\* the index also when the rule denies.
policy_apply(c) ==
    IF px[c].matched_policy < 1 THEN policy_match(list, cx[c].dst) ELSE px[c].matched_policy

\* TCP: policy_apply on the left context.
ApplyLeft(c) ==
    /\ c \in Tcp /\ px[c].conn = "open" /\ px[c].step = "left"
    /\ px' = IF policy_apply(c) < 0 THEN [px EXCEPT ![c].conn = "dead"]
             ELSE [px EXCEPT ![c].applied = <<policy_apply(c)>>, ![c].step = "right"]
    /\ UNCHANGED <<cx, object, Shared>>

\* socks5_handoff_resolve_identity refuses only under a rule that asks for
\* authentication.
Refusable(i) == i < Len(list) /\ list[i + 1].pass /\ list[i + 1].auth

\* policy_apply on the right context (UDP: on the left one), then connect, and
\* only then look at the client's identity.
ApplyAndConnect(c, known) ==
    /\ px[c].conn = "open" /\ px[c].step = (IF c \in Udp THEN "left" ELSE "right")
    /\ LET i == policy_apply(c)
       IN  px' = IF i < 0 THEN [px EXCEPT ![c].conn = "dead"]
                 ELSE [px EXCEPT ![c].right = cx[c].dst,
                                 ![c].applied = Append(@, i),
                                 ![c].sent = IF c \in Udp THEN {cx[c].my_allowed_target} ELSE @,
                                 ![c].conn = IF ~known /\ Refusable(i) THEN "dead" ELSE @,
                                 ![c].step = "done"]
    /\ UNCHANGED <<cx, object, Shared>>

-----------------------------------------------------------------------------

\* The event loop closes a context that reports an error.
on_left_error(c) ==
    /\ Open(c) /\ cx[c].error /\ px[c].step \in {"no", "done"}
    /\ Dies(c)
    /\ UNCHANGED <<cx, object, Shared>>

\* The client hangs up, or has been idle too long.
Hangup(c) ==
    /\ px[c].conn = "open" /\ px[c].step \in {"no", "done"}
    /\ Dies(c)
    /\ UNCHANGED <<cx, object, Shared>>

\* The acceptor destroys a dead proxy and what it owns.
Destroy(c) ==
    /\ px[c].conn = "dead"
    /\ px' = [px EXCEPT ![c].conn = "gone"]
    /\ object' = [object EXCEPT ![c] = FALSE]
    /\ clients' = Erase(c)
    /\ UNCHANGED <<cx, my_assoc, list, reloads>>

\* Operators change the policy list (PolicyDb), also to an empty one.
Reload(l) ==
    /\ reloads < MaxReloads
    /\ list' = l
    /\ reloads' = reloads + 1
    /\ UNCHANGED <<cx, px, object, my_assoc, clients>>

Fds == {"ok", "failed", "zero"}

Serve(c) ==
    \/ \E fd \in Fds : pre_write_dns(c, fd)
    \/ DnsEmpty(c)
    \/ DnsTimeout(c)
    \/ \E t \in Targets : DnsResolved(c, t)
    \/ RefuseRequest(c)
    \/ PolicyCheck(c)
    \/ RejectCommand(c)
    \/ \E k \in Keys : c \in Tcp /\ k \in KeysOf[c] /\ AcceptAssociate(c, k)
    \/ Flush(c)
    \/ pre_write(c)
    \/ HandoffMessage(c)
    \/ HandoffCheck(c)
    \/ HandoffNoSource(c)
    \/ HandoffNat(c)
    \/ ApplyLeft(c)
    \/ \E known \in BOOLEAN : ApplyAndConnect(c, known)
    \/ on_left_error(c)
    \/ Destroy(c)

Client(c) ==
    \/ on_left_new(c)
    \/ \E v \in Versions \ {4} : process_socks_hello_tcp(c, v)
    \/ \E v \in Versions, cmd \in Commands, a \in Targets \cup {"fqdn"}, fd \in Fds : Connect(c, v, cmd, a, fd)
    \/ \E cmd \in Commands : ShortRequest(c, cmd)
    \/ \E a \in Addresses : UdpAssociate(c, a)
    \/ \E v \in Versions, cmd \in Commands, a \in Addresses : BadRequest(c, v, cmd, a)
    \/ \E a \in Targets \cup {"fqdn"}, fd \in Fds : Datagram(c, a, fd)
    \/ \E a \in Targets \cup {"fqdn"} : UnauthorizedDatagram(c, a)
    \/ process_out(c)
    \/ Hangup(c)

Next ==
    \/ \E c \in Cx : Serve(c) \/ Client(c)
    \/ \E l \in Lists : Reload(l)

\* The event loop keeps serving a connection whatever its client does, and
\* looks at the error flag of every context in each of its rounds.
Fairness == \A c \in Cx : WF_vars(Serve(c)) /\ WF_vars(on_left_error(c))

Spec == Init /\ [][Next]_vars /\ Fairness
-----------------------------------------------------------------------------

\* Type invariant.
TypeOK ==
    /\ cx \in [Cx -> SocksCx]
    /\ px \in [Cx -> Proxy]
    /\ object \in [Cx -> BOOLEAN]
    /\ my_assoc \in [Cx -> Keys \cup {None}]
    /\ clients \in [Keys -> Cx \cup {None}]
    /\ list \in Lists
    /\ reloads \in 0..MaxReloads

\* The table of associations holds raw pointers that authorize_if_udp follows
\* from other threads: each points to a context that still exists, although
\* emplace keeps the first of two associations for a key and the destructor of
\* either erases it.
NoDanglingAssoc == \A k \in Keys : clients[k] # None => object[clients[k]]

\* A client whose request no rule matches is never connected, not even when a
\* reload between the verdict and the handoff adds a rule for it.
NoRuleNoConnection ==
    \A c \in Cx : px[c].right # None => px[c].matched_policy >= 0

\* The context that talks SOCKS is replaced only after the client has been
\* sent the reply that belongs to the verdict.
ReplyBeforeHandoff ==
    \A c \in Tcp : px[c].step # "no" => cx[c].answered = cx[c].verdict_

\* As long as the policy has not been changed since the match, both sides of
\* the pair get the rule that was matched.
AppliedAsMatched ==
    \A c \in Cx : px[c].right # None /\ reloads = px[c].seen =>
        \A i \in 1..Len(px[c].applied) : px[c].applied[i] = px[c].matched_policy

\* UDP payload leaves the proxy only for the target named in the first
\* datagram of the socket, the one the policy was matched for.
UdpOneTarget ==
    \A c \in Udp : \A t \in px[c].sent :
        /\ t = cx[c].my_allowed_target
        /\ t \in Targets => px[c].right = t

\* A name is looked up at most once for each record type, and never with two
\* queries outstanding.
DnsAskedOnce ==
    \A c \in Cx :
        /\ \A i, j \in 1..Len(cx[c].asked) : cx[c].asked[i] = cx[c].asked[j] => i = j
        /\ (cx[c].query \in DNS_Record_Type /\ c \in Tcp) => Last(cx[c].asked) = cx[c].query

\* Every message on_left_message gets, for a policy check or a handoff, of a
\* request with or without a SOCKS error, ends in a connected pair or a closed
\* session.  The one exception is the out_of_range of db_policy_list.at(), and
\* that takes a policy change after the match.
RequestSettled ==
    \A c \in Cx :
        (Open(c) /\ new_message(c))
            ~> \/ px[c].right # None
               \/ px[c].conn # "open"
               \/ px[c].step = "thrown" /\ px[c].seen # reloads
=============================================================================
