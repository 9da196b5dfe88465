-------------------------- MODULE SocksProxyProofs --------------------------
(***************************************************************************)
(* Proofs about SocksProxy for any number of connections, rules, reloads   *)
(* and client keys.                                                        *)
(***************************************************************************)
EXTENDS SocksProxy, SequenceTheorems, WellFoundedInduction, TLAPS

USE SocksAssumption

\* A match is an index into the list, or -1.
LEMMA MatchType ==
    ASSUME NEW l \in Seq(Rules), NEW f
    PROVE  policy_match(l, f) \in Int /\ policy_match(l, f) >= -1
<1>1. Hits(l, f) \in SUBSET Nat /\ \A i \in Hits(l, f) : i >= 1
  BY DEF Hits
<1>2. CASE Hits(l, f) = {}
  BY <1>2 DEF policy_match, NoPolicy
<1>3. CASE Hits(l, f) # {}
  <2>1. PICK x \in Hits(l, f) : \A y \in Hits(l, f) : ~(<<y, x>> \in OpToRel(<, Nat))
    BY <1>1, <1>3, NatLessThanWellFounded, WFMin
  <2>2. ASSUME NEW y \in Hits(l, f)
        PROVE  x <= y
    <3>1. ~(<<y, x>> \in {ss \in Nat \X Nat : ss[1] < ss[2]})
      BY <2>1 DEF OpToRel
    <3> QED
      BY <1>1, <3>1
  <2>3. \E i \in Hits(l, f) : \A j \in Hits(l, f) : i <= j
    BY <2>2
  <2> DEFINE first == CHOOSE i \in Hits(l, f) : \A j \in Hits(l, f) : i <= j
  <2>4. first \in Nat /\ first >= 1
    BY <1>1, <2>3
  <2>5. policy_match(l, f) = first - 1
    BY <1>3 DEF policy_match
  <2> QED
    BY <2>4, <2>5
<1> QED
  BY <1>2, <1>3

USE DEF socks5_state, socks5_request_error, socks5_cmd, socks5_policy, DNS_Record_Type, Steps

-----------------------------------------------------------------------------
(* Types                                                                   *)

\* A context that waits for the policy is a context.
LEMMA SetupTargetType ==
    ASSUME NEW r \in SocksCx, NEW t \in Targets
    PROVE  setup_target(r, t) \in SocksCx
  BY DEF SocksCx, setup_target

\* A context that waits for DNS is a context.
LEMMA SetupDnsType ==
    ASSUME NEW r \in SocksCx, NEW type \in DNS_Record_Type, NEW fd
    PROVE  setup_dns_async(r, type, fd) \in SocksCx
<1> DEFINE asked == Append(r.asked, type)
           tested == r.tested \cup {type}
           query == IF fd = "ok" THEN type ELSE "badfd"
<1>1. /\ asked \in Seq(DNS_Record_Type)
      /\ tested \in SUBSET DNS_Record_Type
      /\ query \in DNS_Record_Type \cup {None, "badfd"}
  BY DEF SocksCx
<1>2. setup_dns_async(r, type, fd)
        = IF fd = "zero" THEN [r EXCEPT !.error = TRUE, !.asked = asked]
          ELSE [r EXCEPT !.tested = tested, !.state_ = "DNS_QUERY_SENT", !.query = query, !.asked = asked]
  BY DEF setup_dns_async
<1> HIDE DEF asked, tested, query
<1>3. [r EXCEPT !.tested = tested, !.state_ = "DNS_QUERY_SENT", !.query = query, !.asked = asked]
        \in SocksCx
  BY <1>1 DEF SocksCx
<1>4. [r EXCEPT !.error = TRUE, !.asked = asked] \in SocksCx
  BY <1>1 DEF SocksCx
<1> QED
  BY <1>2, <1>3, <1>4

\* A decided context is a context.
LEMMA VerdictType ==
    ASSUME NEW r \in SocksCx, NEW v \in {"ACCEPT", "REJECT"}
    PROVE  verdict(r, v) \in SocksCx
  BY DEF SocksCx, verdict

\* A step of one connection's context.
LEMMA OnlyCx ==
    ASSUME TypeOK, NEW c \in Cx, NEW r \in SocksCx,
           cx' = [cx EXCEPT ![c] = r], UNCHANGED <<px, object, Shared>>
    PROVE  TypeOK'
  BY DEF TypeOK, Shared

\* A step of one connection's proxy.
LEMMA OnlyPx ==
    ASSUME TypeOK, NEW c \in Cx, NEW q \in Proxy,
           px' = [px EXCEPT ![c] = q], UNCHANGED <<cx, object, Shared>>
    PROVE  TypeOK'
  BY DEF TypeOK, Shared

\* A step of the context and the proxy of one connection.
LEMMA BothTypes ==
    ASSUME TypeOK, NEW c \in Cx, NEW r \in SocksCx, NEW q \in Proxy,
           cx' = [cx EXCEPT ![c] = r], px' = [px EXCEPT ![c] = q], UNCHANGED <<object, Shared>>
    PROVE  TypeOK'
  BY DEF TypeOK, Shared

\* The destructor leaves a table.
LEMMA EraseType ==
    ASSUME TypeOK, NEW c \in Cx
    PROVE  Erase(c) \in [Keys -> Cx \cup {None}]
  BY DEF TypeOK, Erase

\* Init satisfies the type invariant.
LEMMA TypeInit == Init => TypeOK
  BY DEF Init, TypeOK, NewCx, NewProxy, SocksCx, Proxy, NoPolicy

\* process_socks_hello_tcp keeps the types.
LEMMA process_socks_hello_tcpType ==
    ASSUME TypeOK, NEW c \in Cx, NEW v \in Versions \ {4}, process_socks_hello_tcp(c, v)
    PROVE  TypeOK'
<1>1. cx[c] \in SocksCx
  BY DEF TypeOK
<1> DEFINE r == IF v = 5 THEN [cx[c] EXCEPT !.version = 5, !.state_ = "WAIT_REQUEST"]
                   ELSE [cx[c] EXCEPT !.error = TRUE]
<1>2. r \in SocksCx
  BY <1>1 DEF SocksCx
<1>3. cx' = [cx EXCEPT ![c] = r] /\ UNCHANGED <<px, object, Shared>>
  BY DEF process_socks_hello_tcp
<1> HIDE DEF r
<1> QED
  BY <1>2, <1>3, OnlyCx

\* ShortRequest keeps the types.
LEMMA ShortRequestType ==
    ASSUME TypeOK, NEW c \in Cx, NEW cmd \in Commands, ShortRequest(c, cmd)
    PROVE  TypeOK'
<1>1. cx[c] \in SocksCx
  BY DEF TypeOK
<1> DEFINE r == [cx[c] EXCEPT !.version = 5, !.req_cmd = cmd, !.socks_error_ = "NONE"]
<1>2. r \in SocksCx
  BY <1>1 DEF SocksCx
<1>3. cx' = [cx EXCEPT ![c] = r] /\ UNCHANGED <<px, object, Shared>>
  BY DEF ShortRequest
<1> HIDE DEF r
<1> QED
  BY <1>2, <1>3, OnlyCx

\* UdpAssociate keeps the types.
LEMMA UdpAssociateType ==
    ASSUME TypeOK, NEW c \in Cx, NEW a \in Addresses, UdpAssociate(c, a)
    PROVE  TypeOK'
<1>1. cx[c] \in SocksCx
  BY DEF TypeOK
<1> DEFINE e == ParseError(a)
           b == cx[c].error \/ e # "NONE"
<1>e. e \in socks5_request_error
  BY DEF ParseError
<1>b. b \in BOOLEAN
  BY <1>1 DEF SocksCx
<1> HIDE DEF b, e
<1> DEFINE r == [cx[c] EXCEPT !.version = 5, !.req_cmd = "UDP_ASSOCIATE", !.socks_error_ = e,
                          !.error = b, !.state_ = "WAIT_POLICY"]
<1>2. r \in SocksCx
  BY <1>1, <1>e, <1>b DEF SocksCx
<1>3. cx' = [cx EXCEPT ![c] = r] /\ UNCHANGED <<px, object, Shared>>
  BY DEF UdpAssociate, e, b
<1> HIDE DEF r
<1> QED
  BY <1>2, <1>3, OnlyCx

\* DnsEmpty keeps the types.
LEMMA DnsEmptyType ==
    ASSUME TypeOK, NEW c \in Cx, DnsEmpty(c)
    PROVE  TypeOK'
<1>1. cx[c] \in SocksCx
  BY DEF TypeOK
<1> DEFINE r == [cx[c] EXCEPT !.query = None, !.state_ = "DNS_RESP_FAILED"]
<1>2. r \in SocksCx
  BY <1>1 DEF SocksCx
<1>3. cx' = [cx EXCEPT ![c] = r] /\ UNCHANGED <<px, object, Shared>>
  BY DEF DnsEmpty
<1> HIDE DEF r
<1> QED
  BY <1>2, <1>3, OnlyCx

\* DnsTimeout keeps the types.
LEMMA DnsTimeoutType ==
    ASSUME TypeOK, NEW c \in Cx, DnsTimeout(c)
    PROVE  TypeOK'
<1>1. cx[c] \in SocksCx
  BY DEF TypeOK
<1> DEFINE r == [cx[c] EXCEPT !.query = None, !.state_ = "DNS_RESP_RECV", !.error = TRUE]
<1>2. r \in SocksCx
  BY <1>1 DEF SocksCx
<1>3. cx' = [cx EXCEPT ![c] = r] /\ UNCHANGED <<px, object, Shared>>
  BY DEF DnsTimeout
<1> HIDE DEF r
<1> QED
  BY <1>2, <1>3, OnlyCx

\* Flush keeps the types.
LEMMA FlushType ==
    ASSUME TypeOK, NEW c \in Cx, Flush(c)
    PROVE  TypeOK'
<1>1. cx[c] \in SocksCx
  BY DEF TypeOK
<1> DEFINE r == [cx[c] EXCEPT !.reply = None, !.answered = cx[c].reply]
<1>2. r \in SocksCx
  BY <1>1 DEF SocksCx
<1>3. cx' = [cx EXCEPT ![c] = r] /\ UNCHANGED <<px, object, Shared>>
  BY DEF Flush
<1> HIDE DEF r
<1> QED
  BY <1>2, <1>3, OnlyCx

\* pre_write keeps the types.
LEMMA pre_writeType ==
    ASSUME TypeOK, NEW c \in Cx, pre_write(c)
    PROVE  TypeOK'
<1>1. cx[c] \in SocksCx
  BY DEF TypeOK
<1> DEFINE r == [cx[c] EXCEPT !.state_ = "HANDOFF"]
<1>2. r \in SocksCx
  BY <1>1 DEF SocksCx
<1>3. cx' = [cx EXCEPT ![c] = r] /\ UNCHANGED <<px, object, Shared>>
  BY DEF pre_write
<1> HIDE DEF r
<1> QED
  BY <1>2, <1>3, OnlyCx

\* process_out keeps the types.
LEMMA process_outType ==
    ASSUME TypeOK, NEW c \in Cx, process_out(c)
    PROVE  TypeOK'
<1>1. cx[c] \in SocksCx
  BY DEF TypeOK
<1> DEFINE s == <<>>
<1>s. s \in Seq(DNS_Record_Type)
  OBVIOUS
<1> HIDE DEF s
<1> DEFINE r == [cx[c] EXCEPT !.state_ = "INIT", !.asked = s]
<1>2. r \in SocksCx
  BY <1>1, <1>s DEF SocksCx
<1>3. cx' = [cx EXCEPT ![c] = r] /\ UNCHANGED <<px, object, Shared>>
  BY DEF process_out, s
<1> HIDE DEF r
<1> QED
  BY <1>2, <1>3, OnlyCx

\* HandoffNoSource keeps the types.
LEMMA HandoffNoSourceType ==
    ASSUME TypeOK, NEW c \in Cx, HandoffNoSource(c)
    PROVE  TypeOK'
<1>1. px[c] \in Proxy
  BY DEF TypeOK
<1> DEFINE r == [px[c] EXCEPT !.conn = "dead"]
<1>2. r \in Proxy
  BY <1>1 DEF Proxy
<1>3. px' = [px EXCEPT ![c] = r] /\ UNCHANGED <<cx, object, Shared>>
  BY DEF HandoffNoSource, Dies
<1> HIDE DEF r
<1> QED
  BY <1>2, <1>3, OnlyPx

\* on_left_error keeps the types.
LEMMA on_left_errorType ==
    ASSUME TypeOK, NEW c \in Cx, on_left_error(c)
    PROVE  TypeOK'
<1>1. px[c] \in Proxy
  BY DEF TypeOK
<1> DEFINE r == [px[c] EXCEPT !.conn = "dead"]
<1>2. r \in Proxy
  BY <1>1 DEF Proxy
<1>3. px' = [px EXCEPT ![c] = r] /\ UNCHANGED <<cx, object, Shared>>
  BY DEF on_left_error, Dies
<1> HIDE DEF r
<1> QED
  BY <1>2, <1>3, OnlyPx

\* Hangup keeps the types.
LEMMA HangupType ==
    ASSUME TypeOK, NEW c \in Cx, Hangup(c)
    PROVE  TypeOK'
<1>1. px[c] \in Proxy
  BY DEF TypeOK
<1> DEFINE r == [px[c] EXCEPT !.conn = "dead"]
<1>2. r \in Proxy
  BY <1>1 DEF Proxy
<1>3. px' = [px EXCEPT ![c] = r] /\ UNCHANGED <<cx, object, Shared>>
  BY DEF Hangup, Dies
<1> HIDE DEF r
<1> QED
  BY <1>2, <1>3, OnlyPx

\* HandoffNat keeps the types.
LEMMA HandoffNatType ==
    ASSUME TypeOK, NEW c \in Cx, HandoffNat(c)
    PROVE  TypeOK'
<1>1. px[c] \in Proxy
  BY DEF TypeOK
<1> DEFINE r == [px[c] EXCEPT !.step = IF px[c].matched_policy < Len(list) THEN "left" ELSE "thrown"]
<1>2. r \in Proxy
  BY <1>1 DEF Proxy
<1>3. px' = [px EXCEPT ![c] = r] /\ UNCHANGED <<cx, object, Shared>>
  BY DEF HandoffNat
<1> HIDE DEF r
<1> QED
  BY <1>2, <1>3, OnlyPx

\* Connect keeps the types.
LEMMA ConnectType ==
    ASSUME TypeOK, NEW c \in Cx, NEW v \in Versions, NEW cmd \in Commands,
           NEW a \in Targets \cup {"fqdn"}, NEW fd, Connect(c, v, cmd, a, fd)
    PROVE  TypeOK'
<1>1. cx[c] \in SocksCx
  BY DEF TypeOK
<1> DEFINE rec == [cx[c] EXCEPT !.version = v, !.req_cmd = cmd, !.socks_error_ = "NONE",
                                !.state_ = "REQ_RECEIVED"]
           r == IF a = "fqdn" THEN setup_dns_async(rec, FirstQuery(c), fd) ELSE setup_target(rec, a)
<1>2. rec \in SocksCx
  BY <1>1 DEF SocksCx
<1>3. FirstQuery(c) \in DNS_Record_Type
  BY DEF FirstQuery
<1>4. cx' = [cx EXCEPT ![c] = r] /\ UNCHANGED <<px, object, Shared>>
  BY DEF Connect
<1> HIDE DEF rec
<1>5. r \in SocksCx
  BY <1>2, <1>3, SetupTargetType, SetupDnsType
<1> HIDE DEF r
<1> QED
  BY <1>4, <1>5, OnlyCx

\* BadRequest keeps the types.
LEMMA BadRequestType ==
    ASSUME TypeOK, NEW c \in Cx, NEW v \in Versions, NEW cmd \in Commands,
           NEW a \in Addresses, BadRequest(c, v, cmd, a)
    PROVE  TypeOK'
<1>1. cx[c] \in SocksCx
  BY DEF TypeOK
<1>2. ParseError(a) \in socks5_request_error
  BY DEF ParseError
<1> DEFINE m == IF a = "malformed" THEN "REQ_RECEIVED" ELSE cx[c].state_
           bad(e) == [cx[c] EXCEPT !.version = v, !.req_cmd = cmd, !.error = TRUE, !.socks_error_ = e]
           moved(e) == [cx[c] EXCEPT !.version = v, !.req_cmd = cmd, !.error = TRUE,
                                     !.socks_error_ = e, !.state_ = m]
<1>m. m \in socks5_state
  BY <1>1 DEF SocksCx
<1>c. \/ cx' = [cx EXCEPT ![c] = moved(ParseError(a))]
      \/ cx' = [cx EXCEPT ![c] = bad("UNSUPPORTED_METHOD")]
      \/ cx' = [cx EXCEPT ![c] = bad("MALFORMED_DATA")]
      \/ cx' = [cx EXCEPT ![c] = bad("UNSUPPORTED_VERSION")]
  BY DEF BadRequest, Fails
<1> HIDE DEF m
<1>3. \E r \in SocksCx : cx' = [cx EXCEPT ![c] = r]
  <2>1. ASSUME NEW e \in socks5_request_error
        PROVE  moved(e) \in SocksCx
    <3>1. bad(e) \in SocksCx
      BY <1>1 DEF SocksCx
    <3>2. [bad(e) EXCEPT !.state_ = m] \in SocksCx
      <4> HIDE DEF bad
      <4> QED
        BY <1>m, <3>1 DEF SocksCx
    <3> QED
      BY <3>2
  <2>2. ASSUME NEW e \in socks5_request_error
        PROVE  bad(e) \in SocksCx
    BY <1>1 DEF SocksCx
  <2> HIDE DEF moved, bad
  <2> QED
    BY <1>2, <1>c, <2>1, <2>2
<1>4. UNCHANGED <<px, object, Shared>>
  BY DEF BadRequest
<1> QED
  BY <1>3, <1>4, OnlyCx

\* DnsResolved keeps the types.
LEMMA DnsResolvedType ==
    ASSUME TypeOK, NEW c \in Cx, NEW t \in Targets, DnsResolved(c, t)
    PROVE  TypeOK'
<1> DEFINE rec == [cx[c] EXCEPT !.query = None]
           r == setup_target(rec, t)
<1>0. cx[c] \in SocksCx
  BY DEF TypeOK
<1>1. rec \in SocksCx
  BY <1>0 DEF SocksCx
<1>2. cx' = [cx EXCEPT ![c] = r] /\ UNCHANGED <<px, object, Shared>>
  BY DEF DnsResolved
<1> HIDE DEF rec
<1>3. r \in SocksCx
  BY <1>1, SetupTargetType
<1> HIDE DEF r
<1> QED
  BY <1>2, <1>3, OnlyCx

\* pre_write_dns keeps the types.
LEMMA pre_write_dnsType ==
    ASSUME TypeOK, NEW c \in Cx, NEW fd, pre_write_dns(c, fd)
    PROVE  TypeOK'
<1>1. cx[c] \in SocksCx
  BY DEF TypeOK
<1>2. [cx[c] EXCEPT !.error = TRUE] \in SocksCx
  BY <1>1 DEF SocksCx
<1>3. \A type \in NextQuery(c) :
        setup_dns_async([cx[c] EXCEPT !.tested = @ \cup {type}], type, fd) \in SocksCx
  <2> SUFFICES ASSUME NEW type \in NextQuery(c)
               PROVE  setup_dns_async([cx[c] EXCEPT !.tested = @ \cup {type}], type, fd) \in SocksCx
    OBVIOUS
  <2>1. type \in DNS_Record_Type
    BY DEF NextQuery
  <2>2. [cx[c] EXCEPT !.tested = @ \cup {type}] \in SocksCx
    BY <1>1, <2>1 DEF SocksCx
  <2> QED
    BY <2>1, <2>2, SetupDnsType
<1>4. \E r \in SocksCx : cx' = [cx EXCEPT ![c] = r]
  BY <1>2, <1>3 DEF pre_write_dns
<1>5. UNCHANGED <<px, object, Shared>>
  BY DEF pre_write_dns
<1> QED
  BY <1>4, <1>5, OnlyCx

\* RefuseRequest keeps the types.
LEMMA RefuseRequestType ==
    ASSUME TypeOK, NEW c \in Cx, RefuseRequest(c)
    PROVE  TypeOK'
<1>1. cx[c] \in SocksCx
  BY DEF TypeOK
<1>2. [cx[c] EXCEPT !.error = TRUE] \in SocksCx
  BY <1>1 DEF SocksCx
<1>3. verdict(cx[c], "REJECT") \in SocksCx
  BY <1>1, VerdictType
<1>4. \E r \in SocksCx : cx' = [cx EXCEPT ![c] = r]
  BY <1>2, <1>3 DEF RefuseRequest
<1>5. UNCHANGED <<px, object, Shared>>
  BY DEF RefuseRequest
<1> QED
  BY <1>4, <1>5, OnlyCx

\* RejectCommand keeps the types.
LEMMA RejectCommandType ==
    ASSUME TypeOK, NEW c \in Cx, RejectCommand(c)
    PROVE  TypeOK'
<1>1. verdict(cx[c], "REJECT") \in SocksCx
  BY VerdictType DEF TypeOK
<1> QED
  BY <1>1, OnlyCx DEF RejectCommand

\* AcceptAssociate keeps the types.
LEMMA AcceptAssociateType ==
    ASSUME TypeOK, NEW c \in Cx, NEW k \in Keys, AcceptAssociate(c, k)
    PROVE  TypeOK'
<1>1. verdict(cx[c], "ACCEPT") \in SocksCx
  BY VerdictType DEF TypeOK
<1>2. cx' \in [Cx -> SocksCx]
  BY <1>1 DEF AcceptAssociate, TypeOK
<1>3. clients' \in [Keys -> Cx \cup {None}] /\ my_assoc' \in [Cx -> Keys \cup {None}]
  BY DEF AcceptAssociate, Emplace, TypeOK
<1> QED
  BY <1>2, <1>3 DEF AcceptAssociate, TypeOK

\* on_left_new keeps the types.
LEMMA on_left_newType ==
    ASSUME TypeOK, NEW c \in Cx, on_left_new(c)
    PROVE  TypeOK'
<1>0. px[c] \in Proxy
  BY DEF TypeOK
<1>1. [px[c] EXCEPT !.conn = "open"] \in Proxy
  BY <1>0 DEF Proxy
<1>2. px' \in [Cx -> Proxy] /\ object' \in [Cx -> BOOLEAN]
  BY <1>1 DEF on_left_new, TypeOK
<1> QED
  BY <1>2 DEF on_left_new, TypeOK, Shared

\* HandoffCheck keeps the types.
LEMMA HandoffCheckType ==
    ASSUME TypeOK, NEW c \in Cx, HandoffCheck(c)
    PROVE  TypeOK'
<1>0. px[c] \in Proxy
  BY DEF TypeOK
<1>1. [px[c] EXCEPT !.conn = "dead"] \in Proxy /\ [px[c] EXCEPT !.step = "nat"] \in Proxy
  BY <1>0 DEF Proxy
<1>2. px' \in [Cx -> Proxy]
  BY <1>1 DEF HandoffCheck, Dies, TypeOK
<1>3. object' \in [Cx -> BOOLEAN] /\ clients' \in [Keys -> Cx \cup {None}]
  <2>1. (c \in Udp) \in BOOLEAN
    OBVIOUS
  <2>2. [object EXCEPT ![c] = c \in Udp] \in [Cx -> BOOLEAN]
    BY <2>1 DEF TypeOK
  <2>3. object' = object \/ object' = [object EXCEPT ![c] = c \in Udp]
    BY DEF HandoffCheck, HandoffDelete
  <2>4. clients' = clients \/ clients' = Erase(c)
    BY DEF HandoffCheck, HandoffDelete
  <2>5. object' \in [Cx -> BOOLEAN]
    BY <2>2, <2>3 DEF TypeOK
  <2>6. clients' \in [Keys -> Cx \cup {None}]
    BY <2>4, EraseType DEF TypeOK
  <2> QED
    BY <2>5, <2>6
<1> QED
  BY <1>2, <1>3 DEF HandoffCheck, TypeOK

\* Destroy keeps the types.
LEMMA DestroyType ==
    ASSUME TypeOK, NEW c \in Cx, Destroy(c)
    PROVE  TypeOK'
<1>0. px[c] \in Proxy
  BY DEF TypeOK
<1>1. [px[c] EXCEPT !.conn = "gone"] \in Proxy
  BY <1>0 DEF Proxy
<1>2. px' \in [Cx -> Proxy]
  BY <1>1 DEF Destroy, TypeOK
<1>3. object' \in [Cx -> BOOLEAN] /\ clients' \in [Keys -> Cx \cup {None}]
  BY EraseType DEF Destroy, TypeOK
<1> QED
  BY <1>2, <1>3 DEF Destroy, TypeOK

\* Datagram keeps the types.
LEMMA DatagramType ==
    ASSUME TypeOK, NEW c \in Cx, NEW a \in Targets \cup {"fqdn"}, NEW fd, Datagram(c, a, fd)
    PROVE  TypeOK'
<1>1. cx[c] \in SocksCx /\ px[c] \in Proxy
  BY DEF TypeOK
<1> DEFINE rec == [cx[c] EXCEPT !.req_cmd = "CONNECT", !.my_allowed_target = a,
                                !.state_ = "REQ_RECEIVED", !.dst = Parsed(c, a)]
           r == IF ~Associated(c) THEN rec
                ELSE IF a = "fqdn" THEN setup_dns_async(rec, FirstQuery(c), fd)
                ELSE setup_target(rec, a)
           s == IF Associated(c) /\ px[c].right # None THEN px[c].sent \cup {a} ELSE px[c].sent
           q == [px[c] EXCEPT !.sent = s]
<1>2. Parsed(c, a) \in Targets \cup {None}
  BY <1>1 DEF Parsed, SocksCx
<1>3. rec \in SocksCx
  BY <1>1, <1>2 DEF SocksCx
<1>4. FirstQuery(c) \in DNS_Record_Type
  BY DEF FirstQuery
<1>5. s \in SUBSET (Targets \cup {"fqdn"})
  BY <1>1 DEF Proxy
<1>6. cx' = [cx EXCEPT ![c] = r] /\ px' = [px EXCEPT ![c] = q] /\ UNCHANGED <<object, Shared>>
  BY DEF Datagram
<1> HIDE DEF rec, s
<1>7. r \in SocksCx
  BY <1>3, <1>4, SetupTargetType, SetupDnsType
<1>8. q \in Proxy
  BY <1>1, <1>5 DEF Proxy
<1> HIDE DEF r, q
<1> QED
  BY <1>6, <1>7, <1>8, BothTypes

\* UnauthorizedDatagram keeps the types.
LEMMA UnauthorizedDatagramType ==
    ASSUME TypeOK, NEW c \in Cx, NEW a \in Targets \cup {"fqdn"}, UnauthorizedDatagram(c, a)
    PROVE  TypeOK'
<1>1. Parsed(c, a) \in Targets \cup {None}
  <2>1. cx[c] \in SocksCx
    BY DEF TypeOK
  <2> QED
    BY <2>1 DEF Parsed, SocksCx
<1>2. ASSUME NEW d \in Cx
      PROVE  /\ [cx[d] EXCEPT !.req_cmd = "CONNECT", !.state_ = "REQ_RECEIVED",
                              !.dst = Parsed(c, a), !.error = TRUE] \in SocksCx
             /\ [cx[d] EXCEPT !.error = TRUE] \in SocksCx
             /\ cx[d] \in SocksCx
  <2>1. cx[d] \in SocksCx
    BY DEF TypeOK
  <2>2. [cx[d] EXCEPT !.error = TRUE] \in SocksCx
    BY <2>1 DEF SocksCx
  <2> DEFINE t == Parsed(c, a)
  <2>3. t \in Targets \cup {None}
    BY <1>1
  <2> HIDE DEF t
  <2>4. [cx[d] EXCEPT !.req_cmd = "CONNECT", !.state_ = "REQ_RECEIVED",
                      !.dst = t, !.error = TRUE] \in SocksCx
    BY <2>1, <2>3 DEF SocksCx
  <2> QED
    BY <2>1, <2>2, <2>4 DEF t
<1>3. cx' \in [Cx -> SocksCx]
  BY <1>2 DEF UnauthorizedDatagram
<1> QED
  BY <1>3 DEF UnauthorizedDatagram, TypeOK, Shared

\* PolicyCheck keeps the types.
LEMMA PolicyCheckType ==
    ASSUME TypeOK, NEW c \in Cx, PolicyCheck(c)
    PROVE  TypeOK'
<1>1. cx[c] \in SocksCx /\ px[c] \in Proxy /\ list \in Seq(Rules) /\ reloads \in Nat
  BY DEF TypeOK
<1> DEFINE m == policy_match(list, cx[c].dst)
           v == AsVerdict(policy_action(list, m))
           r == IF c \in Udp THEN [cx[c] EXCEPT !.verdict_ = v, !.state_ = "ZOMBIE"]
                ELSE verdict(cx[c], v)
           st == IF c \in Udp THEN "check" ELSE px[c].step
           q == [px[c] EXCEPT !.matched_policy = m, !.seen = reloads, !.step = st]
<1>2. m \in Int
  BY <1>1, MatchType
<1>3. v \in {"ACCEPT", "REJECT"}
  BY DEF AsVerdict
<1>4. st \in Steps
  BY <1>1 DEF Proxy
<1>5. cx' = [cx EXCEPT ![c] = r] /\ px' = [px EXCEPT ![c] = q] /\ UNCHANGED <<object, Shared>>
  BY DEF PolicyCheck
<1> HIDE DEF m, v, st
<1>6. r \in SocksCx
  <2>1. [cx[c] EXCEPT !.verdict_ = v, !.state_ = "ZOMBIE"] \in SocksCx
    BY <1>1, <1>3 DEF SocksCx
  <2> QED
    BY <1>1, <1>3, <2>1, VerdictType
<1>7. q \in Proxy
  BY <1>1, <1>2, <1>4 DEF Proxy
<1> HIDE DEF r, q
<1> QED
  BY <1>5, <1>6, <1>7, BothTypes

\* HandoffMessage keeps the types.
LEMMA HandoffMessageType ==
    ASSUME TypeOK, NEW c \in Cx, HandoffMessage(c)
    PROVE  TypeOK'
<1>1. cx[c] \in SocksCx /\ px[c] \in Proxy
  BY DEF TypeOK
<1>2. [cx[c] EXCEPT !.state_ = "ZOMBIE"] \in SocksCx
  BY <1>1 DEF SocksCx
<1>3. [px[c] EXCEPT !.step = "check"] \in Proxy
  BY <1>1 DEF Proxy
<1> QED
  BY <1>2, <1>3, BothTypes DEF HandoffMessage

\* policy_apply returns an index.
LEMMA ApplyType ==
    ASSUME TypeOK, NEW c \in Cx
    PROVE  policy_apply(c) \in Int
<1>1. px[c] \in Proxy /\ list \in Seq(Rules)
  BY DEF TypeOK
<1>2. px[c].matched_policy \in Int
  BY <1>1 DEF Proxy
<1> QED
  BY <1>1, <1>2, MatchType DEF policy_apply

\* ApplyLeft keeps the types.
LEMMA ApplyLeftType ==
    ASSUME TypeOK, NEW c \in Cx, ApplyLeft(c)
    PROVE  TypeOK'
<1>1. px[c] \in Proxy
  BY DEF TypeOK
<1> DEFINE s == <<policy_apply(c)>>
<1>2. s \in Seq(Int)
  BY ApplyType
<1>3. \/ px' = [px EXCEPT ![c] = [px[c] EXCEPT !.conn = "dead"]]
      \/ px' = [px EXCEPT ![c] = [px[c] EXCEPT !.applied = s, !.step = "right"]]
  BY DEF ApplyLeft
<1> HIDE DEF s
<1>4. [px[c] EXCEPT !.conn = "dead"] \in Proxy
  BY <1>1 DEF Proxy
<1>5. [px[c] EXCEPT !.applied = s, !.step = "right"] \in Proxy
  BY <1>1, <1>2 DEF Proxy
<1>6. \E q \in Proxy : px' = [px EXCEPT ![c] = q]
  BY <1>3, <1>4, <1>5
<1>7. UNCHANGED <<cx, object, Shared>>
  BY DEF ApplyLeft
<1> QED
  BY <1>6, <1>7, OnlyPx

\* ApplyAndConnect keeps the types.
LEMMA ApplyAndConnectType ==
    ASSUME TypeOK, NEW c \in Cx, NEW known \in BOOLEAN, ApplyAndConnect(c, known),
           c \in Udp => cx[c].my_allowed_target # None
    PROVE  TypeOK'
<1>1. px[c] \in Proxy /\ cx[c] \in SocksCx
  BY DEF TypeOK
<1> DEFINE i == policy_apply(c)
           s == Append(px[c].applied, i)
           t == cx[c].dst
           n == IF c \in Udp THEN {cx[c].my_allowed_target} ELSE px[c].sent
           o == IF ~known /\ Refusable(i) THEN "dead" ELSE px[c].conn
           done == [px[c] EXCEPT !.right = t, !.applied = s, !.sent = n, !.conn = o, !.step = "done"]
<1>2. s \in Seq(Int)
  BY <1>1, ApplyType DEF Proxy
<1>3. t \in Targets \cup {None}
  BY <1>1 DEF SocksCx
<1>4. o \in {"none", "open", "dead", "gone"}
  BY <1>1 DEF Proxy
<1>5. n \in SUBSET (Targets \cup {"fqdn"})
  BY <1>1 DEF SocksCx, Proxy
<1>6. \/ px' = [px EXCEPT ![c] = [px[c] EXCEPT !.conn = "dead"]]
      \/ px' = [px EXCEPT ![c] = done]
  BY DEF ApplyAndConnect
<1> HIDE DEF s, t, n, o
<1>7. [px[c] EXCEPT !.conn = "dead"] \in Proxy
  BY <1>1 DEF Proxy
<1>8. done \in Proxy
  BY <1>1, <1>2, <1>3, <1>4, <1>5 DEF Proxy
<1>9. \E q \in Proxy : px' = [px EXCEPT ![c] = q]
  BY <1>6, <1>7, <1>8
<1>10. UNCHANGED <<cx, object, Shared>>
  BY DEF ApplyAndConnect
<1> QED
  BY <1>9, <1>10, OnlyPx

-----------------------------------------------------------------------------
(* What the handoff relies on                                              *)

Decided(c) == cx[c].verdict_ # "PENDING"

\* A UDP session that is past its first datagram has a target.
Named(c) ==
    (c \in Udp /\ (cx[c].state_ # "INIT" \/ cx[c].query # None \/ px[c].step # "no"))
        => cx[c].my_allowed_target # None

\* Only a decided request gets past the policy check.
Judged(c) ==
    (\/ cx[c].state_ \in {"REQRES_SENT", "HANDOFF"} \/ px[c].step # "no"
     \/ px[c].right # None \/ my_assoc[c] # None) => Decided(c)

\* Past the check of the index there is a rule.
Ruled(c) ==
    (px[c].step \notin {"no", "check"} \/ px[c].right # None) => px[c].matched_policy >= 0

Late == {"REQRES_SENT", "HANDOFF", "ZOMBIE"}

\* The reply of a TCP session is written when it is decided and flushed
\* before the handoff; no answer from DNS arrives later.
Replied(c) ==
    c \in Tcp =>
        /\ cx[c].state_ \notin Late => ~Decided(c) /\ cx[c].reply = None /\ px[c].step = "no"
        /\ cx[c].state_ \in {"REQRES_SENT", "HANDOFF"} => px[c].step = "no"
        /\ cx[c].state_ = "REQRES_SENT" =>
               \/ cx[c].reply = cx[c].verdict_
               \/ cx[c].reply = None /\ cx[c].answered = cx[c].verdict_
        /\ cx[c].state_ \in {"HANDOFF", "ZOMBIE"} =>
               cx[c].reply = None /\ cx[c].answered = cx[c].verdict_
        /\ cx[c].query \in DNS_Record_Type => cx[c].state_ = "DNS_QUERY_SENT"

Sound(c) == Named(c) /\ Judged(c) /\ Ruled(c) /\ Replied(c)

\* The state of one connection that Sound speaks about.
View(c) == <<cx[c].state_, cx[c].verdict_, cx[c].reply, cx[c].answered, cx[c].query,
             cx[c].my_allowed_target, px[c].step, px[c].right, px[c].matched_policy, my_assoc[c]>>

\* Sound(c) depends on View(c) only.
LEMMA SoundView ==
    ASSUME NEW c \in Cx, Sound(c), UNCHANGED View(c)
    PROVE  Sound(c)'
  BY DEF Sound, Named, Judged, Ruled, Replied, Decided, View, Late

\* process_socks_hello_tcp keeps its connection sound.
LEMMA process_socks_hello_tcpSound ==
    ASSUME TypeOK, NEW c \in Cx, Sound(c), NEW v \in Versions \ {4}, process_socks_hello_tcp(c, v)
    PROVE  Sound(c)'
<1>1. cx[c] \in SocksCx /\ px[c] \in Proxy
  BY DEF TypeOK
<1>2. /\ cx'[c].verdict_ = cx[c].verdict_
      /\ cx'[c].reply = cx[c].reply
      /\ cx'[c].answered = cx[c].answered
      /\ cx'[c].query = cx[c].query
      /\ cx'[c].my_allowed_target = cx[c].my_allowed_target
      /\ cx'[c].state_ \in {cx[c].state_, "WAIT_REQUEST"}
  BY <1>1 DEF process_socks_hello_tcp, TypeOK, SocksCx
<1>4. UNCHANGED <<px, my_assoc>>
  BY DEF process_socks_hello_tcp, Shared
<1> QED
  BY <1>1, <1>2, <1>4 DEF process_socks_hello_tcp, Sound, Named, Judged, Ruled, Replied, Decided, Late

\* Connect keeps its connection sound.
LEMMA ConnectSound ==
    ASSUME TypeOK, NEW c \in Cx, Sound(c), NEW v \in Versions, NEW cmd \in Commands,
           NEW a \in Targets \cup {"fqdn"}, NEW fd, Connect(c, v, cmd, a, fd)
    PROVE  Sound(c)'
<1>1. cx[c] \in SocksCx /\ px[c] \in Proxy
  BY DEF TypeOK
<1>2. /\ cx'[c].verdict_ = cx[c].verdict_
      /\ cx'[c].reply = cx[c].reply
      /\ cx'[c].answered = cx[c].answered
      /\ cx'[c].my_allowed_target = cx[c].my_allowed_target
      /\ \/ cx'[c].state_ = "DNS_QUERY_SENT"
         \/ cx'[c].state_ \in {"WAIT_POLICY", "REQ_RECEIVED"} /\ cx'[c].query = cx[c].query
  BY <1>1 DEF Connect, TypeOK, SocksCx, setup_dns_async, setup_target
<1>4. UNCHANGED <<px, my_assoc>>
  BY DEF Connect, Shared
<1> QED
  BY <1>1, <1>2, <1>4 DEF Connect, Sound, Named, Judged, Ruled, Replied, Decided, Late, Readable

\* ShortRequest keeps its connection sound.
LEMMA ShortRequestSound ==
    ASSUME TypeOK, NEW c \in Cx, Sound(c), NEW cmd \in Commands, ShortRequest(c, cmd)
    PROVE  Sound(c)'
<1>1. cx[c] \in SocksCx /\ px[c] \in Proxy
  BY DEF TypeOK
<1>2. UNCHANGED View(c)
  BY <1>1 DEF ShortRequest, TypeOK, SocksCx, View, Shared
<1> QED
  BY <1>2, SoundView

\* UdpAssociate keeps its connection sound.
LEMMA UdpAssociateSound ==
    ASSUME TypeOK, NEW c \in Cx, Sound(c), NEW a \in Addresses, UdpAssociate(c, a)
    PROVE  Sound(c)'
<1>1. cx[c] \in SocksCx /\ px[c] \in Proxy
  BY DEF TypeOK
<1>2. /\ cx'[c].state_ = "WAIT_POLICY"
      /\ cx'[c].verdict_ = cx[c].verdict_
      /\ cx'[c].reply = cx[c].reply
      /\ cx'[c].answered = cx[c].answered
      /\ cx'[c].query = cx[c].query
      /\ cx'[c].my_allowed_target = cx[c].my_allowed_target
  BY <1>1 DEF UdpAssociate, TypeOK, SocksCx
<1>4. UNCHANGED <<px, my_assoc>>
  BY DEF UdpAssociate, Shared
<1> QED
  BY <1>1, <1>2, <1>4 DEF UdpAssociate, Sound, Named, Judged, Ruled, Replied, Decided, Late, Readable

\* BadRequest keeps its connection sound.
LEMMA BadRequestSound ==
    ASSUME TypeOK, NEW c \in Cx, Sound(c), NEW v \in Versions, NEW cmd \in Commands,
           NEW a \in Addresses, BadRequest(c, v, cmd, a)
    PROVE  Sound(c)'
<1>1. cx[c] \in SocksCx /\ px[c] \in Proxy
  BY DEF TypeOK
<1>2. /\ cx'[c].verdict_ = cx[c].verdict_
      /\ cx'[c].reply = cx[c].reply
      /\ cx'[c].answered = cx[c].answered
      /\ cx'[c].query = cx[c].query
      /\ cx'[c].my_allowed_target = cx[c].my_allowed_target
      /\ cx'[c].state_ \in {cx[c].state_, "REQ_RECEIVED"}
  BY <1>1 DEF BadRequest, TypeOK, SocksCx, Fails
<1>4. UNCHANGED <<px, my_assoc>>
  BY DEF BadRequest, Shared
<1> QED
  BY <1>1, <1>2, <1>4 DEF BadRequest, Sound, Named, Judged, Ruled, Replied, Decided, Late, Readable

\* DnsResolved keeps its connection sound.
LEMMA DnsResolvedSound ==
    ASSUME TypeOK, NEW c \in Cx, Sound(c), NEW t \in Targets, DnsResolved(c, t)
    PROVE  Sound(c)'
<1>1. cx[c] \in SocksCx /\ px[c] \in Proxy
  BY DEF TypeOK
<1>2. /\ cx'[c].state_ = "WAIT_POLICY"
      /\ cx'[c].verdict_ = cx[c].verdict_
      /\ cx'[c].reply = cx[c].reply
      /\ cx'[c].answered = cx[c].answered
      /\ cx'[c].query = None
      /\ cx'[c].my_allowed_target = cx[c].my_allowed_target
  BY <1>1 DEF DnsResolved, TypeOK, SocksCx, setup_target
<1>4. UNCHANGED <<px, my_assoc>>
  BY DEF DnsResolved, Shared
<1> QED
  BY <1>1, <1>2, <1>4 DEF DnsResolved, Sound, Named, Judged, Ruled, Replied, Decided, Late, Answers

\* DnsEmpty keeps its connection sound.
LEMMA DnsEmptySound ==
    ASSUME TypeOK, NEW c \in Cx, Sound(c), DnsEmpty(c)
    PROVE  Sound(c)'
<1>1. cx[c] \in SocksCx /\ px[c] \in Proxy
  BY DEF TypeOK
<1>2. /\ cx'[c].state_ = "DNS_RESP_FAILED"
      /\ cx'[c].verdict_ = cx[c].verdict_
      /\ cx'[c].reply = cx[c].reply
      /\ cx'[c].answered = cx[c].answered
      /\ cx'[c].query = None
      /\ cx'[c].my_allowed_target = cx[c].my_allowed_target
  BY <1>1 DEF DnsEmpty, TypeOK, SocksCx
<1>4. UNCHANGED <<px, my_assoc>>
  BY DEF DnsEmpty, Shared
<1> QED
  BY <1>1, <1>2, <1>4 DEF DnsEmpty, Sound, Named, Judged, Ruled, Replied, Decided, Late, Answers

\* DnsTimeout keeps its connection sound.
LEMMA DnsTimeoutSound ==
    ASSUME TypeOK, NEW c \in Cx, Sound(c), DnsTimeout(c)
    PROVE  Sound(c)'
<1>1. cx[c] \in SocksCx /\ px[c] \in Proxy
  BY DEF TypeOK
<1>2. /\ cx'[c].state_ = "DNS_RESP_RECV"
      /\ cx'[c].verdict_ = cx[c].verdict_
      /\ cx'[c].reply = cx[c].reply
      /\ cx'[c].answered = cx[c].answered
      /\ cx'[c].query = None
      /\ cx'[c].my_allowed_target = cx[c].my_allowed_target
  BY <1>1 DEF DnsTimeout, TypeOK, SocksCx
<1>4. UNCHANGED <<px, my_assoc>>
  BY DEF DnsTimeout, Shared
<1> QED
  BY <1>1, <1>2, <1>4 DEF DnsTimeout, Sound, Named, Judged, Ruled, Replied, Decided, Late, Answers

\* pre_write_dns keeps its connection sound.
LEMMA pre_write_dnsSound ==
    ASSUME TypeOK, NEW c \in Cx, Sound(c), NEW fd, pre_write_dns(c, fd)
    PROVE  Sound(c)'
<1>1. cx[c] \in SocksCx /\ px[c] \in Proxy
  BY DEF TypeOK
<1>2. \/ cx'[c] = [cx[c] EXCEPT !.error = TRUE]
      \/ \E type \in NextQuery(c) :
            cx'[c] = setup_dns_async([cx[c] EXCEPT !.tested = @ \cup {type}], type, fd)
  BY DEF pre_write_dns, TypeOK
<1>3. \A type : LET r == setup_dns_async([cx[c] EXCEPT !.tested = @ \cup {type}], type, fd)
                IN  /\ r.verdict_ = cx[c].verdict_ /\ r.reply = cx[c].reply
                    /\ r.answered = cx[c].answered
                    /\ \/ r.state_ = "DNS_QUERY_SENT"
                       \/ r.state_ = cx[c].state_ /\ r.query = cx[c].query
                    /\ r.my_allowed_target = cx[c].my_allowed_target
  BY <1>1 DEF setup_dns_async, SocksCx
<1>4. LET r == [cx[c] EXCEPT !.error = TRUE]
      IN  /\ r.verdict_ = cx[c].verdict_ /\ r.reply = cx[c].reply
          /\ r.answered = cx[c].answered /\ r.state_ = cx[c].state_ /\ r.query = cx[c].query
          /\ r.my_allowed_target = cx[c].my_allowed_target
  BY <1>1 DEF SocksCx
<1>5. /\ cx'[c].verdict_ = cx[c].verdict_ /\ cx'[c].reply = cx[c].reply
      /\ cx'[c].answered = cx[c].answered
      /\ cx'[c].my_allowed_target = cx[c].my_allowed_target
      /\ \/ cx'[c].state_ = "DNS_QUERY_SENT"
         \/ cx'[c].state_ = cx[c].state_ /\ cx'[c].query = cx[c].query
  <2>1. CASE cx'[c] = [cx[c] EXCEPT !.error = TRUE]
    BY <1>4, <2>1
  <2>2. ASSUME NEW type,
               cx'[c] = setup_dns_async([cx[c] EXCEPT !.tested = @ \cup {type}], type, fd)
        PROVE  /\ cx'[c].verdict_ = cx[c].verdict_ /\ cx'[c].reply = cx[c].reply
               /\ cx'[c].answered = cx[c].answered
               /\ cx'[c].my_allowed_target = cx[c].my_allowed_target
               /\ \/ cx'[c].state_ = "DNS_QUERY_SENT"
                  \/ cx'[c].state_ = cx[c].state_ /\ cx'[c].query = cx[c].query
    <3> DEFINE r == setup_dns_async([cx[c] EXCEPT !.tested = @ \cup {type}], type, fd)
    <3>1. cx'[c] = r
      BY <2>2
    <3>2. /\ r.verdict_ = cx[c].verdict_ /\ r.reply = cx[c].reply /\ r.answered = cx[c].answered
          /\ \/ r.state_ = "DNS_QUERY_SENT"
             \/ r.state_ = cx[c].state_ /\ r.query = cx[c].query
          /\ r.my_allowed_target = cx[c].my_allowed_target
      BY <1>3
    <3> HIDE DEF r
    <3> QED
      BY <3>1, <3>2
  <2> QED
    BY <1>2, <2>1, <2>2
<1>6. UNCHANGED <<px, my_assoc>>
  BY DEF pre_write_dns, Shared
<1> QED
  BY <1>5, <1>6 DEF pre_write_dns, Sound, Named, Judged, Ruled, Replied, Decided, Late

\* process_out keeps its connection sound.
LEMMA process_outSound ==
    ASSUME TypeOK, NEW c \in Cx, Sound(c), process_out(c)
    PROVE  Sound(c)'
<1>1. cx[c] \in SocksCx /\ px[c] \in Proxy
  BY DEF TypeOK
<1>2. /\ cx'[c].state_ = "INIT"
      /\ cx'[c].verdict_ = cx[c].verdict_
      /\ cx'[c].reply = cx[c].reply
      /\ cx'[c].answered = cx[c].answered
      /\ cx'[c].query = cx[c].query
      /\ cx'[c].my_allowed_target = cx[c].my_allowed_target
  BY <1>1 DEF process_out, TypeOK, SocksCx
<1>4. UNCHANGED <<px, my_assoc>>
  BY DEF process_out, Shared
<1> QED
  BY <1>1, <1>2, <1>4 DEF process_out, Sound, Named, Judged, Ruled, Replied, Decided, Late

\* RefuseRequest keeps its connection sound.
LEMMA RefuseRequestSound ==
    ASSUME TypeOK, NEW c \in Cx, Sound(c), RefuseRequest(c)
    PROVE  Sound(c)'
<1>1. cx[c] \in SocksCx /\ px[c] \in Proxy
  BY DEF TypeOK
<1>2. /\ cx'[c].answered = cx[c].answered
      /\ cx'[c].query = cx[c].query
      /\ cx'[c].my_allowed_target = cx[c].my_allowed_target
      /\ \/ /\ cx'[c].verdict_ = cx[c].verdict_ /\ cx'[c].reply = cx[c].reply
            /\ cx'[c].state_ = cx[c].state_
         \/ /\ cx'[c].verdict_ = "REJECT" /\ cx'[c].reply = "REJECT"
            /\ cx'[c].state_ = "REQRES_SENT"
  BY <1>1 DEF RefuseRequest, TypeOK, SocksCx, verdict
<1>4. UNCHANGED <<px, my_assoc>>
  BY DEF RefuseRequest, Shared
<1> QED
  BY <1>1, <1>2, <1>4 DEF RefuseRequest, Sound, Named, Judged, Ruled, Replied, Decided, Late, new_message

\* RejectCommand keeps its connection sound.
LEMMA RejectCommandSound ==
    ASSUME TypeOK, NEW c \in Cx, Sound(c), RejectCommand(c)
    PROVE  Sound(c)'
<1>1. cx[c] \in SocksCx /\ px[c] \in Proxy
  BY DEF TypeOK
<1>2. /\ cx'[c].state_ = "REQRES_SENT"
      /\ cx'[c].verdict_ = "REJECT"
      /\ cx'[c].reply = "REJECT"
      /\ cx'[c].answered = cx[c].answered
      /\ cx'[c].query = cx[c].query
      /\ cx'[c].my_allowed_target = cx[c].my_allowed_target
  BY <1>1 DEF RejectCommand, TypeOK, SocksCx, verdict
<1>4. UNCHANGED <<px, my_assoc>>
  BY DEF RejectCommand, Shared
<1> QED
  BY <1>1, <1>2, <1>4 DEF RejectCommand, Sound, Named, Judged, Ruled, Replied, Decided, Late, PolicyDue, new_message

\* AcceptAssociate keeps its connection sound.
LEMMA AcceptAssociateSound ==
    ASSUME TypeOK, NEW c \in Cx, Sound(c), NEW k \in Keys, AcceptAssociate(c, k)
    PROVE  Sound(c)'
<1>1. cx[c] \in SocksCx /\ px[c] \in Proxy
  BY DEF TypeOK
<1>2. /\ cx'[c].state_ = "REQRES_SENT"
      /\ cx'[c].verdict_ = "ACCEPT"
      /\ cx'[c].reply = "ACCEPT"
      /\ cx'[c].answered = cx[c].answered
      /\ cx'[c].query = cx[c].query
      /\ cx'[c].my_allowed_target = cx[c].my_allowed_target
  BY <1>1 DEF AcceptAssociate, TypeOK, SocksCx, verdict
<1>4. UNCHANGED px /\ my_assoc'[c] = k
  BY DEF AcceptAssociate, Shared, TypeOK
<1> QED
  BY <1>1, <1>2, <1>4 DEF AcceptAssociate, Sound, Named, Judged, Ruled, Replied, Decided, Late, PolicyDue, new_message

\* PolicyCheck keeps its connection sound.
LEMMA PolicyCheckSound ==
    ASSUME TypeOK, NEW c \in Cx, Sound(c), PolicyCheck(c)
    PROVE  Sound(c)'
<1>1. cx[c] \in SocksCx /\ px[c] \in Proxy
  BY DEF TypeOK
<1> DEFINE v == AsVerdict(policy_action(list, policy_match(list, cx[c].dst)))
<1>2. /\ cx'[c].state_ = IF c \in Udp THEN "ZOMBIE" ELSE "REQRES_SENT"
      /\ cx'[c].verdict_ = v
      /\ cx'[c].reply = IF c \in Udp THEN cx[c].reply ELSE v
      /\ cx'[c].answered = cx[c].answered
      /\ cx'[c].query = cx[c].query
      /\ cx'[c].my_allowed_target = cx[c].my_allowed_target
  BY <1>1 DEF PolicyCheck, TypeOK, SocksCx, verdict
<1>3. /\ px'[c].step = IF c \in Udp THEN "check" ELSE px[c].step
      /\ px'[c].right = px[c].right
      /\ px'[c].matched_policy = policy_match(list, cx[c].dst)
  BY <1>1 DEF PolicyCheck, TypeOK, Proxy, verdict
<1>4. UNCHANGED my_assoc
  BY DEF PolicyCheck, Shared
<1> QED
  BY <1>1, <1>2, <1>3, <1>4 DEF PolicyCheck, Sound, Named, Judged, Ruled, Replied, Decided, Late, PolicyDue, new_message, v, AsVerdict

\* Flush keeps its connection sound.
LEMMA FlushSound ==
    ASSUME TypeOK, NEW c \in Cx, Sound(c), Flush(c)
    PROVE  Sound(c)'
<1>1. cx[c] \in SocksCx /\ px[c] \in Proxy
  BY DEF TypeOK
<1>2. /\ cx'[c].state_ = cx[c].state_
      /\ cx'[c].verdict_ = cx[c].verdict_
      /\ cx'[c].reply = None
      /\ cx'[c].answered = cx[c].reply
      /\ cx'[c].query = cx[c].query
      /\ cx'[c].my_allowed_target = cx[c].my_allowed_target
  BY <1>1 DEF Flush, TypeOK, SocksCx
<1>4. UNCHANGED <<px, my_assoc>>
  BY DEF Flush, Shared
<1> QED
  BY <1>1, <1>2, <1>4 DEF Flush, Sound, Named, Judged, Ruled, Replied, Decided, Late

\* pre_write keeps its connection sound.
LEMMA pre_writeSound ==
    ASSUME TypeOK, NEW c \in Cx, Sound(c), pre_write(c)
    PROVE  Sound(c)'
<1>1. cx[c] \in SocksCx /\ px[c] \in Proxy
  BY DEF TypeOK
<1>v. cx[c].verdict_ \in socks5_policy
  BY <1>1 DEF SocksCx
<1>2. /\ cx'[c].state_ = "HANDOFF"
      /\ cx'[c].verdict_ = cx[c].verdict_
      /\ cx'[c].reply = cx[c].reply
      /\ cx'[c].answered = cx[c].answered
      /\ cx'[c].query = cx[c].query
      /\ cx'[c].my_allowed_target = cx[c].my_allowed_target
  BY <1>1 DEF pre_write, TypeOK, SocksCx
<1>4. UNCHANGED <<px, my_assoc>>
  BY DEF pre_write, Shared
<1> QED
  BY <1>1, <1>2, <1>4, <1>v DEF pre_write, Sound, Named, Judged, Ruled, Replied, Decided, Late

\* HandoffMessage keeps its connection sound.
LEMMA HandoffMessageSound ==
    ASSUME TypeOK, NEW c \in Cx, Sound(c), HandoffMessage(c)
    PROVE  Sound(c)'
<1>1. cx[c] \in SocksCx /\ px[c] \in Proxy
  BY DEF TypeOK
<1>2. /\ cx'[c].state_ = "ZOMBIE"
      /\ cx'[c].verdict_ = cx[c].verdict_
      /\ cx'[c].reply = cx[c].reply
      /\ cx'[c].answered = cx[c].answered
      /\ cx'[c].query = cx[c].query
      /\ cx'[c].my_allowed_target = cx[c].my_allowed_target
  BY <1>1 DEF HandoffMessage, TypeOK, SocksCx
<1>3. /\ px'[c].step = "check"
      /\ px'[c].right = px[c].right
      /\ px'[c].matched_policy = px[c].matched_policy
  BY <1>1 DEF HandoffMessage, TypeOK, Proxy
<1>4. UNCHANGED my_assoc
  BY DEF HandoffMessage, Shared
<1> QED
  BY <1>1, <1>2, <1>3, <1>4 DEF HandoffMessage, Sound, Named, Judged, Ruled, Replied, Decided, Late

\* HandoffCheck keeps its connection sound.
LEMMA HandoffCheckSound ==
    ASSUME TypeOK, NEW c \in Cx, Sound(c), HandoffCheck(c)
    PROVE  Sound(c)'
<1>1. cx[c] \in SocksCx /\ px[c] \in Proxy
  BY DEF TypeOK
<1>3. /\ px'[c].right = px[c].right
      /\ px'[c].matched_policy = px[c].matched_policy
      /\ px'[c].step \in {px[c].step, "nat"}
      /\ px'[c].step = "nat" => px[c].matched_policy >= 0
  BY <1>1 DEF HandoffCheck, TypeOK, Proxy, Dies
<1>4. UNCHANGED <<cx, my_assoc>>
  BY DEF HandoffCheck, Shared
<1> QED
  BY <1>1, <1>3, <1>4 DEF HandoffCheck, Sound, Named, Judged, Ruled, Replied, Decided, Late

\* HandoffNat keeps its connection sound.
LEMMA HandoffNatSound ==
    ASSUME TypeOK, NEW c \in Cx, Sound(c), HandoffNat(c)
    PROVE  Sound(c)'
<1>1. cx[c] \in SocksCx /\ px[c] \in Proxy
  BY DEF TypeOK
<1>3. /\ px'[c].right = px[c].right
      /\ px'[c].matched_policy = px[c].matched_policy
      /\ px'[c].step \in {"left", "thrown"}
  BY <1>1 DEF HandoffNat, TypeOK, Proxy
<1>4. UNCHANGED <<cx, my_assoc>>
  BY DEF HandoffNat, Shared
<1> QED
  BY <1>1, <1>3, <1>4 DEF HandoffNat, Sound, Named, Judged, Ruled, Replied, Decided, Late

\* ApplyLeft keeps its connection sound.
LEMMA ApplyLeftSound ==
    ASSUME TypeOK, NEW c \in Cx, Sound(c), ApplyLeft(c)
    PROVE  Sound(c)'
<1>1. cx[c] \in SocksCx /\ px[c] \in Proxy
  BY DEF TypeOK
<1>3. /\ px'[c].right = px[c].right
      /\ px'[c].matched_policy = px[c].matched_policy
      /\ px'[c].step \in {px[c].step, "right"}
  BY <1>1 DEF ApplyLeft, TypeOK, Proxy
<1>4. UNCHANGED <<cx, my_assoc>>
  BY DEF ApplyLeft, Shared
<1> QED
  BY <1>1, <1>3, <1>4 DEF ApplyLeft, Sound, Named, Judged, Ruled, Replied, Decided, Late

\* ApplyAndConnect keeps its connection sound.
LEMMA ApplyAndConnectSound ==
    ASSUME TypeOK, NEW c \in Cx, Sound(c), NEW known \in BOOLEAN, ApplyAndConnect(c, known)
    PROVE  Sound(c)'
<1>1. cx[c] \in SocksCx /\ px[c] \in Proxy
  BY DEF TypeOK
<1>3. /\ px'[c].matched_policy = px[c].matched_policy
      /\ px'[c].step \in {px[c].step, "done"}
  BY <1>1 DEF ApplyAndConnect, TypeOK, Proxy
<1>4. UNCHANGED <<cx, my_assoc>>
  BY DEF ApplyAndConnect, Shared
<1> QED
  BY <1>1, <1>3, <1>4 DEF ApplyAndConnect, Sound, Named, Judged, Ruled, Replied, Decided, Late

\* HandoffNoSource keeps its connection sound.
LEMMA HandoffNoSourceSound ==
    ASSUME TypeOK, NEW c \in Cx, Sound(c), HandoffNoSource(c)
    PROVE  Sound(c)'
<1>1. cx[c] \in SocksCx /\ px[c] \in Proxy
  BY DEF TypeOK
<1>3. /\ px'[c].step = px[c].step
      /\ px'[c].right = px[c].right
      /\ px'[c].matched_policy = px[c].matched_policy
  BY <1>1 DEF HandoffNoSource, TypeOK, Proxy, Dies
<1>4. UNCHANGED <<cx, my_assoc>>
  BY DEF HandoffNoSource, Shared
<1> QED
  BY <1>1, <1>3, <1>4 DEF HandoffNoSource, Sound, Named, Judged, Ruled, Replied, Decided, Late

\* on_left_error keeps its connection sound.
LEMMA on_left_errorSound ==
    ASSUME TypeOK, NEW c \in Cx, Sound(c), on_left_error(c)
    PROVE  Sound(c)'
<1>1. cx[c] \in SocksCx /\ px[c] \in Proxy
  BY DEF TypeOK
<1>3. /\ px'[c].step = px[c].step
      /\ px'[c].right = px[c].right
      /\ px'[c].matched_policy = px[c].matched_policy
  BY <1>1 DEF on_left_error, TypeOK, Proxy, Dies
<1>4. UNCHANGED <<cx, my_assoc>>
  BY DEF on_left_error, Shared
<1> QED
  BY <1>1, <1>3, <1>4 DEF on_left_error, Sound, Named, Judged, Ruled, Replied, Decided, Late

\* Hangup keeps its connection sound.
LEMMA HangupSound ==
    ASSUME TypeOK, NEW c \in Cx, Sound(c), Hangup(c)
    PROVE  Sound(c)'
<1>1. cx[c] \in SocksCx /\ px[c] \in Proxy
  BY DEF TypeOK
<1>3. /\ px'[c].step = px[c].step
      /\ px'[c].right = px[c].right
      /\ px'[c].matched_policy = px[c].matched_policy
  BY <1>1 DEF Hangup, TypeOK, Proxy, Dies
<1>4. UNCHANGED <<cx, my_assoc>>
  BY DEF Hangup, Shared
<1> QED
  BY <1>1, <1>3, <1>4 DEF Hangup, Sound, Named, Judged, Ruled, Replied, Decided, Late

\* on_left_new keeps its connection sound.
LEMMA on_left_newSound ==
    ASSUME TypeOK, NEW c \in Cx, Sound(c), on_left_new(c)
    PROVE  Sound(c)'
<1>1. cx[c] \in SocksCx /\ px[c] \in Proxy
  BY DEF TypeOK
<1>3. /\ px'[c].step = px[c].step
      /\ px'[c].right = px[c].right
      /\ px'[c].matched_policy = px[c].matched_policy
  BY <1>1 DEF on_left_new, TypeOK, Proxy
<1>4. UNCHANGED <<cx, my_assoc>>
  BY DEF on_left_new, Shared
<1> QED
  BY <1>1, <1>3, <1>4 DEF on_left_new, Sound, Named, Judged, Ruled, Replied, Decided, Late

\* Destroy keeps its connection sound.
LEMMA DestroySound ==
    ASSUME TypeOK, NEW c \in Cx, Sound(c), Destroy(c)
    PROVE  Sound(c)'
<1>1. cx[c] \in SocksCx /\ px[c] \in Proxy
  BY DEF TypeOK
<1>3. /\ px'[c].step = px[c].step
      /\ px'[c].right = px[c].right
      /\ px'[c].matched_policy = px[c].matched_policy
  BY <1>1 DEF Destroy, TypeOK, Proxy
<1>4. UNCHANGED <<cx, my_assoc>>
  BY DEF Destroy, Shared
<1> QED
  BY <1>1, <1>3, <1>4 DEF Destroy, Sound, Named, Judged, Ruled, Replied, Decided, Late

\* Datagram keeps its connection sound.
LEMMA DatagramSound ==
    ASSUME TypeOK, NEW c \in Cx, Sound(c), NEW a \in Targets \cup {"fqdn"}, NEW fd, Datagram(c, a, fd)
    PROVE  Sound(c)'
<1>1. cx[c] \in SocksCx /\ px[c] \in Proxy
  BY DEF TypeOK
<1>2. /\ cx'[c].verdict_ = cx[c].verdict_
      /\ cx'[c].reply = cx[c].reply
      /\ cx'[c].answered = cx[c].answered
      /\ cx'[c].my_allowed_target = a
      /\ cx'[c].state_ \in {"REQ_RECEIVED", "WAIT_POLICY", "DNS_QUERY_SENT"}
  BY <1>1 DEF Datagram, TypeOK, SocksCx, setup_dns_async, setup_target, Parsed
<1>3. /\ px'[c].step = px[c].step
      /\ px'[c].right = px[c].right
      /\ px'[c].matched_policy = px[c].matched_policy
  BY <1>1 DEF Datagram, TypeOK, Proxy, setup_dns_async, setup_target, Parsed
<1>4. UNCHANGED my_assoc
  BY DEF Datagram, Shared
<1> QED
  BY <1>1, <1>2, <1>3, <1>4 DEF Datagram, Sound, Named, Judged, Ruled, Replied, Decided, Late

\* Nothing that Sound says of other connections changes.
Elsewhere(c) ==
    \A d \in Cx \ {c} : cx'[d] = cx[d] /\ px'[d] = px[d] /\ my_assoc'[d] = my_assoc[d]

\* What a step establishes for its own connection holds for all.
LEMMA Spread ==
    ASSUME \A d \in Cx : Sound(d), NEW c \in Cx, Sound(c)', Elsewhere(c)
    PROVE  \A d \in Cx : Sound(d)'
<1>1. ASSUME NEW d \in Cx \ {c}
      PROVE  Sound(d)'
  <2>1. UNCHANGED View(d)
    BY DEF Elsewhere, View
  <2> QED
    BY <2>1, SoundView
<1> QED
  BY <1>1

\* An entry of the association table is an existing context, under its own key.
Tabled == \A k \in Keys : clients[k] # None => object[clients[k]] /\ my_assoc[clients[k]] = k

Inv == TypeOK /\ (\A c \in Cx : Sound(c)) /\ Tabled

\* A destructor takes its own entry out of the table.
LEMMA EraseTabled ==
    ASSUME TypeOK, Tabled, NEW c \in Cx, clients' = Erase(c), my_assoc' = my_assoc,
           \A d \in Cx \ {c} : object'[d] = object[d]
    PROVE  Tabled'
  BY DEF Tabled, Erase, TypeOK

\* A context that is entered in the table has no entry yet: it was undecided.
LEMMA AcceptAssociateTabled ==
    ASSUME Inv, NEW c \in Cx, NEW k \in Keys, AcceptAssociate(c, k)
    PROVE  Tabled'
<1>1. my_assoc[c] = None /\ object[c]
  BY DEF Inv, Sound, Judged, Decided, AcceptAssociate, PolicyDue, new_message, Open
<1>2. clients' = Emplace(k, c) /\ my_assoc' = [my_assoc EXCEPT ![c] = k] /\ object' = object
  BY DEF AcceptAssociate
<1> QED
  BY <1>1, <1>2 DEF Inv, TypeOK, Tabled, Emplace

\* The handoff deletes a TCP context together with its entry and keeps a UDP one.
LEMMA HandoffCheckTabled ==
    ASSUME Inv, NEW c \in Cx, HandoffCheck(c)
    PROVE  Tabled'
<1>1. CASE UNCHANGED <<object, clients>>
  BY <1>1 DEF Inv, Tabled, HandoffCheck
<1>2. CASE HandoffDelete(c)
  <2>1. CASE c \in Udp
    BY <1>2, <2>1 DEF Inv, TypeOK, Tabled, HandoffCheck, HandoffDelete
  <2>2. CASE c \notin Udp
    BY <1>2, <2>2, EraseTabled DEF Inv, TypeOK, HandoffCheck, HandoffDelete
  <2> QED
    BY <2>1, <2>2
<1> QED
  BY <1>1, <1>2 DEF HandoffCheck

\* Steps of the event loop and of the handoff.
LEMMA ServeStep ==
    ASSUME Inv, NEW c \in Cx, Serve(c)
    PROVE  Inv'
<1>1. ASSUME NEW fd \in Fds,
             pre_write_dns(c, fd)
      PROVE  Inv'
  <2>1. Elsewhere(c)
    BY <1>1 DEF Inv, pre_write_dns, Elsewhere, TypeOK, Shared
  <2>2. Tabled'
    BY <1>1 DEF Inv, pre_write_dns, Tabled, Shared
  <2> QED
    BY <1>1, <2>1, <2>2, pre_write_dnsType, pre_write_dnsSound, Spread DEF Inv
<1>2. ASSUME DnsEmpty(c)
      PROVE  Inv'
  <2>1. Elsewhere(c)
    BY <1>2 DEF Inv, DnsEmpty, Elsewhere, TypeOK, Shared
  <2>2. Tabled'
    BY <1>2 DEF Inv, DnsEmpty, Tabled, Shared
  <2> QED
    BY <1>2, <2>1, <2>2, DnsEmptyType, DnsEmptySound, Spread DEF Inv
<1>3. ASSUME DnsTimeout(c)
      PROVE  Inv'
  <2>1. Elsewhere(c)
    BY <1>3 DEF Inv, DnsTimeout, Elsewhere, TypeOK, Shared
  <2>2. Tabled'
    BY <1>3 DEF Inv, DnsTimeout, Tabled, Shared
  <2> QED
    BY <1>3, <2>1, <2>2, DnsTimeoutType, DnsTimeoutSound, Spread DEF Inv
<1>4. ASSUME NEW t \in Targets,
             DnsResolved(c, t)
      PROVE  Inv'
  <2>1. Elsewhere(c)
    BY <1>4 DEF Inv, DnsResolved, Elsewhere, TypeOK, Shared
  <2>2. Tabled'
    BY <1>4 DEF Inv, DnsResolved, Tabled, Shared
  <2> QED
    BY <1>4, <2>1, <2>2, DnsResolvedType, DnsResolvedSound, Spread DEF Inv
<1>5. ASSUME RefuseRequest(c)
      PROVE  Inv'
  <2>1. Elsewhere(c)
    BY <1>5 DEF Inv, RefuseRequest, Elsewhere, TypeOK, Shared
  <2>2. Tabled'
    BY <1>5 DEF Inv, RefuseRequest, Tabled, Shared
  <2> QED
    BY <1>5, <2>1, <2>2, RefuseRequestType, RefuseRequestSound, Spread DEF Inv
<1>6. ASSUME PolicyCheck(c)
      PROVE  Inv'
  <2>1. Elsewhere(c)
    BY <1>6 DEF Inv, PolicyCheck, Elsewhere, TypeOK, Shared
  <2>2. Tabled'
    BY <1>6 DEF Inv, PolicyCheck, Tabled, Shared
  <2> QED
    BY <1>6, <2>1, <2>2, PolicyCheckType, PolicyCheckSound, Spread DEF Inv
<1>7. ASSUME RejectCommand(c)
      PROVE  Inv'
  <2>1. Elsewhere(c)
    BY <1>7 DEF Inv, RejectCommand, Elsewhere, TypeOK, Shared
  <2>2. Tabled'
    BY <1>7 DEF Inv, RejectCommand, Tabled, Shared
  <2> QED
    BY <1>7, <2>1, <2>2, RejectCommandType, RejectCommandSound, Spread DEF Inv
<1>8. ASSUME NEW k \in Keys,
             AcceptAssociate(c, k)
      PROVE  Inv'
  <2>1. Elsewhere(c)
    BY <1>8 DEF Inv, AcceptAssociate, Elsewhere, TypeOK, Shared
  <2>2. Tabled'
    BY <1>8, AcceptAssociateTabled
  <2> QED
    BY <1>8, <2>1, <2>2, AcceptAssociateType, AcceptAssociateSound, Spread DEF Inv
<1>9. ASSUME Flush(c)
      PROVE  Inv'
  <2>1. Elsewhere(c)
    BY <1>9 DEF Inv, Flush, Elsewhere, TypeOK, Shared
  <2>2. Tabled'
    BY <1>9 DEF Inv, Flush, Tabled, Shared
  <2> QED
    BY <1>9, <2>1, <2>2, FlushType, FlushSound, Spread DEF Inv
<1>10. ASSUME pre_write(c)
      PROVE  Inv'
  <2>1. Elsewhere(c)
    BY <1>10 DEF Inv, pre_write, Elsewhere, TypeOK, Shared
  <2>2. Tabled'
    BY <1>10 DEF Inv, pre_write, Tabled, Shared
  <2> QED
    BY <1>10, <2>1, <2>2, pre_writeType, pre_writeSound, Spread DEF Inv
<1>11. ASSUME HandoffMessage(c)
      PROVE  Inv'
  <2>1. Elsewhere(c)
    BY <1>11 DEF Inv, HandoffMessage, Elsewhere, TypeOK, Shared
  <2>2. Tabled'
    BY <1>11 DEF Inv, HandoffMessage, Tabled, Shared
  <2> QED
    BY <1>11, <2>1, <2>2, HandoffMessageType, HandoffMessageSound, Spread DEF Inv
<1>12. ASSUME HandoffCheck(c)
      PROVE  Inv'
  <2>1. Elsewhere(c)
    BY <1>12 DEF Inv, HandoffCheck, Elsewhere, TypeOK, Shared, Dies
  <2>2. Tabled'
    BY <1>12, HandoffCheckTabled
  <2> QED
    BY <1>12, <2>1, <2>2, HandoffCheckType, HandoffCheckSound, Spread DEF Inv
<1>13. ASSUME HandoffNoSource(c)
      PROVE  Inv'
  <2>1. Elsewhere(c)
    BY <1>13 DEF Inv, HandoffNoSource, Elsewhere, TypeOK, Shared, Dies
  <2>2. Tabled'
    BY <1>13 DEF Inv, HandoffNoSource, Tabled, Shared
  <2> QED
    BY <1>13, <2>1, <2>2, HandoffNoSourceType, HandoffNoSourceSound, Spread DEF Inv
<1>14. ASSUME HandoffNat(c)
      PROVE  Inv'
  <2>1. Elsewhere(c)
    BY <1>14 DEF Inv, HandoffNat, Elsewhere, TypeOK, Shared
  <2>2. Tabled'
    BY <1>14 DEF Inv, HandoffNat, Tabled, Shared
  <2> QED
    BY <1>14, <2>1, <2>2, HandoffNatType, HandoffNatSound, Spread DEF Inv
<1>15. ASSUME ApplyLeft(c)
      PROVE  Inv'
  <2>1. Elsewhere(c)
    BY <1>15 DEF Inv, ApplyLeft, Elsewhere, TypeOK, Shared
  <2>2. Tabled'
    BY <1>15 DEF Inv, ApplyLeft, Tabled, Shared
  <2> QED
    BY <1>15, <2>1, <2>2, ApplyLeftType, ApplyLeftSound, Spread DEF Inv
<1>16. ASSUME NEW known \in BOOLEAN,
             ApplyAndConnect(c, known)
      PROVE  Inv'
  <2>1. Elsewhere(c)
    BY <1>16 DEF Inv, ApplyAndConnect, Elsewhere, TypeOK, Shared
  <2>2. Tabled'
    BY <1>16 DEF Inv, ApplyAndConnect, Tabled, Shared
  <2>3. c \in Udp => cx[c].my_allowed_target # None
    BY <1>16 DEF Inv, Sound, Named, ApplyAndConnect
  <2> QED
    BY <1>16, <2>1, <2>2, <2>3, ApplyAndConnectType, ApplyAndConnectSound, Spread DEF Inv
<1>17. ASSUME on_left_error(c)
      PROVE  Inv'
  <2>1. Elsewhere(c)
    BY <1>17 DEF Inv, on_left_error, Elsewhere, TypeOK, Shared, Dies
  <2>2. Tabled'
    BY <1>17 DEF Inv, on_left_error, Tabled, Shared
  <2> QED
    BY <1>17, <2>1, <2>2, on_left_errorType, on_left_errorSound, Spread DEF Inv
<1>18. ASSUME Destroy(c)
      PROVE  Inv'
  <2>1. Elsewhere(c)
    BY <1>18 DEF Inv, Destroy, Elsewhere, TypeOK, Shared
  <2>2. Tabled'
    BY <1>18, EraseTabled DEF Inv, Destroy, TypeOK
  <2> QED
    BY <1>18, <2>1, <2>2, DestroyType, DestroySound, Spread DEF Inv
<1> QED
  BY <1>1, <1>2, <1>3, <1>4, <1>5, <1>6, <1>7, <1>8, <1>9, <1>10, <1>11, <1>12, <1>13, <1>14, <1>15, <1>16, <1>17, <1>18 DEF Serve

\* A datagram for another target only sets errors elsewhere.
LEMMA UnauthorizedDatagramSound ==
    ASSUME TypeOK, NEW c \in Cx, NEW d \in Cx, Sound(d), NEW a \in Targets \cup {"fqdn"},
           UnauthorizedDatagram(c, a)
    PROVE  Sound(d)'
<1>1. cx[d] \in SocksCx
  BY DEF TypeOK
<1>2. UNCHANGED <<px, my_assoc>>
  BY DEF UnauthorizedDatagram, Shared
<1>3. CASE d = c
  <2>1. cx'[d] = [cx[d] EXCEPT !.req_cmd = "CONNECT", !.state_ = "REQ_RECEIVED",
                               !.dst = Parsed(c, a), !.error = TRUE]
    BY <1>3 DEF UnauthorizedDatagram
  <2>2. /\ cx'[d].state_ = "REQ_RECEIVED"
        /\ cx'[d].verdict_ = cx[d].verdict_
        /\ cx'[d].my_allowed_target = cx[d].my_allowed_target
    BY <1>1, <2>1 DEF SocksCx
  <2>3. cx[d].my_allowed_target # None /\ d \in Udp /\ d \notin Tcp
    BY <1>3 DEF UnauthorizedDatagram, make_authorized
  <2> QED
    BY <1>2, <2>2, <2>3 DEF Sound, Named, Judged, Ruled, Replied, Decided
<1>4. CASE d # c
  <2>1. cx'[d] = cx[d] \/ cx'[d] = [cx[d] EXCEPT !.error = TRUE]
    BY <1>4 DEF UnauthorizedDatagram
  <2>2. UNCHANGED View(d)
    BY <1>1, <1>2, <2>1 DEF View, SocksCx
  <2> QED
    BY <2>2, SoundView
<1> QED
  BY <1>3, <1>4

\* What clients cause.
LEMMA ClientStep ==
    ASSUME Inv, NEW c \in Cx, Client(c)
    PROVE  Inv'
<1>1. ASSUME on_left_new(c)
      PROVE  Inv'
  <2>1. Elsewhere(c)
    BY <1>1 DEF Inv, on_left_new, Elsewhere, TypeOK, Shared
  <2>2. Tabled'
    BY <1>1 DEF Inv, on_left_new, Tabled, TypeOK, Shared
  <2> QED
    BY <1>1, <2>1, <2>2, on_left_newType, on_left_newSound, Spread DEF Inv
<1>2. ASSUME NEW v \in Versions \ {4},
             process_socks_hello_tcp(c, v)
      PROVE  Inv'
  <2>1. Elsewhere(c)
    BY <1>2 DEF Inv, process_socks_hello_tcp, Elsewhere, TypeOK, Shared
  <2>2. Tabled'
    BY <1>2 DEF Inv, process_socks_hello_tcp, Tabled, Shared
  <2> QED
    BY <1>2, <2>1, <2>2, process_socks_hello_tcpType, process_socks_hello_tcpSound, Spread DEF Inv
<1>3. ASSUME NEW v \in Versions, NEW cmd \in Commands, NEW a \in Targets \cup {"fqdn"}, NEW fd \in Fds,
             Connect(c, v, cmd, a, fd)
      PROVE  Inv'
  <2>1. Elsewhere(c)
    BY <1>3 DEF Inv, Connect, Elsewhere, TypeOK, Shared
  <2>2. Tabled'
    BY <1>3 DEF Inv, Connect, Tabled, Shared
  <2> QED
    BY <1>3, <2>1, <2>2, ConnectType, ConnectSound, Spread DEF Inv
<1>3a. ASSUME NEW cmd \in Commands,
              ShortRequest(c, cmd)
      PROVE  Inv'
  <2>1. Elsewhere(c)
    BY <1>3a DEF Inv, ShortRequest, Elsewhere, TypeOK, Shared
  <2>2. Tabled'
    BY <1>3a DEF Inv, ShortRequest, Tabled, Shared
  <2> QED
    BY <1>3a, <2>1, <2>2, ShortRequestType, ShortRequestSound, Spread DEF Inv
<1>4. ASSUME NEW a \in Addresses,
             UdpAssociate(c, a)
      PROVE  Inv'
  <2>1. Elsewhere(c)
    BY <1>4 DEF Inv, UdpAssociate, Elsewhere, TypeOK, Shared
  <2>2. Tabled'
    BY <1>4 DEF Inv, UdpAssociate, Tabled, Shared
  <2> QED
    BY <1>4, <2>1, <2>2, UdpAssociateType, UdpAssociateSound, Spread DEF Inv
<1>5. ASSUME NEW v \in Versions, NEW cmd \in Commands, NEW a \in Addresses,
             BadRequest(c, v, cmd, a)
      PROVE  Inv'
  <2>1. Elsewhere(c)
    BY <1>5 DEF Inv, BadRequest, Fails, Elsewhere, TypeOK, Shared
  <2>2. Tabled'
    BY <1>5 DEF Inv, BadRequest, Tabled, Shared
  <2> QED
    BY <1>5, <2>1, <2>2, BadRequestType, BadRequestSound, Spread DEF Inv
<1>6. ASSUME NEW a \in Targets \cup {"fqdn"}, NEW fd \in Fds,
             Datagram(c, a, fd)
      PROVE  Inv'
  <2>1. Elsewhere(c)
    BY <1>6 DEF Inv, Datagram, Elsewhere, TypeOK, Shared
  <2>2. Tabled'
    BY <1>6 DEF Inv, Datagram, Tabled, Shared
  <2> QED
    BY <1>6, <2>1, <2>2, DatagramType, DatagramSound, Spread DEF Inv
<1>7. ASSUME process_out(c)
      PROVE  Inv'
  <2>1. Elsewhere(c)
    BY <1>7 DEF Inv, process_out, Elsewhere, TypeOK, Shared
  <2>2. Tabled'
    BY <1>7 DEF Inv, process_out, Tabled, Shared
  <2> QED
    BY <1>7, <2>1, <2>2, process_outType, process_outSound, Spread DEF Inv
<1>8. ASSUME Hangup(c)
      PROVE  Inv'
  <2>1. Elsewhere(c)
    BY <1>8 DEF Inv, Hangup, Elsewhere, TypeOK, Shared, Dies
  <2>2. Tabled'
    BY <1>8 DEF Inv, Hangup, Tabled, Shared
  <2> QED
    BY <1>8, <2>1, <2>2, HangupType, HangupSound, Spread DEF Inv
<1>9. ASSUME NEW a \in Targets \cup {"fqdn"},
             UnauthorizedDatagram(c, a)
      PROVE  Inv'
  <2>1. ASSUME NEW d \in Cx
        PROVE  Sound(d)'
    BY <1>9, UnauthorizedDatagramSound DEF Inv
  <2>2. Tabled'
    BY <1>9 DEF Inv, UnauthorizedDatagram, Tabled, Shared
  <2> QED
    BY <1>9, <2>1, <2>2, UnauthorizedDatagramType DEF Inv
<1> QED
  BY <1>1, <1>2, <1>3, <1>3a, <1>4, <1>5, <1>6, <1>7, <1>8, <1>9 DEF Client

\* The invariant holds initially.
LEMMA InvInit == Init => Inv
<1> SUFFICES ASSUME Init PROVE Inv
  OBVIOUS
<1>1. \A c \in Cx : Sound(c)
  BY DEF Init, NewCx, NewProxy, Sound, Named, Judged, Ruled, Replied, Decided, Late
<1> QED
  BY <1>1, TypeInit DEF Inv, Tabled, Init

\* Every step preserves the invariant.
LEMMA InvStep == Inv /\ [Next]_vars => Inv'
<1> SUFFICES ASSUME Inv, [Next]_vars PROVE Inv'
  OBVIOUS
<1>1. ASSUME NEW c \in Cx, Serve(c) \/ Client(c)
      PROVE  Inv'
  BY <1>1, ServeStep, ClientStep
<1>2. ASSUME NEW l \in Lists, Reload(l)
      PROVE  Inv'
  <2>1. TypeOK'
    BY <1>2 DEF Inv, TypeOK, Reload
  <2>2. \A c \in Cx : UNCHANGED View(c)
    BY <1>2 DEF Reload, View
  <2>3. Tabled'
    BY <1>2 DEF Inv, Tabled, Reload
  <2> QED
    BY <2>1, <2>2, <2>3, SoundView DEF Inv
<1>3. CASE UNCHANGED vars
  <2>1. TypeOK' /\ Tabled'
    BY <1>3 DEF Inv, TypeOK, Tabled, vars
  <2>2. \A c \in Cx : UNCHANGED View(c)
    BY <1>3 DEF vars, View
  <2> QED
    BY <2>1, <2>2, SoundView DEF Inv
<1> QED
  BY <1>1, <1>2, <1>3 DEF Next

-----------------------------------------------------------------------------
(* Theorems                                                                *)

\* The inductive invariant.
LEMMA Invariance == Spec => []Inv
  BY InvInit, InvStep, PTL DEF Spec

\* Contexts, proxies, the association table and the policy list keep their
\* shape, for any connections, targets, rules and number of reloads.
THEOREM TypeCorrect == Spec => []TypeOK
<1>1. Inv => TypeOK
  BY DEF Inv
<1> QED
  BY <1>1, Invariance, PTL

\* The table of UDP associations never holds a pointer to a destroyed context,
\* whichever connections share a key and in whatever order they end.
THEOREM NeverDangling == Spec => []NoDanglingAssoc
<1>1. Inv => NoDanglingAssoc
  BY DEF Inv, Tabled, NoDanglingAssoc
<1> QED
  BY <1>1, Invariance, PTL

\* No connection is made for a request that matched no rule, whatever is
\* loaded between the match and the handoff.
THEOREM RuleFirst == Spec => []NoRuleNoConnection
<1>1. Inv => NoRuleNoConnection
  BY DEF Inv, Sound, Ruled, NoRuleNoConnection
<1> QED
  BY <1>1, Invariance, PTL

\* A TCP session is handed off only after its reply has been written.
THEOREM ReplyFirst == Spec => []ReplyBeforeHandoff
<1>1. Inv => ReplyBeforeHandoff
  <2> SUFFICES ASSUME Inv, NEW c \in Tcp, px[c].step # "no"
               PROVE  cx[c].answered = cx[c].verdict_
    BY DEF ReplyBeforeHandoff
  <2>1. c \in Cx /\ Replied(c)
    BY DEF Inv, Sound, Cx
  <2> QED
    BY <2>1 DEF Replied, Late
<1> QED
  BY <1>1, Invariance, PTL
=============================================================================
