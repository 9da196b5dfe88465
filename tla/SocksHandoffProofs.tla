------------------------- MODULE SocksHandoffProofs -------------------------
(***************************************************************************)
(* What a handed-off SOCKS session is connected to: the rule that was      *)
(* matched, the one target of a UDP socket, the name looked up once.  The  *)
(* invariant is layered on the one of SocksProxyProofs.                    *)
(***************************************************************************)
EXTENDS SocksProxyProofs

USE DEF socks5_state, socks5_request_error, socks5_cmd, socks5_policy, DNS_Record_Type, Steps

\* TCP and UDP connections are different, and the marks for a missing address,
\* target or query are not addresses.
LEMMA Apart ==
    /\ \A c \in Tcp : c \in Cx /\ c \notin Udp
    /\ \A c \in Udp : c \in Cx /\ c \notin Tcp
    /\ None \notin Targets /\ "fqdn" \notin Targets /\ None # "fqdn"
    /\ None # "A" /\ None # "AAAA"
  BY SocksAssumption DEF Cx

USE Apart

-----------------------------------------------------------------------------
(* The invariant                                                           *)

\* Until the pair is connected, a decided request is past its DNS lookups and
\* cannot be read again; policies are applied only after the index was checked.
Settled(c) ==
    /\ px[c].matched_policy # NoPolicy => Decided(c)
    /\ px[c].step # "done" /\ Decided(c) => cx[c].state_ \in Late
    /\ cx[c].state_ \in {"REQRES_SENT", "HANDOFF"} => px[c].step = "no"
    /\ px[c].right # None => px[c].step = "done"
    /\ px[c].applied # <<>> => px[c].step \in {"right", "done"}
    /\ px[c].step # "done" /\ cx[c].query # None => cx[c].state_ = "DNS_QUERY_SENT"

\* While the list is the one the request was matched in, matching again gives
\* the same rule and only that rule has been applied.
Faithful(c) ==
    /\ px[c].seen <= reloads
    /\ reloads = px[c].seen =>
          /\ \A i \in 1..Len(px[c].applied) : px[c].applied[i] = px[c].matched_policy
          /\ px[c].step # "done" /\ px[c].matched_policy # NoPolicy =>
                px[c].matched_policy = policy_match(list, cx[c].dst)

\* A lookup is under way or has failed.
Looking == {"DNS_QUERY_SENT", "DNS_RESP_RECV", "DNS_RESP_FAILED"}

\* The queries sent for one name: no two alike, each among the tested types,
\* but for one sent from descriptor 0, after which nothing can be asked.
Once(r) ==
    /\ \A i, j \in 1..Len(r.asked) : r.asked[i] = r.asked[j] => i = j
    /\ r.state_ # "REQ_RECEIVED" \/ r.query # None =>
          \A i \in 1..Len(r.asked) : r.asked[i] \in r.tested
    /\ r.state_ \in {"INIT", "WAIT_REQUEST"} => r.asked = <<>>

\* The first type asked for is tested before the other, and the outstanding
\* query of a TCP session is the last one sent.
Asks(c) ==
    /\ Once(cx[c])
    /\ cx[c].query # None \/ cx[c].state_ \in Looking => FirstQuery(c) \in cx[c].tested
    /\ c \in Tcp /\ cx[c].query \in DNS_Record_Type => Last(cx[c].asked) = cx[c].query

\* A UDP socket keeps the target of its first datagram: an address is the
\* destination the policy sees and the one that gets connected, and no lookup
\* can replace it.
Aimed(c) ==
    c \in Udp =>
        /\ \A t \in px[c].sent : t = cx[c].my_allowed_target
        /\ px[c].sent # {} => px[c].step = "done"
        /\ px[c].step # "done" /\ cx[c].state_ = "INIT" => cx[c].my_allowed_target = None
        /\ px[c].step # "done" /\ cx[c].my_allowed_target \in Targets =>
               /\ cx[c].dst = cx[c].my_allowed_target /\ cx[c].query = None
               /\ cx[c].state_ \notin {"DNS_QUERY_SENT", "DNS_RESP_RECV", "DNS_RESP_FAILED"}
        /\ px[c].step = "done" /\ cx[c].my_allowed_target \in Targets =>
               px[c].right = cx[c].my_allowed_target

Steady(c) == Settled(c) /\ Faithful(c) /\ Asks(c) /\ Aimed(c)

Inv2 == Inv /\ \A c \in Cx : Steady(c)

\* The state of one connection that Steady speaks about.
Watched(c) ==
    <<cx[c].state_, cx[c].verdict_, cx[c].dst, cx[c].my_allowed_target, cx[c].tested,
      cx[c].query, cx[c].asked, px[c].step, px[c].matched_policy, px[c].seen,
      px[c].applied, px[c].right, px[c].sent>>

\* Steady(c) depends on the policy list and Watched(c) only.
LEMMA SteadyView ==
    ASSUME NEW c \in Cx, Steady(c), UNCHANGED Watched(c), UNCHANGED <<list, reloads>>
    PROVE  Steady(c)'
<1>1. Settled(c)'
  BY DEF Steady, Settled, Decided, Watched
<1>2. Faithful(c)'
  BY DEF Steady, Faithful, Watched
<1>3. Asks(c)'
  BY DEF Steady, Asks, Once, Watched, Looking
<1>4. Aimed(c)'
  BY DEF Steady, Aimed, Watched
<1> QED
  BY <1>1, <1>2, <1>3, <1>4 DEF Steady

-----------------------------------------------------------------------------
(* Requests, DNS and the verdict                                           *)

\* A step that asks nothing keeps the queries of the lookup.
LEMMA NothingAsked ==
    ASSUME NEW c \in Cx, Asks(c), cx'[c].asked = cx[c].asked, cx'[c].tested = cx[c].tested,
           cx'[c].query \in {cx[c].query, None},
           cx'[c].state_ \in {"INIT", "WAIT_REQUEST"} => cx[c].state_ \in {"INIT", "WAIT_REQUEST"},
           cx[c].state_ = "REQ_RECEIVED" /\ cx[c].query = None => cx'[c].state_ = "REQ_RECEIVED",
           cx'[c].state_ \in Looking => cx[c].state_ \in Looking \/ cx[c].query # None
    PROVE  Asks(c)'
<1>1. Once(cx[c])'
  BY DEF Asks, Once
<1>3. (cx[c].query # None \/ cx[c].state_ \in Looking)' => FirstQuery(c) \in cx'[c].tested
  BY DEF Asks
<1>2. (c \in Tcp /\ cx[c].query \in DNS_Record_Type)' => Last(cx[c].asked)' = cx'[c].query
  BY DEF Asks, Last
<1> QED
  BY <1>1, <1>2, <1>3 DEF Asks, FirstQuery

\* The hello decides nothing.
LEMMA process_socks_hello_tcpSteady ==
    ASSUME TypeOK, NEW c \in Cx, Sound(c), Steady(c), NEW v \in Versions \ {4},
           process_socks_hello_tcp(c, v)
    PROVE  Steady(c)'
<1>1. cx[c] \in SocksCx /\ px[c] \in Proxy
  BY DEF TypeOK
<1>2. /\ cx'[c].state_ \in {cx[c].state_, "WAIT_REQUEST"}
      /\ cx'[c].verdict_ = cx[c].verdict_
      /\ cx'[c].dst = cx[c].dst
      /\ cx'[c].my_allowed_target = cx[c].my_allowed_target
      /\ cx'[c].tested = cx[c].tested
      /\ cx'[c].query = cx[c].query
      /\ cx'[c].asked = cx[c].asked
  BY <1>1 DEF process_socks_hello_tcp, TypeOK, SocksCx
<1>4. UNCHANGED <<px, list, reloads>>
  BY DEF process_socks_hello_tcp, Shared
<1>5. Settled(c)'
  BY <1>1, <1>2, <1>4 DEF process_socks_hello_tcp, Steady, Settled, Sound, Named, Judged, Ruled, Replied, Decided, Late
<1>6. Faithful(c)'
  BY <1>1, <1>2, <1>4 DEF process_socks_hello_tcp, Steady, Faithful, Settled, Sound, Named, Judged, Ruled, Replied, Decided, Late
<1>7. Asks(c)'
  BY <1>1, <1>2, <1>4, NothingAsked DEF process_socks_hello_tcp, Steady, Looking
<1>8. Aimed(c)'
  BY <1>1, <1>2, <1>4 DEF process_socks_hello_tcp, Steady, Aimed, Settled, Sound, Named, Judged, Ruled, Replied, Decided, Late
<1> QED
  BY <1>5, <1>6, <1>7, <1>8 DEF Steady

\* An association is asked for before anything is decided.
LEMMA UdpAssociateSteady ==
    ASSUME TypeOK, NEW c \in Cx, Sound(c), Steady(c), NEW a \in Addresses,
           UdpAssociate(c, a)
    PROVE  Steady(c)'
<1>1. cx[c] \in SocksCx /\ px[c] \in Proxy
  BY DEF TypeOK
<1>2. /\ cx'[c].state_ = "WAIT_POLICY"
      /\ cx'[c].verdict_ = cx[c].verdict_
      /\ cx'[c].dst = cx[c].dst
      /\ cx'[c].my_allowed_target = cx[c].my_allowed_target
      /\ cx'[c].tested = cx[c].tested
      /\ cx'[c].query = cx[c].query
      /\ cx'[c].asked = cx[c].asked
  BY <1>1 DEF UdpAssociate, TypeOK, SocksCx
<1>4. UNCHANGED <<px, list, reloads>>
  BY DEF UdpAssociate, Shared
<1>5. Settled(c)'
  BY <1>1, <1>2, <1>4 DEF UdpAssociate, Steady, Settled, Sound, Named, Judged, Ruled, Replied, Decided, Late, Readable
<1>6. Faithful(c)'
  BY <1>1, <1>2, <1>4 DEF UdpAssociate, Steady, Faithful, Settled, Sound, Named, Judged, Ruled, Replied, Decided, Late, Readable
<1>7. Asks(c)'
  BY <1>1, <1>2, <1>4, NothingAsked DEF UdpAssociate, Steady, Looking, Readable
<1>8. Aimed(c)'
  BY <1>1, <1>2, <1>4 DEF UdpAssociate, Steady, Aimed, Settled, Sound, Named, Judged, Ruled, Replied, Decided, Late, Readable
<1> QED
  BY <1>5, <1>6, <1>7, <1>8 DEF Steady

\* A refused request decides nothing.
LEMMA BadRequestSteady ==
    ASSUME TypeOK, NEW c \in Cx, Sound(c), Steady(c), NEW v \in Versions, NEW cmd \in Commands, NEW a \in Addresses,
           BadRequest(c, v, cmd, a)
    PROVE  Steady(c)'
<1>1. cx[c] \in SocksCx /\ px[c] \in Proxy
  BY DEF TypeOK
<1>2. /\ cx'[c].state_ \in {cx[c].state_, "REQ_RECEIVED"}
      /\ cx'[c].verdict_ = cx[c].verdict_
      /\ cx'[c].dst = cx[c].dst
      /\ cx'[c].my_allowed_target = cx[c].my_allowed_target
      /\ cx'[c].tested = cx[c].tested
      /\ cx'[c].query = cx[c].query
      /\ cx'[c].asked = cx[c].asked
  BY <1>1 DEF BadRequest, TypeOK, SocksCx, Fails
<1>4. UNCHANGED <<px, list, reloads>>
  BY DEF BadRequest, Shared
<1>5. Settled(c)'
  BY <1>1, <1>2, <1>4 DEF BadRequest, Steady, Settled, Sound, Named, Judged, Ruled, Replied, Decided, Late, Readable
<1>6. Faithful(c)'
  BY <1>1, <1>2, <1>4 DEF BadRequest, Steady, Faithful, Settled, Sound, Named, Judged, Ruled, Replied, Decided, Late, Readable
<1>7. Asks(c)'
  BY <1>1, <1>2, <1>4, NothingAsked DEF BadRequest, Steady, Looking, Readable
<1>8. Aimed(c)'
  BY <1>1, <1>2, <1>4 DEF BadRequest, Steady, Aimed, Settled, Sound, Named, Judged, Ruled, Replied, Decided, Late, Readable
<1> QED
  BY <1>5, <1>6, <1>7, <1>8 DEF Steady

\* An answer comes before the decision or after the connection.
LEMMA DnsResolvedSteady ==
    ASSUME TypeOK, NEW c \in Cx, Sound(c), Steady(c), NEW t \in Targets,
           DnsResolved(c, t)
    PROVE  Steady(c)'
<1>1. cx[c] \in SocksCx /\ px[c] \in Proxy
  BY DEF TypeOK
<1>2. /\ cx'[c].state_ = "WAIT_POLICY"
      /\ cx'[c].verdict_ = cx[c].verdict_
      /\ cx'[c].dst = t
      /\ cx'[c].my_allowed_target = cx[c].my_allowed_target
      /\ cx'[c].tested = cx[c].tested
      /\ cx'[c].query = None
      /\ cx'[c].asked = cx[c].asked
  BY <1>1 DEF DnsResolved, TypeOK, SocksCx, setup_target
<1>4. UNCHANGED <<px, list, reloads>>
  BY DEF DnsResolved, Shared
<1>5. Settled(c)'
  BY <1>1, <1>2, <1>4 DEF DnsResolved, Steady, Settled, Sound, Named, Judged, Ruled, Replied, Decided, Late, Answers
<1>6. Faithful(c)'
  BY <1>1, <1>2, <1>4 DEF DnsResolved, Steady, Faithful, Settled, Sound, Named, Judged, Ruled, Replied, Decided, Late, Answers
<1>7. Asks(c)'
  BY <1>1, <1>2, <1>4, NothingAsked DEF DnsResolved, Steady, Looking, Answers
<1>8. Aimed(c)'
  BY <1>1, <1>2, <1>4 DEF DnsResolved, Steady, Aimed, Settled, Sound, Named, Judged, Ruled, Replied, Decided, Late, Answers
<1> QED
  BY <1>5, <1>6, <1>7, <1>8 DEF Steady

\* An empty answer comes before the decision or after the connection.
LEMMA DnsEmptySteady ==
    ASSUME TypeOK, NEW c \in Cx, Sound(c), Steady(c),
           DnsEmpty(c)
    PROVE  Steady(c)'
<1>1. cx[c] \in SocksCx /\ px[c] \in Proxy
  BY DEF TypeOK
<1>2. /\ cx'[c].state_ = "DNS_RESP_FAILED"
      /\ cx'[c].verdict_ = cx[c].verdict_
      /\ cx'[c].dst = cx[c].dst
      /\ cx'[c].my_allowed_target = cx[c].my_allowed_target
      /\ cx'[c].tested = cx[c].tested
      /\ cx'[c].query = None
      /\ cx'[c].asked = cx[c].asked
  BY <1>1 DEF DnsEmpty, TypeOK, SocksCx
<1>4. UNCHANGED <<px, list, reloads>>
  BY DEF DnsEmpty, Shared
<1>5. Settled(c)'
  BY <1>1, <1>2, <1>4 DEF DnsEmpty, Steady, Settled, Sound, Named, Judged, Ruled, Replied, Decided, Late, Answers
<1>6. Faithful(c)'
  BY <1>1, <1>2, <1>4 DEF DnsEmpty, Steady, Faithful, Settled, Sound, Named, Judged, Ruled, Replied, Decided, Late, Answers
<1>7. Asks(c)'
  BY <1>1, <1>2, <1>4, NothingAsked DEF DnsEmpty, Steady, Looking, Answers
<1>8. Aimed(c)'
  BY <1>1, <1>2, <1>4 DEF DnsEmpty, Steady, Aimed, Settled, Sound, Named, Judged, Ruled, Replied, Decided, Late, Answers
<1> QED
  BY <1>5, <1>6, <1>7, <1>8 DEF Steady

\* A timeout comes before the decision or after the connection.
LEMMA DnsTimeoutSteady ==
    ASSUME TypeOK, NEW c \in Cx, Sound(c), Steady(c),
           DnsTimeout(c)
    PROVE  Steady(c)'
<1>1. cx[c] \in SocksCx /\ px[c] \in Proxy
  BY DEF TypeOK
<1>2. /\ cx'[c].state_ = "DNS_RESP_RECV"
      /\ cx'[c].verdict_ = cx[c].verdict_
      /\ cx'[c].dst = cx[c].dst
      /\ cx'[c].my_allowed_target = cx[c].my_allowed_target
      /\ cx'[c].tested = cx[c].tested
      /\ cx'[c].query = None
      /\ cx'[c].asked = cx[c].asked
  BY <1>1 DEF DnsTimeout, TypeOK, SocksCx
<1>4. UNCHANGED <<px, list, reloads>>
  BY DEF DnsTimeout, Shared
<1>5. Settled(c)'
  BY <1>1, <1>2, <1>4 DEF DnsTimeout, Steady, Settled, Sound, Named, Judged, Ruled, Replied, Decided, Late, Answers
<1>6. Faithful(c)'
  BY <1>1, <1>2, <1>4 DEF DnsTimeout, Steady, Faithful, Settled, Sound, Named, Judged, Ruled, Replied, Decided, Late, Answers
<1>7. Asks(c)'
  BY <1>1, <1>2, <1>4, NothingAsked DEF DnsTimeout, Steady, Looking, Answers
<1>8. Aimed(c)'
  BY <1>1, <1>2, <1>4 DEF DnsTimeout, Steady, Aimed, Settled, Sound, Named, Judged, Ruled, Replied, Decided, Late, Answers
<1> QED
  BY <1>5, <1>6, <1>7, <1>8 DEF Steady

\* Only a connected pair has data from its right side.
LEMMA process_outSteady ==
    ASSUME TypeOK, NEW c \in Cx, Sound(c), Steady(c),
           process_out(c)
    PROVE  Steady(c)'
<1>1. cx[c] \in SocksCx /\ px[c] \in Proxy
  BY DEF TypeOK
<1>2. /\ cx'[c].state_ = "INIT"
      /\ cx'[c].verdict_ = cx[c].verdict_
      /\ cx'[c].dst = cx[c].dst
      /\ cx'[c].my_allowed_target = cx[c].my_allowed_target
      /\ cx'[c].tested = cx[c].tested
      /\ cx'[c].query = cx[c].query
      /\ cx'[c].asked = <<>>
  BY <1>1 DEF process_out, TypeOK, SocksCx
<1>4. UNCHANGED <<px, list, reloads>>
  BY DEF process_out, Shared
<1>5. Settled(c)'
  BY <1>1, <1>2, <1>4 DEF process_out, Steady, Settled, Sound, Named, Judged, Ruled, Replied, Decided, Late
<1>6. Faithful(c)'
  BY <1>1, <1>2, <1>4 DEF process_out, Steady, Faithful, Settled, Sound, Named, Judged, Ruled, Replied, Decided, Late
<1>7. Asks(c)'
  <2>1. Once(cx[c])'
    BY <1>2 DEF Once
  <2>2. c \notin Tcp
    BY DEF process_out
  <2>3. (cx[c].query # None \/ cx[c].state_ \in Looking)' => FirstQuery(c) \in cx'[c].tested
    BY <1>2 DEF Steady, Asks, Looking
  <2> QED
    BY <2>1, <2>2, <2>3 DEF Asks, FirstQuery
<1>8. Aimed(c)'
  BY <1>1, <1>2, <1>4 DEF process_out, Steady, Aimed, Settled, Sound, Named, Judged, Ruled, Replied, Decided, Late
<1> QED
  BY <1>5, <1>6, <1>7, <1>8 DEF Steady

\* A refusal is decided without a rule.
LEMMA RefuseRequestSteady ==
    ASSUME TypeOK, NEW c \in Cx, Sound(c), Steady(c),
           RefuseRequest(c)
    PROVE  Steady(c)'
<1>1. cx[c] \in SocksCx /\ px[c] \in Proxy
  BY DEF TypeOK
<1>2. /\ \/ cx'[c].state_ = cx[c].state_ /\ cx'[c].verdict_ = cx[c].verdict_
         \/ cx'[c].state_ = "REQRES_SENT" /\ cx'[c].verdict_ = "REJECT"
      /\ cx'[c].dst = cx[c].dst
      /\ cx'[c].my_allowed_target = cx[c].my_allowed_target
      /\ cx'[c].tested = cx[c].tested
      /\ cx'[c].query = cx[c].query
      /\ cx'[c].asked = cx[c].asked
  BY <1>1 DEF RefuseRequest, TypeOK, SocksCx, verdict
<1>4. UNCHANGED <<px, list, reloads>>
  BY DEF RefuseRequest, Shared
<1>5. Settled(c)'
  BY <1>1, <1>2, <1>4 DEF RefuseRequest, Steady, Settled, Sound, Named, Judged, Ruled, Replied, Decided, Late, PolicyDue, new_message
<1>6. Faithful(c)'
  BY <1>1, <1>2, <1>4 DEF RefuseRequest, Steady, Faithful, Settled, Sound, Named, Judged, Ruled, Replied, Decided, Late, PolicyDue, new_message
<1>7. Asks(c)'
  BY <1>1, <1>2, <1>4, NothingAsked DEF RefuseRequest, Steady, Looking, new_message
<1>8. Aimed(c)'
  BY <1>1, <1>2, <1>4 DEF RefuseRequest, Steady, Aimed, Settled, Sound, Named, Judged, Ruled, Replied, Decided, Late, PolicyDue, new_message
<1> QED
  BY <1>5, <1>6, <1>7, <1>8 DEF Steady

\* A command is rejected without a rule.
LEMMA RejectCommandSteady ==
    ASSUME TypeOK, NEW c \in Cx, Sound(c), Steady(c),
           RejectCommand(c)
    PROVE  Steady(c)'
<1>1. cx[c] \in SocksCx /\ px[c] \in Proxy
  BY DEF TypeOK
<1>2. /\ cx'[c].state_ = "REQRES_SENT"
      /\ cx'[c].verdict_ = "REJECT"
      /\ cx'[c].dst = cx[c].dst
      /\ cx'[c].my_allowed_target = cx[c].my_allowed_target
      /\ cx'[c].tested = cx[c].tested
      /\ cx'[c].query = cx[c].query
      /\ cx'[c].asked = cx[c].asked
  BY <1>1 DEF RejectCommand, TypeOK, SocksCx, verdict
<1>4. UNCHANGED <<px, list, reloads>>
  BY DEF RejectCommand, Shared
<1>5. Settled(c)'
  BY <1>1, <1>2, <1>4 DEF RejectCommand, Steady, Settled, Sound, Named, Judged, Ruled, Replied, Decided, Late, PolicyDue, new_message
<1>6. Faithful(c)'
  BY <1>1, <1>2, <1>4 DEF RejectCommand, Steady, Faithful, Settled, Sound, Named, Judged, Ruled, Replied, Decided, Late, PolicyDue, new_message
<1>7. Asks(c)'
  BY <1>1, <1>2, <1>4, NothingAsked DEF RejectCommand, Steady, Looking, PolicyDue
<1>8. Aimed(c)'
  BY <1>1, <1>2, <1>4 DEF RejectCommand, Steady, Aimed, Settled, Sound, Named, Judged, Ruled, Replied, Decided, Late, PolicyDue, new_message
<1> QED
  BY <1>5, <1>6, <1>7, <1>8 DEF Steady

\* An association is accepted without a rule.
LEMMA AcceptAssociateSteady ==
    ASSUME TypeOK, NEW c \in Cx, Sound(c), Steady(c), NEW k \in Keys,
           AcceptAssociate(c, k)
    PROVE  Steady(c)'
<1>1. cx[c] \in SocksCx /\ px[c] \in Proxy
  BY DEF TypeOK
<1>2. /\ cx'[c].state_ = "REQRES_SENT"
      /\ cx'[c].verdict_ = "ACCEPT"
      /\ cx'[c].dst = cx[c].dst
      /\ cx'[c].my_allowed_target = cx[c].my_allowed_target
      /\ cx'[c].tested = cx[c].tested
      /\ cx'[c].query = cx[c].query
      /\ cx'[c].asked = cx[c].asked
  BY <1>1 DEF AcceptAssociate, TypeOK, SocksCx, verdict
<1>4. UNCHANGED <<px, list, reloads>>
  BY DEF AcceptAssociate, Shared
<1>5. Settled(c)'
  BY <1>1, <1>2, <1>4 DEF AcceptAssociate, Steady, Settled, Sound, Named, Judged, Ruled, Replied, Decided, Late, PolicyDue, new_message
<1>6. Faithful(c)'
  BY <1>1, <1>2, <1>4 DEF AcceptAssociate, Steady, Faithful, Settled, Sound, Named, Judged, Ruled, Replied, Decided, Late, PolicyDue, new_message
<1>7. Asks(c)'
  BY <1>1, <1>2, <1>4, NothingAsked DEF AcceptAssociate, Steady, Looking, PolicyDue
<1>8. Aimed(c)'
  BY <1>1, <1>2, <1>4 DEF AcceptAssociate, Steady, Aimed, Settled, Sound, Named, Judged, Ruled, Replied, Decided, Late, PolicyDue, new_message
<1> QED
  BY <1>5, <1>6, <1>7, <1>8 DEF Steady

\* The flushed reply changes nothing the handoff uses.
LEMMA pre_writeSteady ==
    ASSUME TypeOK, NEW c \in Cx, Sound(c), Steady(c),
           pre_write(c)
    PROVE  Steady(c)'
<1>1. cx[c] \in SocksCx /\ px[c] \in Proxy
  BY DEF TypeOK
<1>2. /\ cx'[c].state_ = "HANDOFF"
      /\ cx'[c].verdict_ = cx[c].verdict_
      /\ cx'[c].dst = cx[c].dst
      /\ cx'[c].my_allowed_target = cx[c].my_allowed_target
      /\ cx'[c].tested = cx[c].tested
      /\ cx'[c].query = cx[c].query
      /\ cx'[c].asked = cx[c].asked
  BY <1>1 DEF pre_write, TypeOK, SocksCx
<1>4. UNCHANGED <<px, list, reloads>>
  BY DEF pre_write, Shared
<1>5. Settled(c)'
  BY <1>1, <1>2, <1>4 DEF pre_write, Steady, Settled, Sound, Named, Judged, Ruled, Replied, Decided, Late
<1>6. Faithful(c)'
  BY <1>1, <1>2, <1>4 DEF pre_write, Steady, Faithful, Settled, Sound, Named, Judged, Ruled, Replied, Decided, Late
<1>7. Asks(c)'
  BY <1>1, <1>2, <1>4, NothingAsked DEF pre_write, Steady, Looking
<1>8. Aimed(c)'
  BY <1>1, <1>2, <1>4 DEF pre_write, Steady, Aimed, Settled, Sound, Named, Judged, Ruled, Replied, Decided, Late
<1> QED
  BY <1>5, <1>6, <1>7, <1>8 DEF Steady

\* The handoff of a decided session starts with nothing applied.
LEMMA HandoffMessageSteady ==
    ASSUME TypeOK, NEW c \in Cx, Sound(c), Steady(c),
           HandoffMessage(c)
    PROVE  Steady(c)'
<1>1. cx[c] \in SocksCx /\ px[c] \in Proxy
  BY DEF TypeOK
<1>2. /\ cx'[c].state_ = "ZOMBIE"
      /\ cx'[c].verdict_ = cx[c].verdict_
      /\ cx'[c].dst = cx[c].dst
      /\ cx'[c].my_allowed_target = cx[c].my_allowed_target
      /\ cx'[c].tested = cx[c].tested
      /\ cx'[c].query = cx[c].query
      /\ cx'[c].asked = cx[c].asked
  BY <1>1 DEF HandoffMessage, TypeOK, SocksCx
<1>3. /\ px'[c].step = "check"
      /\ px'[c].matched_policy = px[c].matched_policy
      /\ px'[c].seen = px[c].seen
      /\ px'[c].applied = px[c].applied
      /\ px'[c].right = px[c].right
      /\ px'[c].sent = px[c].sent
  BY <1>1 DEF HandoffMessage, TypeOK, Proxy
<1>4. UNCHANGED <<list, reloads>>
  BY DEF HandoffMessage, Shared
<1>5. Settled(c)'
  BY <1>1, <1>2, <1>3, <1>4 DEF HandoffMessage, Steady, Settled, Sound, Named, Judged, Ruled, Replied, Decided, Late
<1>6. Faithful(c)'
  BY <1>1, <1>2, <1>3, <1>4 DEF HandoffMessage, Steady, Faithful, Settled, Sound, Named, Judged, Ruled, Replied, Decided, Late
<1>7. Asks(c)'
  BY <1>1, <1>2, <1>3, <1>4, NothingAsked DEF HandoffMessage, Steady, Looking
<1>8. Aimed(c)'
  BY <1>1, <1>2, <1>3, <1>4 DEF HandoffMessage, Steady, Aimed, Settled, Sound, Named, Judged, Ruled, Replied, Decided, Late
<1> QED
  BY <1>5, <1>6, <1>7, <1>8 DEF Steady

\* The check of the index applies nothing.
LEMMA HandoffCheckSteady ==
    ASSUME TypeOK, NEW c \in Cx, Sound(c), Steady(c),
           HandoffCheck(c)
    PROVE  Steady(c)'
<1>1. cx[c] \in SocksCx /\ px[c] \in Proxy
  BY DEF TypeOK
<1>3. /\ px'[c].step \in {px[c].step, "nat"}
      /\ px'[c].matched_policy = px[c].matched_policy
      /\ px'[c].seen = px[c].seen
      /\ px'[c].applied = px[c].applied
      /\ px'[c].right = px[c].right
      /\ px'[c].sent = px[c].sent
  BY <1>1 DEF HandoffCheck, TypeOK, Proxy, Dies
<1>4. UNCHANGED <<cx, list, reloads>>
  BY DEF HandoffCheck, Shared
<1>5. Settled(c)'
  BY <1>1, <1>3, <1>4 DEF HandoffCheck, Steady, Settled, Sound, Named, Judged, Ruled, Replied, Decided, Late
<1>6. Faithful(c)'
  BY <1>1, <1>3, <1>4 DEF HandoffCheck, Steady, Faithful, Settled, Sound, Named, Judged, Ruled, Replied, Decided, Late
<1>7. Asks(c)'
  BY <1>1, <1>3, <1>4, NothingAsked DEF HandoffCheck, Steady, Looking
<1>8. Aimed(c)'
  BY <1>1, <1>3, <1>4 DEF HandoffCheck, Steady, Aimed, Settled, Sound, Named, Judged, Ruled, Replied, Decided, Late
<1> QED
  BY <1>5, <1>6, <1>7, <1>8 DEF Steady

\* Looking at the rule's NAT applies nothing.
LEMMA HandoffNatSteady ==
    ASSUME TypeOK, NEW c \in Cx, Sound(c), Steady(c),
           HandoffNat(c)
    PROVE  Steady(c)'
<1>1. cx[c] \in SocksCx /\ px[c] \in Proxy
  BY DEF TypeOK
<1>3. /\ px'[c].step \in {"left", "thrown"}
      /\ px'[c].matched_policy = px[c].matched_policy
      /\ px'[c].seen = px[c].seen
      /\ px'[c].applied = px[c].applied
      /\ px'[c].right = px[c].right
      /\ px'[c].sent = px[c].sent
  BY <1>1 DEF HandoffNat, TypeOK, Proxy
<1>4. UNCHANGED <<cx, list, reloads>>
  BY DEF HandoffNat, Shared
<1>5. Settled(c)'
  BY <1>1, <1>3, <1>4 DEF HandoffNat, Steady, Settled, Sound, Named, Judged, Ruled, Replied, Decided, Late
<1>6. Faithful(c)'
  BY <1>1, <1>3, <1>4 DEF HandoffNat, Steady, Faithful, Settled, Sound, Named, Judged, Ruled, Replied, Decided, Late
<1>7. Asks(c)'
  BY <1>1, <1>3, <1>4, NothingAsked DEF HandoffNat, Steady, Looking
<1>8. Aimed(c)'
  BY <1>1, <1>3, <1>4 DEF HandoffNat, Steady, Aimed, Settled, Sound, Named, Judged, Ruled, Replied, Decided, Late
<1> QED
  BY <1>5, <1>6, <1>7, <1>8 DEF Steady

-----------------------------------------------------------------------------
(* Queries                                                                 *)

\* setup_dns_async with a type that has not been asked for; a query from
\* descriptor 0 only where the type is marked or nothing is asked later.
LEMMA SetupAsks ==
    ASSUME NEW r \in SocksCx, Once(r), NEW type \in DNS_Record_Type, NEW fd,
           \A i \in 1..Len(r.asked) : r.asked[i] # type /\ r.asked[i] \in r.tested,
           r.state_ \notin {"INIT", "WAIT_REQUEST"},
           type \in r.tested \/ (r.state_ = "REQ_RECEIVED" /\ r.query = None) \/ fd # "zero"
    PROVE  LET s == setup_dns_async(r, type, fd)
           IN  /\ Once(s)
               /\ Last(s.asked) = type
               /\ \/ /\ s.query \in {type, "badfd"} /\ s.state_ = "DNS_QUERY_SENT"
                     /\ s.tested = r.tested \cup {type}
                  \/ s.query = r.query /\ s.state_ = r.state_ /\ s.tested = r.tested
               /\ s.verdict_ = r.verdict_ /\ s.dst = r.dst
               /\ s.my_allowed_target = r.my_allowed_target
<1> DEFINE s == setup_dns_async(r, type, fd)
           q == r.asked
           n == Len(q)
<1>1. q \in Seq(DNS_Record_Type) /\ n \in Nat
  BY DEF SocksCx
<1>2. /\ s.asked = Append(q, type)
      /\ \/ /\ s.tested = r.tested \cup {type}
            /\ s.query = (IF fd = "ok" THEN type ELSE "badfd")
            /\ s.state_ = "DNS_QUERY_SENT"
         \/ fd = "zero" /\ s.query = r.query /\ s.state_ = r.state_ /\ s.tested = r.tested
      /\ s.verdict_ = r.verdict_ /\ s.dst = r.dst
      /\ s.my_allowed_target = r.my_allowed_target
  <2>1. CASE fd = "zero"
    BY <2>1 DEF setup_dns_async, SocksCx
  <2>2. CASE fd # "zero"
    BY <2>2 DEF setup_dns_async, SocksCx
  <2> QED
    BY <2>1, <2>2
<1>3. /\ Len(s.asked) = n + 1
      /\ s.asked[n + 1] = type
      /\ \A i \in 1..n : s.asked[i] = q[i]
  BY <1>1, <1>2
<1> HIDE DEF s
<1>4. \A i, j \in 1..Len(s.asked) : s.asked[i] = s.asked[j] => i = j
  <2> SUFFICES ASSUME NEW i \in 1..n + 1, NEW j \in 1..n + 1, s.asked[i] = s.asked[j]
               PROVE  i = j
    BY <1>3
  <2>1. CASE i \in 1..n /\ j \in 1..n
    BY <1>3, <2>1 DEF Once
  <2>2. \A k \in 1..n : s.asked[k] # type
    BY <1>3
  <2>3. CASE i \in 1..n /\ j \notin 1..n
    <3>1. j = n + 1
      BY <1>1, <2>3
    <3> QED
      BY <1>3, <2>2, <2>3, <3>1
  <2>4. CASE i \notin 1..n
    <3>1. i = n + 1
      BY <1>1, <2>4
    <3>2. j \notin 1..n
      BY <1>3, <2>2, <3>1
    <3> QED
      BY <1>1, <3>1, <3>2
  <2> QED
    BY <2>1, <2>3, <2>4
<1>5. s.state_ # "REQ_RECEIVED" \/ s.query # None =>
        \A i \in 1..Len(s.asked) : s.asked[i] \in s.tested
  <2> SUFFICES ASSUME s.state_ # "REQ_RECEIVED" \/ s.query # None, NEW i \in 1..n + 1
               PROVE  s.asked[i] \in s.tested
    BY <1>3
  <2>1. r.tested \subseteq s.tested /\ type \in s.tested
    BY <1>2
  <2>2. CASE i \in 1..n
    BY <1>3, <2>1, <2>2
  <2>3. CASE i \notin 1..n
    <3>1. i = n + 1
      BY <1>1, <2>3
    <3> QED
      BY <1>3, <2>1, <3>1
  <2> QED
    BY <2>2, <2>3
<1>6. Once(s)
  BY <1>2, <1>4, <1>5 DEF Once
<1>7. Last(s.asked) = type
  BY <1>3 DEF Last
<1> QED
  BY <1>2, <1>6, <1>7 DEF s

\* A request is read before anything is decided or asked.
LEMMA ConnectSteady ==
    ASSUME TypeOK, NEW c \in Cx, Sound(c), Steady(c), NEW v \in Versions, NEW cmd \in Commands,
           NEW a \in Targets \cup {"fqdn"}, NEW fd, Connect(c, v, cmd, a, fd)
    PROVE  Steady(c)'
<1>1. cx[c] \in SocksCx /\ px[c] \in Proxy
  BY DEF TypeOK
<1> DEFINE rec == [cx[c] EXCEPT !.version = v, !.req_cmd = cmd, !.socks_error_ = "NONE",
                                !.state_ = "REQ_RECEIVED"]
<1>r. rec \in SocksCx
  BY <1>1, SocksAssumption DEF SocksCx
<1>2. /\ rec.state_ = "REQ_RECEIVED" /\ rec.verdict_ = cx[c].verdict_ /\ rec.dst = cx[c].dst
      /\ rec.my_allowed_target = cx[c].my_allowed_target
      /\ rec.tested = cx[c].tested /\ rec.query = cx[c].query /\ rec.asked = cx[c].asked
  BY <1>1 DEF SocksCx
<1>3. cx'[c] = IF a = "fqdn" THEN setup_dns_async(rec, FirstQuery(c), fd) ELSE setup_target(rec, a)
  BY DEF Connect, TypeOK
<1>4. UNCHANGED <<px, list, reloads>>
  BY DEF Connect, Shared
<1>5. cx[c].state_ \in {"INIT", "WAIT_REQUEST"} /\ c \in Tcp /\ c \notin Udp
  BY DEF Connect, Readable
<1>6. cx[c].asked = <<>> /\ Once(rec)
  BY <1>2, <1>5 DEF Steady, Asks, Once
<1>7. /\ ~Decided(c) /\ px[c].step = "no" /\ px[c].matched_policy = NoPolicy
      /\ px[c].right = None /\ px[c].applied = <<>> /\ cx[c].query = None
  BY <1>1, <1>5 DEF Sound, Replied, Steady, Settled, Late
<1>8. CASE a = "fqdn"
  <2> DEFINE s == setup_dns_async(rec, FirstQuery(c), fd)
  <2>1. FirstQuery(c) \in DNS_Record_Type
    BY DEF FirstQuery
  <2>2. /\ Once(s)
        /\ Last(s.asked) = FirstQuery(c)
        /\ \/ /\ s.query \in {FirstQuery(c), "badfd"} /\ s.state_ = "DNS_QUERY_SENT"
              /\ FirstQuery(c) \in s.tested
           \/ s.query = None /\ s.state_ = "REQ_RECEIVED"
        /\ s.verdict_ = cx[c].verdict_
    <3> HIDE DEF rec
    <3>1. \A i \in 1..Len(rec.asked) : rec.asked[i] # FirstQuery(c) /\ rec.asked[i] \in rec.tested
      BY <1>2, <1>6
    <3>2. rec.state_ = "REQ_RECEIVED" /\ rec.query = None /\ rec.verdict_ = cx[c].verdict_
      BY <1>2, <1>7
    <3>3. LET z == setup_dns_async(rec, FirstQuery(c), fd)
          IN  /\ Once(z)
              /\ Last(z.asked) = FirstQuery(c)
              /\ \/ /\ z.query \in {FirstQuery(c), "badfd"} /\ z.state_ = "DNS_QUERY_SENT"
                    /\ z.tested = rec.tested \cup {FirstQuery(c)}
                 \/ z.query = rec.query /\ z.state_ = rec.state_ /\ z.tested = rec.tested
              /\ z.verdict_ = rec.verdict_
      BY <1>r, <1>6, <2>1, <3>1, <3>2, SetupAsks
    <3> HIDE DEF s
    <3> QED
      BY <3>2, <3>3 DEF s
  <2>3. cx'[c] = s
    BY <1>3, <1>8
  <2> HIDE DEF s, rec
  <2>4. /\ Once(cx'[c]) /\ cx'[c].verdict_ = cx[c].verdict_
        /\ \/ cx'[c].state_ = "DNS_QUERY_SENT" /\ FirstQuery(c) \in cx'[c].tested
           \/ cx'[c].state_ = "REQ_RECEIVED" /\ cx'[c].query = None
    BY <2>2, <2>3
  <2>5. cx'[c].query \in DNS_Record_Type => Last(cx'[c].asked) = cx'[c].query
    BY <2>1, <2>2, <2>3
  <2>6. Asks(c)'
    BY <2>4, <2>5 DEF Asks, Looking, FirstQuery
  <2>7. Settled(c)'
    BY <1>4, <1>7, <2>4 DEF Settled, Decided, Steady
  <2>8. Faithful(c)'
    BY <1>4, <1>7 DEF Faithful, Steady
  <2> QED
    BY <1>5, <2>6, <2>7, <2>8 DEF Steady, Aimed
<1>9. CASE a # "fqdn"
  <2>1. /\ cx'[c].state_ = "WAIT_POLICY" /\ cx'[c].verdict_ = cx[c].verdict_
        /\ cx'[c].query = cx[c].query /\ cx'[c].asked = cx[c].asked
        /\ cx'[c].tested = cx[c].tested
    BY <1>r, <1>2, <1>3, <1>9 DEF setup_target, SocksCx
  <2>2. Asks(c)'
    BY <1>5, <2>1, NothingAsked DEF Steady, Looking
  <2>3. Settled(c)'
    BY <1>4, <1>7, <2>1 DEF Settled, Decided, Steady
  <2>4. Faithful(c)'
    BY <1>4, <1>7 DEF Faithful, Steady
  <2> QED
    BY <1>5, <2>2, <2>3, <2>4 DEF Steady, Aimed
<1> QED
  BY <1>8, <1>9

\* The second query is for the type not tested yet.
LEMMA pre_write_dnsSteady ==
    ASSUME TypeOK, NEW c \in Cx, Sound(c), Steady(c), NEW fd, pre_write_dns(c, fd)
    PROVE  Steady(c)'
<1>1. cx[c] \in SocksCx /\ px[c] \in Proxy
  BY DEF TypeOK
<1>2. UNCHANGED <<px, list, reloads>> /\ cx[c].state_ = "DNS_RESP_FAILED"
  BY DEF pre_write_dns, Shared
<1>3. CASE cx'[c] = [cx[c] EXCEPT !.error = TRUE]
  <2>1. UNCHANGED Watched(c)
    BY <1>1, <1>2, <1>3 DEF Watched, SocksCx
  <2> QED
    BY <1>2, <2>1, SteadyView
<1>4. ASSUME NEW type \in NextQuery(c),
             cx'[c] = setup_dns_async([cx[c] EXCEPT !.tested = @ \cup {type}], type, fd)
      PROVE  Steady(c)'
  <2> DEFINE r == [cx[c] EXCEPT !.tested = @ \cup {type}]
  <2>1. type \in DNS_Record_Type /\ type \notin cx[c].tested
    BY DEF NextQuery
  <2>2. /\ r \in SocksCx /\ r.tested = cx[c].tested \cup {type} /\ r.asked = cx[c].asked
        /\ r.state_ = "DNS_RESP_FAILED" /\ r.query = cx[c].query
        /\ r.verdict_ = cx[c].verdict_ /\ r.dst = cx[c].dst
        /\ r.my_allowed_target = cx[c].my_allowed_target
    BY <1>1, <1>2, <2>1 DEF SocksCx
  <2>3. Once(cx[c]) /\ FirstQuery(c) \in cx[c].tested
    BY <1>2 DEF Steady, Asks, Looking
  <2>a. cx'[c] = setup_dns_async(r, type, fd)
    BY <1>4
  <2> HIDE DEF r
  <2>b. \A i \in 1..Len(r.asked) : r.asked[i] # type /\ r.asked[i] \in r.tested
    BY <1>2, <2>1, <2>2, <2>3 DEF Once
  <2>c. Once(r)
    BY <2>2, <2>3, <2>b DEF Once
  <2>4. /\ Once(cx'[c]) /\ Last(cx'[c].asked) = type
        /\ \/ cx'[c].query \in {type, "badfd"} /\ cx'[c].state_ = "DNS_QUERY_SENT"
           \/ cx'[c].query = cx[c].query /\ cx'[c].state_ = cx[c].state_
        /\ FirstQuery(c) \in cx'[c].tested /\ cx'[c].verdict_ = cx[c].verdict_
        /\ cx'[c].dst = cx[c].dst /\ cx'[c].my_allowed_target = cx[c].my_allowed_target
    <3>1. LET z == setup_dns_async(r, type, fd)
          IN  /\ Once(z) /\ Last(z.asked) = type
              /\ \/ z.query \in {type, "badfd"} /\ z.state_ = "DNS_QUERY_SENT"
                    /\ z.tested = r.tested \cup {type}
                 \/ z.query = r.query /\ z.state_ = r.state_ /\ z.tested = r.tested
              /\ z.verdict_ = r.verdict_ /\ z.dst = r.dst
              /\ z.my_allowed_target = r.my_allowed_target
      BY <2>1, <2>2, <2>b, <2>c, SetupAsks
    <3> QED
      BY <1>2, <2>2, <2>3, <2>a, <3>1
  <2>5. Asks(c)'
    <3>1. c \in Tcp => cx[c].query \notin DNS_Record_Type
      BY <1>2 DEF Sound, Replied
    <3> QED
      BY <2>4, <3>1 DEF Asks, FirstQuery
  <2>6. Settled(c)'
    BY <1>2, <2>4 DEF Settled, Decided, Steady, Late
  <2>7. Faithful(c)'
    BY <1>2, <2>4 DEF Faithful, Steady
  <2>8. Aimed(c)'
    BY <1>2, <2>4 DEF Aimed, Steady, Settled
  <2> QED
    BY <2>5, <2>6, <2>7, <2>8 DEF Steady
<1> QED
  BY <1>3, <1>4 DEF pre_write_dns, TypeOK

-----------------------------------------------------------------------------
(* Policy and handoff                                                      *)

\* PolicyCheck matches the destination that stays until the connection.
LEMMA PolicyCheckSteady ==
    ASSUME TypeOK, NEW c \in Cx, Sound(c), Steady(c), PolicyCheck(c)
    PROVE  Steady(c)'
<1>1. cx[c] \in SocksCx /\ px[c] \in Proxy /\ reloads \in Nat
  BY SocksAssumption DEF TypeOK
<1> DEFINE v == AsVerdict(policy_action(list, policy_match(list, cx[c].dst)))
<1>2. /\ cx'[c].state_ = IF c \in Udp THEN "ZOMBIE" ELSE "REQRES_SENT"
      /\ cx'[c].verdict_ = v
      /\ cx'[c].dst = cx[c].dst
      /\ cx'[c].my_allowed_target = cx[c].my_allowed_target
      /\ cx'[c].tested = cx[c].tested
      /\ cx'[c].query = cx[c].query
      /\ cx'[c].asked = cx[c].asked
  BY <1>1 DEF PolicyCheck, TypeOK, SocksCx, verdict
<1>3. /\ px'[c].step = IF c \in Udp THEN "check" ELSE px[c].step
      /\ px'[c].matched_policy = policy_match(list, cx[c].dst)
      /\ px'[c].seen = reloads
      /\ px'[c].applied = px[c].applied
      /\ px'[c].right = px[c].right
      /\ px'[c].sent = px[c].sent
  BY <1>1 DEF PolicyCheck, TypeOK, Proxy
<1>4. UNCHANGED <<list, reloads>>
  BY DEF PolicyCheck, Shared
<1>v. v # "PENDING"
  BY DEF AsVerdict
<1> HIDE DEF v
<1>5. /\ cx[c].state_ = "WAIT_POLICY" /\ px[c].step = "no" /\ px[c].applied = <<>>
      /\ px[c].right = None /\ cx[c].query = None
  BY DEF PolicyCheck, PolicyDue, new_message, Sound, Judged, Decided, Steady, Settled
<1>6. Settled(c)'
  BY <1>2, <1>3, <1>5, <1>v DEF Settled, Decided, Late
<1>7. Faithful(c)'
  BY <1>1, <1>2, <1>3, <1>4, <1>5 DEF Faithful
<1>8. Asks(c)'
  BY <1>2, <1>5, NothingAsked DEF Steady, Looking
<1>9. Aimed(c)'
  BY <1>2, <1>3, <1>5 DEF Aimed, Steady
<1> QED
  BY <1>6, <1>7, <1>8, <1>9 DEF Steady

\* With the list of the match, policy_apply gives the matched rule.
LEMMA ApplySame ==
    ASSUME TypeOK, NEW c \in Cx, Ruled(c), Faithful(c), reloads = px[c].seen,
           px[c].step \in {"left", "right"}
    PROVE  policy_apply(c) = px[c].matched_policy
<1>1. px[c] \in Proxy
  BY DEF TypeOK
<1>2. px[c].matched_policy \in Int /\ px[c].matched_policy >= 0
  BY <1>1 DEF Ruled, Proxy
<1> QED
  BY <1>2 DEF Faithful, policy_apply, NoPolicy

\* ApplyLeft applies the matched rule.
LEMMA ApplyLeftSteady ==
    ASSUME TypeOK, NEW c \in Cx, Sound(c), Steady(c), ApplyLeft(c)
    PROVE  Steady(c)'
<1>1. cx[c] \in SocksCx /\ px[c] \in Proxy
  BY DEF TypeOK
<1>2. UNCHANGED <<cx, list, reloads>> /\ px[c].step = "left" /\ c \in Tcp /\ c \notin Udp
  BY DEF ApplyLeft, Shared
<1>3. CASE px'[c] = [px[c] EXCEPT !.conn = "dead"]
  <2>1. UNCHANGED Watched(c)
    BY <1>1, <1>2, <1>3 DEF Watched, Proxy
  <2> QED
    BY <1>2, <2>1, SteadyView
<1>4. CASE px'[c] = [px[c] EXCEPT !.applied = <<policy_apply(c)>>, !.step = "right"]
  <2>1. /\ px'[c].step = "right"
        /\ px'[c].matched_policy = px[c].matched_policy
        /\ px'[c].seen = px[c].seen
        /\ px'[c].applied = <<policy_apply(c)>>
        /\ px'[c].right = px[c].right
    BY <1>1, <1>4 DEF Proxy
  <2>2. reloads = px[c].seen => policy_apply(c) = px[c].matched_policy
    BY <1>2, ApplySame DEF Sound, Steady
  <2>3. Settled(c)'
    BY <1>2, <2>1 DEF Settled, Decided, Steady
  <2>4. Len(px'[c].applied) = 1 /\ px'[c].applied[1] = policy_apply(c)
    BY <2>1
  <2>5. Faithful(c)'
    BY <1>2, <2>1, <2>2, <2>4 DEF Faithful, Steady
  <2>6. Asks(c)'
    BY <1>2, NothingAsked DEF Steady, Looking
  <2> QED
    BY <1>2, <2>3, <2>5, <2>6 DEF Steady, Aimed
<1> QED
  BY <1>3, <1>4 DEF ApplyLeft, TypeOK

\* ApplyAndConnect applies the matched rule and connects a UDP socket to its
\* target.
LEMMA ApplyAndConnectSteady ==
    ASSUME TypeOK, NEW c \in Cx, Sound(c), Steady(c), NEW known \in BOOLEAN, ApplyAndConnect(c, known)
    PROVE  Steady(c)'
<1>1. cx[c] \in SocksCx /\ px[c] \in Proxy
  BY DEF TypeOK
<1>2. UNCHANGED <<cx, list, reloads>> /\ px[c].step = IF c \in Udp THEN "left" ELSE "right"
  BY DEF ApplyAndConnect, Shared
<1> DEFINE i == policy_apply(c)
           o == IF ~known /\ Refusable(i) THEN "dead" ELSE px[c].conn
           n == IF c \in Udp THEN {cx[c].my_allowed_target} ELSE px[c].sent
           done == [px[c] EXCEPT !.right = cx[c].dst, !.applied = Append(@, i), !.sent = n,
                                 !.conn = o, !.step = "done"]
<1>3. px'[c] = [px[c] EXCEPT !.conn = "dead"] \/ px'[c] = done
  BY DEF ApplyAndConnect, TypeOK
<1>4. CASE px'[c] = [px[c] EXCEPT !.conn = "dead"]
  <2>1. UNCHANGED Watched(c)
    BY <1>1, <1>2, <1>4 DEF Watched, Proxy
  <2> QED
    BY <1>2, <2>1, SteadyView
<1>5. CASE px'[c] = done
  <2>i. i \in Int
    BY ApplyType
  <2> HIDE DEF o, i, n
  <2>1. /\ px'[c].step = "done"
        /\ px'[c].matched_policy = px[c].matched_policy
        /\ px'[c].seen = px[c].seen
        /\ px'[c].applied = Append(px[c].applied, i)
        /\ px'[c].right = cx[c].dst
        /\ px'[c].sent = n
    BY <1>1, <1>5 DEF Proxy
  <2> HIDE DEF done
  <2>2. reloads = px[c].seen => i = px[c].matched_policy
    BY <1>2, ApplySame DEF Sound, Steady, i
  <2>3. Settled(c)'
    <3>1. cx[c].verdict_ # "PENDING"
      BY <1>2 DEF Sound, Judged, Decided
    <3>2. cx[c].state_ \notin {"REQRES_SENT", "HANDOFF"}
      BY <1>2 DEF Steady, Settled
    <3> QED
      BY <1>2, <2>1, <3>1, <3>2 DEF Settled, Decided
  <2>4. Faithful(c)'
    <3> DEFINE s == px[c].applied
    <3>1. s \in Seq(Int)
      BY <1>1 DEF Proxy
    <3>2. \A j \in 1..Len(Append(s, i)) : Append(s, i)[j] = i \/ (j \in 1..Len(s) /\ Append(s, i)[j] = s[j])
      BY <2>i, <3>1
    <3>3. reloads = px[c].seen => \A j \in 1..Len(s) : s[j] = px[c].matched_policy
      BY DEF Steady, Faithful
    <3>4. reloads = px[c].seen => \A j \in 1..Len(Append(s, i)) : Append(s, i)[j] = px[c].matched_policy
      BY <2>2, <3>2, <3>3
    <3> QED
      BY <1>2, <2>1, <3>4 DEF Faithful, Steady
  <2>5. Asks(c)'
    BY <1>2, NothingAsked DEF Steady, Looking
  <2>6. Aimed(c)'
    BY <1>2, <2>1 DEF Aimed, Steady, n
  <2> QED
    BY <2>3, <2>4, <2>5, <2>6 DEF Steady
<1> QED
  BY <1>3, <1>4, <1>5

-----------------------------------------------------------------------------
(* Datagrams                                                               *)

\* An authorized datagram is the first of its socket, or one for its target.
LEMMA DatagramSteady ==
    ASSUME TypeOK, NEW c \in Cx, Sound(c), Steady(c), NEW a \in Targets \cup {"fqdn"}, NEW fd,
           Datagram(c, a, fd)
    PROVE  Steady(c)'
<1>1. cx[c] \in SocksCx /\ px[c] \in Proxy
  BY DEF TypeOK
<1> DEFINE t == Parsed(c, a)
           rec == [cx[c] EXCEPT !.req_cmd = "CONNECT", !.my_allowed_target = a,
                                !.state_ = "REQ_RECEIVED", !.dst = t]
<1>t. t \in Targets \cup {None} /\ (a \in Targets => t = a)
  BY <1>1 DEF Parsed, SocksCx
<1>2. /\ c \in Udp /\ c \notin Tcp /\ cx[c].state_ = "INIT"
      /\ cx[c].my_allowed_target \in {None, a}
      /\ UNCHANGED <<list, reloads>>
  BY DEF Datagram, make_authorized, Shared
<1>3. cx'[c] = IF ~Associated(c) THEN rec
               ELSE IF a = "fqdn" THEN setup_dns_async(rec, FirstQuery(c), fd)
               ELSE setup_target(rec, a)
  BY DEF Datagram, TypeOK
<1>4. /\ px'[c].step = px[c].step
      /\ px'[c].matched_policy = px[c].matched_policy
      /\ px'[c].seen = px[c].seen
      /\ px'[c].applied = px[c].applied
      /\ px'[c].right = px[c].right
      /\ px'[c].sent = IF Associated(c) /\ px[c].right # None THEN px[c].sent \cup {a} ELSE px[c].sent
  BY <1>1 DEF Datagram, TypeOK, Proxy
<1> HIDE DEF t
<1>r. rec \in SocksCx
  BY <1>1, <1>t DEF SocksCx
<1>5. /\ rec.state_ = "REQ_RECEIVED" /\ rec.verdict_ = cx[c].verdict_ /\ rec.dst = t
      /\ rec.my_allowed_target = a /\ rec.tested = cx[c].tested
      /\ rec.query = cx[c].query /\ rec.asked = cx[c].asked
  BY <1>1 DEF SocksCx
<1> HIDE DEF rec
<1>6. cx[c].asked = <<>> /\ Once(rec)
  BY <1>2, <1>5 DEF Steady, Asks, Once
<1>7. /\ cx'[c].verdict_ = cx[c].verdict_ /\ cx'[c].my_allowed_target = a
      /\ cx'[c].dst = t /\ Once(cx'[c])
      /\ \/ cx'[c].state_ = "DNS_QUERY_SENT" /\ a = "fqdn" /\ FirstQuery(c) \in cx'[c].tested
         \/ /\ cx'[c].state_ \in {"REQ_RECEIVED", "WAIT_POLICY"} /\ cx'[c].query = cx[c].query
            /\ cx'[c].tested = cx[c].tested
  <2>1. CASE ~Associated(c)
    BY <1>3, <1>5, <1>6, <2>1
  <2>2. CASE Associated(c) /\ a = "fqdn"
    <3>1. FirstQuery(c) \in DNS_Record_Type
      BY DEF FirstQuery
    <3>2. \A i \in 1..Len(rec.asked) : rec.asked[i] # FirstQuery(c) /\ rec.asked[i] \in rec.tested
      BY <1>5, <1>6
    <3>z. FirstQuery(c) \in rec.tested \/ (rec.state_ = "REQ_RECEIVED" /\ rec.query = None)
      BY <1>5 DEF Steady, Asks
    <3> DEFINE s == setup_dns_async(rec, FirstQuery(c), fd)
    <3>3. /\ Once(s) /\ s.verdict_ = rec.verdict_
          /\ \/ s.state_ = "DNS_QUERY_SENT" /\ s.tested = rec.tested \cup {FirstQuery(c)}
             \/ s.query = rec.query /\ s.state_ = rec.state_ /\ s.tested = rec.tested
          /\ s.dst = rec.dst /\ s.my_allowed_target = rec.my_allowed_target
      BY <1>r, <1>5, <1>6, <3>1, <3>2, <3>z, SetupAsks
    <3> HIDE DEF s
    <3>4. cx'[c] = s
      BY <1>3, <2>2 DEF s
    <3> QED
      BY <1>5, <2>2, <3>3, <3>4
  <2>3. CASE Associated(c) /\ a # "fqdn"
    <3> DEFINE s == setup_target(rec, a)
    <3>1. /\ s.state_ = "WAIT_POLICY" /\ s.verdict_ = rec.verdict_ /\ s.dst = a
          /\ s.my_allowed_target = rec.my_allowed_target /\ s.tested = rec.tested
          /\ s.query = rec.query /\ s.asked = rec.asked
      BY <1>r DEF setup_target, SocksCx
    <3>2. cx'[c] = s
      BY <1>3, <2>3
    <3> HIDE DEF s
    <3>3. Once(s)
      BY <1>5, <1>6, <3>1 DEF Once
    <3> QED
      BY <1>5, <1>t, <2>3, <3>1, <3>2, <3>3
  <2> QED
    BY <2>1, <2>2, <2>3
<1>8. px[c].step # "done" => ~Decided(c) /\ cx[c].query = None /\ cx[c].my_allowed_target = None
                             /\ px[c].matched_policy = NoPolicy
  BY <1>2 DEF Steady, Settled, Aimed, Late
<1>9. px[c].step = "done" => cx[c].my_allowed_target = a
  BY <1>2 DEF Sound, Named
<1>10. Settled(c)'
  BY <1>4, <1>7, <1>8 DEF Settled, Decided, Steady
<1>11. Faithful(c)'
  BY <1>2, <1>4, <1>8 DEF Faithful, Steady
<1>12. Asks(c)'
  <2>1. (cx[c].query # None \/ cx[c].state_ \in Looking)' => FirstQuery(c) \in cx'[c].tested
    BY <1>7 DEF Steady, Asks, Looking
  <2> QED
    BY <1>2, <1>7, <2>1 DEF Asks, FirstQuery
<1>13. Aimed(c)'
  BY <1>2, <1>4, <1>7, <1>8, <1>9, <1>t DEF Aimed, Steady, Settled
<1> QED
  BY <1>10, <1>11, <1>12, <1>13 DEF Steady

\* Another target can only be named once the pair is connected: the datagram
\* changes nothing that was decided.
LEMMA UnauthorizedDatagramSteady ==
    ASSUME TypeOK, NEW c \in Cx, NEW d \in Cx, Sound(d), Steady(d), NEW a \in Targets \cup {"fqdn"},
           UnauthorizedDatagram(c, a)
    PROVE  Steady(d)'
<1>1. cx[d] \in SocksCx
  BY DEF TypeOK
<1>2. UNCHANGED <<px, list, reloads>>
  BY DEF UnauthorizedDatagram, Shared
<1>3. CASE d = c
  <2>1. cx'[d] = [cx[d] EXCEPT !.req_cmd = "CONNECT", !.state_ = "REQ_RECEIVED",
                               !.dst = Parsed(c, a), !.error = TRUE]
    BY <1>3 DEF UnauthorizedDatagram
  <2>2. /\ cx'[d].state_ = "REQ_RECEIVED"
        /\ cx'[d].verdict_ = cx[d].verdict_
        /\ cx'[d].my_allowed_target = cx[d].my_allowed_target
        /\ cx'[d].query = cx[d].query
        /\ cx'[d].tested = cx[d].tested
        /\ cx'[d].asked = cx[d].asked
    BY <1>1, <2>1 DEF SocksCx
  <2>3. cx[d].my_allowed_target # None /\ d \in Udp /\ d \notin Tcp /\ cx[d].state_ = "INIT"
    BY <1>3 DEF UnauthorizedDatagram, make_authorized
  <2>4. px[d].step = "done"
    BY <2>3 DEF Steady, Aimed
  <2>5. Settled(d)'
    BY <1>2, <2>2, <2>4 DEF Settled, Decided, Steady
  <2>6. Faithful(d)'
    BY <1>2, <2>4 DEF Faithful, Steady
  <2>7. Asks(d)'
    BY <2>2, <2>3, NothingAsked DEF Steady, Looking
  <2>8. Aimed(d)'
    BY <1>2, <2>2, <2>4 DEF Aimed, Steady
  <2> QED
    BY <2>5, <2>6, <2>7, <2>8 DEF Steady
<1>4. CASE d # c
  <2>1. cx'[d] = cx[d] \/ cx'[d] = [cx[d] EXCEPT !.error = TRUE]
    BY <1>4 DEF UnauthorizedDatagram
  <2>2. UNCHANGED Watched(d)
    BY <1>1, <1>2, <2>1 DEF Watched, SocksCx
  <2> QED
    BY <1>2, <2>2, SteadyView
<1> QED
  BY <1>3, <1>4

-----------------------------------------------------------------------------
(* Steps                                                                   *)

\* What a step establishes for its own connection holds for all.
LEMMA SpreadSteady ==
    ASSUME \A d \in Cx : Steady(d), NEW c \in Cx, Steady(c)', Elsewhere(c),
           UNCHANGED <<list, reloads>>
    PROVE  \A d \in Cx : Steady(d)'
<1>1. ASSUME NEW d \in Cx \ {c}
      PROVE  Steady(d)'
  <2>1. UNCHANGED Watched(d)
    BY DEF Elsewhere, Watched
  <2> QED
    BY <2>1, SteadyView
<1> QED
  BY <1>1

\* A step that only opens, closes or destroys a connection, or writes its reply.
LEMMA SilentSteady ==
    ASSUME TypeOK, NEW c \in Cx, Steady(c),
           \/ on_left_new(c) \/ Flush(c) \/ HandoffNoSource(c)
           \/ on_left_error(c) \/ Hangup(c) \/ Destroy(c)
    PROVE  Steady(c)'
<1>1. cx[c] \in SocksCx /\ px[c] \in Proxy
  BY DEF TypeOK
<1>2. UNCHANGED <<list, reloads>>
  BY DEF on_left_new, Flush, HandoffNoSource, on_left_error, Hangup, Destroy, Shared
<1>3. CASE Flush(c)
  <2>1. UNCHANGED Watched(c)
    BY <1>1, <1>3 DEF Flush, Watched, SocksCx, TypeOK
  <2> QED
    BY <1>2, <2>1, SteadyView
<1>4. CASE ~Flush(c)
  <2>1. cx' = cx /\ \E o : px'[c] = [px[c] EXCEPT !.conn = o]
    BY <1>4 DEF on_left_new, HandoffNoSource, on_left_error, Hangup, Destroy, Dies, TypeOK
  <2>2. UNCHANGED Watched(c)
    BY <1>1, <2>1 DEF Watched, Proxy
  <2> QED
    BY <1>2, <2>2, SteadyView
<1> QED
  BY <1>3, <1>4

\* Steps of the event loop and of the handoff.
LEMMA ServeSteady ==
    ASSUME Inv2, NEW c \in Cx, Serve(c)
    PROVE  \A d \in Cx : Steady(d)'
<1>0. TypeOK /\ Sound(c) /\ Steady(c) /\ \A d \in Cx : Steady(d)
  BY DEF Inv2, Inv
<1>1. ASSUME NEW fd \in Fds, pre_write_dns(c, fd)
      PROVE  \A d \in Cx : Steady(d)'
  <2>1. Elsewhere(c) /\ UNCHANGED <<list, reloads>>
    BY <1>0, <1>1 DEF pre_write_dns, Elsewhere, TypeOK, Shared
  <2>2. Steady(c)'
    BY <1>0, <1>1, pre_write_dnsSteady
  <2> QED
    BY <1>0, <2>1, <2>2, SpreadSteady
<1>2. ASSUME DnsEmpty(c)
      PROVE  \A d \in Cx : Steady(d)'
  <2>1. Elsewhere(c) /\ UNCHANGED <<list, reloads>>
    BY <1>0, <1>2 DEF DnsEmpty, Elsewhere, TypeOK, Shared
  <2>2. Steady(c)'
    BY <1>0, <1>2, DnsEmptySteady
  <2> QED
    BY <1>0, <2>1, <2>2, SpreadSteady
<1>3. ASSUME DnsTimeout(c)
      PROVE  \A d \in Cx : Steady(d)'
  <2>1. Elsewhere(c) /\ UNCHANGED <<list, reloads>>
    BY <1>0, <1>3 DEF DnsTimeout, Elsewhere, TypeOK, Shared
  <2>2. Steady(c)'
    BY <1>0, <1>3, DnsTimeoutSteady
  <2> QED
    BY <1>0, <2>1, <2>2, SpreadSteady
<1>4. ASSUME NEW t \in Targets, DnsResolved(c, t)
      PROVE  \A d \in Cx : Steady(d)'
  <2>1. Elsewhere(c) /\ UNCHANGED <<list, reloads>>
    BY <1>0, <1>4 DEF DnsResolved, Elsewhere, TypeOK, Shared
  <2>2. Steady(c)'
    BY <1>0, <1>4, DnsResolvedSteady
  <2> QED
    BY <1>0, <2>1, <2>2, SpreadSteady
<1>5. ASSUME RefuseRequest(c)
      PROVE  \A d \in Cx : Steady(d)'
  <2>1. Elsewhere(c) /\ UNCHANGED <<list, reloads>>
    BY <1>0, <1>5 DEF RefuseRequest, Elsewhere, TypeOK, Shared
  <2>2. Steady(c)'
    BY <1>0, <1>5, RefuseRequestSteady
  <2> QED
    BY <1>0, <2>1, <2>2, SpreadSteady
<1>6. ASSUME PolicyCheck(c)
      PROVE  \A d \in Cx : Steady(d)'
  <2>1. Elsewhere(c) /\ UNCHANGED <<list, reloads>>
    BY <1>0, <1>6 DEF PolicyCheck, Elsewhere, TypeOK, Shared
  <2>2. Steady(c)'
    BY <1>0, <1>6, PolicyCheckSteady
  <2> QED
    BY <1>0, <2>1, <2>2, SpreadSteady
<1>7. ASSUME RejectCommand(c)
      PROVE  \A d \in Cx : Steady(d)'
  <2>1. Elsewhere(c) /\ UNCHANGED <<list, reloads>>
    BY <1>0, <1>7 DEF RejectCommand, Elsewhere, TypeOK, Shared
  <2>2. Steady(c)'
    BY <1>0, <1>7, RejectCommandSteady
  <2> QED
    BY <1>0, <2>1, <2>2, SpreadSteady
<1>8. ASSUME NEW k \in Keys, AcceptAssociate(c, k)
      PROVE  \A d \in Cx : Steady(d)'
  <2>1. Elsewhere(c) /\ UNCHANGED <<list, reloads>>
    BY <1>0, <1>8 DEF AcceptAssociate, Elsewhere, TypeOK, Shared
  <2>2. Steady(c)'
    BY <1>0, <1>8, AcceptAssociateSteady
  <2> QED
    BY <1>0, <2>1, <2>2, SpreadSteady
<1>9. ASSUME Flush(c)
      PROVE  \A d \in Cx : Steady(d)'
  <2>1. Elsewhere(c) /\ UNCHANGED <<list, reloads>>
    BY <1>0, <1>9 DEF Flush, Elsewhere, TypeOK, Shared
  <2>2. Steady(c)'
    BY <1>0, <1>9, SilentSteady
  <2> QED
    BY <1>0, <2>1, <2>2, SpreadSteady
<1>10. ASSUME pre_write(c)
      PROVE  \A d \in Cx : Steady(d)'
  <2>1. Elsewhere(c) /\ UNCHANGED <<list, reloads>>
    BY <1>0, <1>10 DEF pre_write, Elsewhere, TypeOK, Shared
  <2>2. Steady(c)'
    BY <1>0, <1>10, pre_writeSteady
  <2> QED
    BY <1>0, <2>1, <2>2, SpreadSteady
<1>11. ASSUME HandoffMessage(c)
      PROVE  \A d \in Cx : Steady(d)'
  <2>1. Elsewhere(c) /\ UNCHANGED <<list, reloads>>
    BY <1>0, <1>11 DEF HandoffMessage, Elsewhere, TypeOK, Shared
  <2>2. Steady(c)'
    BY <1>0, <1>11, HandoffMessageSteady
  <2> QED
    BY <1>0, <2>1, <2>2, SpreadSteady
<1>12. ASSUME HandoffCheck(c)
      PROVE  \A d \in Cx : Steady(d)'
  <2>1. Elsewhere(c) /\ UNCHANGED <<list, reloads>>
    BY <1>0, <1>12 DEF HandoffCheck, Elsewhere, TypeOK, Shared, Dies
  <2>2. Steady(c)'
    BY <1>0, <1>12, HandoffCheckSteady
  <2> QED
    BY <1>0, <2>1, <2>2, SpreadSteady
<1>13. ASSUME HandoffNoSource(c)
      PROVE  \A d \in Cx : Steady(d)'
  <2>1. Elsewhere(c) /\ UNCHANGED <<list, reloads>>
    BY <1>0, <1>13 DEF HandoffNoSource, Elsewhere, TypeOK, Shared, Dies
  <2>2. Steady(c)'
    BY <1>0, <1>13, SilentSteady
  <2> QED
    BY <1>0, <2>1, <2>2, SpreadSteady
<1>14. ASSUME HandoffNat(c)
      PROVE  \A d \in Cx : Steady(d)'
  <2>1. Elsewhere(c) /\ UNCHANGED <<list, reloads>>
    BY <1>0, <1>14 DEF HandoffNat, Elsewhere, TypeOK, Shared
  <2>2. Steady(c)'
    BY <1>0, <1>14, HandoffNatSteady
  <2> QED
    BY <1>0, <2>1, <2>2, SpreadSteady
<1>15. ASSUME ApplyLeft(c)
      PROVE  \A d \in Cx : Steady(d)'
  <2>1. Elsewhere(c) /\ UNCHANGED <<list, reloads>>
    BY <1>0, <1>15 DEF ApplyLeft, Elsewhere, TypeOK, Shared
  <2>2. Steady(c)'
    BY <1>0, <1>15, ApplyLeftSteady
  <2> QED
    BY <1>0, <2>1, <2>2, SpreadSteady
<1>16. ASSUME NEW known \in BOOLEAN, ApplyAndConnect(c, known)
      PROVE  \A d \in Cx : Steady(d)'
  <2>1. Elsewhere(c) /\ UNCHANGED <<list, reloads>>
    BY <1>0, <1>16 DEF ApplyAndConnect, Elsewhere, TypeOK, Shared
  <2>2. Steady(c)'
    BY <1>0, <1>16, ApplyAndConnectSteady
  <2> QED
    BY <1>0, <2>1, <2>2, SpreadSteady
<1>17. ASSUME on_left_error(c)
      PROVE  \A d \in Cx : Steady(d)'
  <2>1. Elsewhere(c) /\ UNCHANGED <<list, reloads>>
    BY <1>0, <1>17 DEF on_left_error, Elsewhere, TypeOK, Shared, Dies
  <2>2. Steady(c)'
    BY <1>0, <1>17, SilentSteady
  <2> QED
    BY <1>0, <2>1, <2>2, SpreadSteady
<1>18. ASSUME Destroy(c)
      PROVE  \A d \in Cx : Steady(d)'
  <2>1. Elsewhere(c) /\ UNCHANGED <<list, reloads>>
    BY <1>0, <1>18 DEF Destroy, Elsewhere, TypeOK, Shared
  <2>2. Steady(c)'
    BY <1>0, <1>18, SilentSteady
  <2> QED
    BY <1>0, <2>1, <2>2, SpreadSteady
<1> QED
  BY <1>1, <1>2, <1>3, <1>4, <1>5, <1>6, <1>7, <1>8, <1>9, <1>10, <1>11, <1>12, <1>13, <1>14, <1>15, <1>16, <1>17, <1>18 DEF Serve

\* What clients cause.
LEMMA ClientSteady ==
    ASSUME Inv2, NEW c \in Cx, Client(c)
    PROVE  \A d \in Cx : Steady(d)'
<1>0. TypeOK /\ Sound(c) /\ Steady(c) /\ \A d \in Cx : Steady(d)
  BY DEF Inv2, Inv
<1>1. ASSUME on_left_new(c)
      PROVE  \A d \in Cx : Steady(d)'
  <2>1. Elsewhere(c) /\ UNCHANGED <<list, reloads>>
    BY <1>0, <1>1 DEF on_left_new, Elsewhere, TypeOK, Shared
  <2>2. Steady(c)'
    BY <1>0, <1>1, SilentSteady
  <2> QED
    BY <1>0, <2>1, <2>2, SpreadSteady
<1>2. ASSUME NEW v \in Versions \ {4}, process_socks_hello_tcp(c, v)
      PROVE  \A d \in Cx : Steady(d)'
  <2>1. Elsewhere(c) /\ UNCHANGED <<list, reloads>>
    BY <1>0, <1>2 DEF process_socks_hello_tcp, Elsewhere, TypeOK, Shared
  <2>2. Steady(c)'
    BY <1>0, <1>2, process_socks_hello_tcpSteady
  <2> QED
    BY <1>0, <2>1, <2>2, SpreadSteady
<1>3. ASSUME NEW v \in Versions, NEW cmd \in Commands, NEW a \in Targets \cup {"fqdn"}, NEW fd \in Fds, Connect(c, v, cmd, a, fd)
      PROVE  \A d \in Cx : Steady(d)'
  <2>1. Elsewhere(c) /\ UNCHANGED <<list, reloads>>
    BY <1>0, <1>3 DEF Connect, Elsewhere, TypeOK, Shared
  <2>2. Steady(c)'
    BY <1>0, <1>3, ConnectSteady
  <2> QED
    BY <1>0, <2>1, <2>2, SpreadSteady
<1>3a. ASSUME NEW cmd \in Commands, ShortRequest(c, cmd)
      PROVE  \A d \in Cx : Steady(d)'
  <2>1. Elsewhere(c) /\ UNCHANGED <<list, reloads>>
    BY <1>0, <1>3a DEF ShortRequest, Elsewhere, TypeOK, Shared
  <2>2. UNCHANGED Watched(c)
    <3>1. cx[c] \in SocksCx
      BY <1>0 DEF TypeOK
    <3> QED
      BY <1>0, <1>3a, <3>1 DEF ShortRequest, TypeOK, SocksCx, Watched, Shared
  <2>3. Steady(c)'
    BY <1>0, <2>1, <2>2, SteadyView
  <2> QED
    BY <1>0, <2>1, <2>3, SpreadSteady
<1>4. ASSUME NEW a \in Addresses, UdpAssociate(c, a)
      PROVE  \A d \in Cx : Steady(d)'
  <2>1. Elsewhere(c) /\ UNCHANGED <<list, reloads>>
    BY <1>0, <1>4 DEF UdpAssociate, Elsewhere, TypeOK, Shared
  <2>2. Steady(c)'
    BY <1>0, <1>4, UdpAssociateSteady
  <2> QED
    BY <1>0, <2>1, <2>2, SpreadSteady
<1>5. ASSUME NEW v \in Versions, NEW cmd \in Commands, NEW a \in Addresses, BadRequest(c, v, cmd, a)
      PROVE  \A d \in Cx : Steady(d)'
  <2>1. Elsewhere(c) /\ UNCHANGED <<list, reloads>>
    BY <1>0, <1>5 DEF BadRequest, Elsewhere, TypeOK, Shared, Fails
  <2>2. Steady(c)'
    BY <1>0, <1>5, BadRequestSteady
  <2> QED
    BY <1>0, <2>1, <2>2, SpreadSteady
<1>6. ASSUME NEW a \in Targets \cup {"fqdn"}, NEW fd \in Fds, Datagram(c, a, fd)
      PROVE  \A d \in Cx : Steady(d)'
  <2>1. Elsewhere(c) /\ UNCHANGED <<list, reloads>>
    BY <1>0, <1>6 DEF Datagram, Elsewhere, TypeOK, Shared
  <2>2. Steady(c)'
    BY <1>0, <1>6, DatagramSteady
  <2> QED
    BY <1>0, <2>1, <2>2, SpreadSteady
<1>7. ASSUME process_out(c)
      PROVE  \A d \in Cx : Steady(d)'
  <2>1. Elsewhere(c) /\ UNCHANGED <<list, reloads>>
    BY <1>0, <1>7 DEF process_out, Elsewhere, TypeOK, Shared
  <2>2. Steady(c)'
    BY <1>0, <1>7, process_outSteady
  <2> QED
    BY <1>0, <2>1, <2>2, SpreadSteady
<1>8. ASSUME Hangup(c)
      PROVE  \A d \in Cx : Steady(d)'
  <2>1. Elsewhere(c) /\ UNCHANGED <<list, reloads>>
    BY <1>0, <1>8 DEF Hangup, Elsewhere, TypeOK, Shared, Dies
  <2>2. Steady(c)'
    BY <1>0, <1>8, SilentSteady
  <2> QED
    BY <1>0, <2>1, <2>2, SpreadSteady
<1>9. ASSUME NEW a \in Targets \cup {"fqdn"}, UnauthorizedDatagram(c, a)
      PROVE  \A d \in Cx : Steady(d)'
  BY <1>0, <1>9, UnauthorizedDatagramSteady DEF Inv2, Inv
<1> QED
  BY <1>1, <1>2, <1>3, <1>3a, <1>4, <1>5, <1>6, <1>7, <1>8, <1>9 DEF Client

\* A reload outdates every match made before it.
LEMMA ReloadSteady ==
    ASSUME Inv2, NEW l \in Lists, Reload(l), NEW c \in Cx
    PROVE  Steady(c)'
<1>1. px[c] \in Proxy /\ reloads \in Nat /\ px[c].seen \in Nat
  <2>1. px[c] \in Proxy /\ reloads \in Nat
    BY SocksAssumption DEF Inv2, Inv, TypeOK
  <2> QED
    BY <2>1 DEF Proxy
<1>2. cx' = cx /\ px' = px /\ reloads' = reloads + 1
  BY DEF Reload
<1>3. Steady(c)
  BY DEF Inv2
<1>4. Settled(c)'
  BY <1>2, <1>3 DEF Steady, Settled, Decided
<1>5. Faithful(c)'
  BY <1>1, <1>2, <1>3 DEF Steady, Faithful
<1>6. Asks(c)'
  BY <1>2, <1>3, NothingAsked DEF Steady, Looking
<1>7. Aimed(c)'
  BY <1>2, <1>3 DEF Steady, Aimed
<1> QED
  BY <1>4, <1>5, <1>6, <1>7 DEF Steady

\* The invariant holds initially.
LEMMA Inv2Init == Init => Inv2
<1> SUFFICES ASSUME Init, NEW c \in Cx PROVE Steady(c)
  BY InvInit DEF Inv2
<1>1. cx[c] = NewCx /\ px[c] = NewProxy /\ reloads = 0
  BY DEF Init
<1>2. Settled(c) /\ Aimed(c)
  BY <1>1 DEF Settled, Aimed, Decided, NewCx, NewProxy, NoPolicy
<1>3. Faithful(c)
  BY <1>1 DEF Faithful, NewProxy, NoPolicy
<1>4. cx[c].asked = <<>> /\ cx[c].query = None /\ cx[c].state_ = "INIT"
  BY <1>1 DEF NewCx
<1>5. Asks(c)
  BY <1>4 DEF Asks, Once, Looking
<1> QED
  BY <1>2, <1>3, <1>5 DEF Steady

\* Every step preserves the invariant.
LEMMA Inv2Step == Inv2 /\ [Next]_vars => Inv2'
<1> SUFFICES ASSUME Inv2, [Next]_vars PROVE \A c \in Cx : Steady(c)'
  BY InvStep DEF Inv2
<1>1. ASSUME NEW c \in Cx, Serve(c) \/ Client(c)
      PROVE  \A d \in Cx : Steady(d)'
  BY <1>1, ServeSteady, ClientSteady
<1>2. ASSUME NEW l \in Lists, Reload(l)
      PROVE  \A c \in Cx : Steady(c)'
  BY <1>2, ReloadSteady
<1>3. CASE UNCHANGED vars
  <2>1. \A c \in Cx : UNCHANGED Watched(c)
    BY <1>3 DEF vars, Watched
  <2>2. UNCHANGED <<list, reloads>>
    BY <1>3 DEF vars
  <2> QED
    BY <2>1, <2>2, SteadyView DEF Inv2
<1> QED
  BY <1>1, <1>2, <1>3 DEF Next

-----------------------------------------------------------------------------
(* Theorems                                                                *)

\* The inductive invariant.
LEMMA HandoffInvariance == Spec => []Inv2
  BY Inv2Init, Inv2Step, PTL DEF Spec

\* policy_apply matches again when the index is 0 and does not otherwise; either
\* way both sides of a pair get the rule of the verdict, unless the policy was
\* changed in between, for any list of rules.
THEOREM RuleKept == Spec => []AppliedAsMatched
<1>1. Inv2 => AppliedAsMatched
  BY DEF Inv2, Steady, Faithful, AppliedAsMatched
<1> QED
  BY <1>1, HandoffInvariance, PTL

\* setup_dns_async is reached at most once per record type for a name, and the
\* outstanding query of a TCP session is always its latest.
THEOREM AskedOnce == Spec => []DnsAskedOnce
<1>1. Inv2 => DnsAskedOnce
  <2> SUFFICES ASSUME Inv2, NEW c \in Cx
               PROVE  /\ \A i, j \in 1..Len(cx[c].asked) : cx[c].asked[i] = cx[c].asked[j] => i = j
                      /\ (cx[c].query \in DNS_Record_Type /\ c \in Tcp) => Last(cx[c].asked) = cx[c].query
    BY DEF DnsAskedOnce
  <2>1. Asks(c)
    BY DEF Inv2, Steady
  <2> QED
    BY <2>1 DEF Asks, Once
<1> QED
  BY <1>1, HandoffInvariance, PTL

\* Payload of a UDP socket goes only to the target of its first datagram, and
\* when that is an address the right side is connected to it: no later
\* datagram, lookup or reload redirects it.
THEOREM OneTarget == Spec => []UdpOneTarget
<1>1. Inv2 => UdpOneTarget
  <2> SUFFICES ASSUME Inv2, NEW c \in Udp, NEW t \in px[c].sent
               PROVE  t = cx[c].my_allowed_target /\ (t \in Targets => px[c].right = t)
    BY DEF UdpOneTarget
  <2>1. Aimed(c)
    BY DEF Inv2, Steady
  <2> QED
    BY <2>1 DEF Aimed
<1> QED
  BY <1>1, HandoffInvariance, PTL
=============================================================================
