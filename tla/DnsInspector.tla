---------------------------- MODULE DnsInspector ----------------------------
(***************************************************************************)
(* DNS inspection of client sessions, the answer cache they share, and the *)
(* thread that keeps the names of address objects resolved.                *)
(* Source: inspect/dnsinspector.cpp, inspect/dns.cpp, inspect/dns.hpp,     *)
(* service/dnsupd/smithdnsupd.cpp, proxy/mitmhost.cpp (inspect).           *)
(*                                                                         *)
(* Time is counted in rounds of the updater (10 s).  An entry has an age   *)
(* instead of loaded_at, which stops at MaxAge: older answers behave       *)
(* alike.  A response is known by its question and two of its TTLs, that   *)
(* of the first answer and the least one.                                  *)
(***************************************************************************)
EXTENDS Integers, FiniteSets, FiniteSetsExt

CONSTANTS Names,            \* "A:..." and "AAAA:..." questions
          Fqdns,            \* those of FqdnAddress objects
          Sessions, Ids,
          Answers,          \* TTLs of a response: [ttl, least]
          requery_ttl, blacklist_rounds, laundry_cap,  \* 60 s, 120 s, 300 s in rounds
          MaxMessages,      \* of one flow entry: 10
          TtlMod,           \* 2^32
          None

MaxAge == Max({a.ttl : a \in Answers}) + 1

ASSUME DnsAssumption ==
    /\ Fqdns \subseteq Names /\ "other" \notin Names
    /\ IsFiniteSet(Answers) /\ Answers # {}
    /\ \A a \in Answers : a.ttl \in Nat /\ a.least \in 0..a.ttl /\ a.ttl < TtlMod
    /\ requery_ttl \in Nat /\ laundry_cap \in Nat /\ blacklist_rounds \in Nat \ {0}
    /\ TtlMod \in Nat /\ MaxMessages \in Nat \ {0}

VARIABLES cache,      \* DNS::dns_cache_, under its lock
          insp,       \* the DNS_Inspector of each session
          upd,        \* the updater thread
          blacklist,  \* record_blacklist
          slept       \* sleep_time has passed since the last round

vars == <<cache, insp, upd, blacklist, slept>>

\* packet: cached_packet is there, so the entry can be served to clients.
Entry == [ttl : Nat, least : Nat, age : 0..MaxAge, packet : BOOLEAN]
NoEntry == [ttl |-> 0, least |-> 0, age |-> 0, packet |-> None]

\* cached_response: whose answer it is, cached_response_id, its TTL as it
\* stands in the buffer, and cached_response_decrement.
Response == [name : Names, id : Ids, left : 0..(TtlMod - 1), dec : 0..MaxAge]

\* A null pointer is no response.
ASSUME NoneAssumption == None \notin Response

Inspector ==
    [error : BOOLEAN,
     requests : SUBSET Ids,
     verdict : {"OK", "CACHED"},
     cached_response : Response \cup {None},
     source : {"r", "w", "none"}, it : 0..MaxMessages, \* the flow entry in work, messages read
     asked : [id : Ids, name : Names \cup {"other"}] \cup {None}, \* history: last request of the entry
     due : Int \cup {None},  \* history: time left of a response prepared, not sent yet
     sent : Response \cup {None}]           \* history: what the last inspection sent

NewInspector ==
    [error |-> FALSE, requests |-> {}, verdict |-> "OK", cached_response |-> None,
     source |-> "none", it |-> 0, asked |-> None, due |-> None, sent |-> None]

Updater ==
    [pc : {"sleep", "query"}, todo : SUBSET Fqdns, round : 0..(blacklist_rounds - 1),
     delta : Nat, ttl : Nat]                \* dns_cache_laundry_delta, _ttl

Init ==
    /\ cache = [n \in Names |-> NoEntry]
    /\ insp = [s \in Sessions |-> NewInspector]
    /\ upd = [pc |-> "sleep", todo |-> {}, round |-> 0, delta |-> 0, ttl |-> 0]
    /\ blacklist = {}
    /\ slept = FALSE

Cached(n) == cache[n] # NoEntry

\* current_ttl(): what is left of the first answer.
current_ttl(n) == cache[n].ttl - cache[n].age

\* DNS_Inspector::store: only a response with an address is kept.
store(n, a, packet) ==
    [cache EXCEPT ![n] = [ttl |-> a.ttl, least |-> a.least, age |-> 0, packet |-> packet]]

-----------------------------------------------------------------------------
(* DNS_Inspector                                                           *)

\* Mutant: an answer is used in the second it expires and the one after.
ttl_check_mut(n) == cache[n].age <= cache[n].least + 1

\* No TTL of the cached packet has run out.
ttl_check(n) == cache[n].age <= cache[n].least

\* A copy of the cached packet, to be sent under the id of the request.
Prepared(i, id, n) ==
    [i EXCEPT !.verdict = "CACHED",
              !.cached_response = [name |-> n, id |-> id, left |-> cache[n].least, dec |-> cache[n].age],
              !.due = cache[n].least - cache[n].age]

\* verdict(OK) and cached_response.reset().
Dropped(i) == [i EXCEPT !.verdict = "OK", !.cached_response = None, !.due = None]

\* Mutant: a question of another type drops the response but not the verdict.
Served_mut(i, id, n) ==
    IF n = "other" THEN [i EXCEPT !.cached_response = None]
    ELSE IF ~Cached(n) THEN Dropped(i)
    ELSE IF cache[n].packet /\ ttl_check(n) THEN Prepared(i, id, n)
    ELSE i

\* update() on a request that could be parsed: the response to serve, if any.
\* An entry without a packet, and one that fails the TTL check, leave the
\* previous response and verdict in place.
Served(i, id, n) ==
    IF n = "other"
    THEN IF i.cached_response = None THEN i ELSE Dropped(i)
    ELSE IF ~Cached(n) THEN Dropped(i)
    ELSE IF cache[n].packet /\ ttl_check(n) THEN Prepared(i, id, n)
    ELSE i

\* Mutant: the difference is kept as a signed number.
Mangled_mut(r) == [r EXCEPT !.left = @ - r.dec]

\* apply_verdict: the TTL in the buffer is decremented in place, then sent.
Mangled(r) == [r EXCEPT !.left = (@ - r.dec + TtlMod) % TtlMod]

\* The end of MitmHostCX::inspect, also when update() returned early.
apply_verdict(i) ==
    IF i.verdict = "CACHED" /\ i.cached_response # None
    THEN [i EXCEPT !.cached_response = Mangled(@), !.sent = Mangled(i.cached_response)]
    ELSE [i EXCEPT !.sent = None]

\* update() goes on to the next message of a flow entry, ten at most.  Only
\* the first one waits for an error to be cleared: the loop does not.
Reads(s, source) ==
    \/ insp[s].source = "none" /\ ~insp[s].error
    \/ insp[s].source = source /\ insp[s].it < MaxMessages

NextMessage(i, source) == [i EXCEPT !.source = source, !.it = @ + 1, !.sent = None]

\* A request read from the client.
Request(s, id, n) ==
    /\ Reads(s, "r")
    /\ LET i == [NextMessage(insp[s], "r") EXCEPT !.requests = @ \cup {id}, !.asked = [id |-> id, name |-> n]]
       IN  insp' = [insp EXCEPT ![s] = Served(i, id, n)]
    /\ UNCHANGED <<cache, upd, blacklist, slept>>

\* validate_response: the id has been used by a request of this session; it
\* is never forgotten.
validate_response(s, id) == id \in insp[s].requests

\* A response on its way to the client; it is stored under the question it
\* carries itself.  "red = cur_red" may read a message again or start in the
\* middle of one: what comes next is any message.
ServerResponse(s, id, n, a) ==
    /\ Reads(s, "w")
    /\ LET i == NextMessage(insp[s], "w")
       IN  IF validate_response(s, id)
           THEN /\ cache' = IF a = None THEN cache ELSE store(n, a, TRUE)
                /\ insp' = [insp EXCEPT ![s] = i]
           ELSE /\ cache' = cache
                /\ insp' = [insp EXCEPT ![s] = [i EXCEPT !.error = TRUE]]
    /\ UNCHANGED <<upd, blacklist, slept>>

Rested(i) == [i EXCEPT !.source = "none", !.it = 0, !.asked = None, !.due = None]

\* update() returns: at the end of the entry, after ten messages, or at data
\* it can do nothing with (an incomplete TCP message or one that does not
\* parse), perhaps the first.
Inspected(s) ==
    /\ insp[s].source # "none" \/ ~insp[s].error
    /\ insp' = [insp EXCEPT ![s] = Rested(apply_verdict(@))]
    /\ UNCHANGED <<cache, upd, blacklist, slept>>

\* The session ends; the next one has an inspector of its own.
Close(s) ==
    /\ insp[s] # NewInspector /\ insp[s].source = "none"
    /\ insp' = [insp EXCEPT ![s] = NewInspector]
    /\ UNCHANGED <<cache, upd, blacklist, slept>>

-----------------------------------------------------------------------------
(* The updater thread                                                      *)

\* check_cache_expiry.
NeedsQuery(n) ==
    IF Cached(n) THEN current_ttl(n) < requery_ttl ELSE n \notin blacklist

\* A round after sleep_time: refresh_candidates and check_cache_expiry.
Round ==
    /\ upd.pc = "sleep" /\ slept
    /\ slept' = FALSE
    /\ upd' = [upd EXCEPT !.pc = "query", !.todo = {n \in Fqdns : NeedsQuery(n)}]
    /\ UNCHANGED <<cache, insp, blacklist>>

\* requery_records: resolve_dns_s answers the question it was sent; its
\* responses have no packet.
Requery(n, a) ==
    /\ upd.pc = "query" /\ n \in upd.todo
    /\ upd' = [upd EXCEPT !.todo = @ \ {n}]
    /\ cache' = store(n, a, FALSE)
    /\ UNCHANGED <<insp, blacklist, slept>>

\* requery_records: the answer has no address, or there is none (a timeout,
\* which is not held against the name).
RequeryFails(n, empty) ==
    /\ upd.pc = "query" /\ n \in upd.todo
    /\ upd' = [upd EXCEPT !.todo = @ \ {n}]
    /\ blacklist' = IF empty THEN blacklist \cup {n} ELSE blacklist
    /\ UNCHANGED <<cache, insp, slept>>

\* Mutant: names of address objects are left to be replaced by their refresh.
dns_cache_cleanup_mut == {n \in Names \ Fqdns : Cached(n) /\ current_ttl(n) < 0}

\* dns_cache_cleanup: entries whose first answer has run out.
dns_cache_cleanup == {n \in Names : Cached(n) /\ current_ttl(n) < 0}

\* Its return value: the time to the next cleanup, at least one round.
NextCleanup ==
    1 + Min({laundry_cap} \cup {current_ttl(n) : n \in {m \in Names : Cached(m) /\ current_ttl(m) >= 0}})

\* Mutant: blacklisted names are never tried again.
blacklist_clear_mut == blacklist

\* "do some rescans of blacklisted entries".
blacklist_clear == IF (upd.round + 1) % blacklist_rounds = 0 THEN {} ELSE blacklist

\* The rest of the round.
RoundEnd ==
    /\ upd.pc = "query" /\ upd.todo = {}
    /\ LET laundry == upd.delta + 1 > upd.ttl
       IN  /\ cache' = [n \in Names |-> IF laundry /\ n \in dns_cache_cleanup THEN NoEntry ELSE cache[n]]
           /\ upd' = [pc |-> "sleep", todo |-> {},
                      round |-> (upd.round + 1) % blacklist_rounds,
                      delta |-> IF laundry THEN 0 ELSE upd.delta + 1,
                      ttl |-> IF laundry THEN NextCleanup ELSE upd.ttl]
    /\ blacklist' = blacklist_clear
    /\ UNCHANGED <<insp, slept>>

\* "diag dns cache clear".
ClearCache ==
    /\ \E n \in Names : Cached(n)
    /\ cache' = [n \in Names |-> NoEntry]
    /\ UNCHANGED <<insp, upd, blacklist, slept>>

\* Time passes.  The updater may be late, but not for ever.
Tick ==
    /\ slept' = TRUE
    /\ cache' = [n \in Names |->
                    IF Cached(n) /\ cache[n].age < MaxAge THEN [cache[n] EXCEPT !.age = @ + 1] ELSE cache[n]]
    /\ UNCHANGED <<insp, upd, blacklist>>

UpdaterStep ==
    \/ Round
    \/ \E n \in Fqdns, a \in Answers : Requery(n, a)
    \/ \E n \in Fqdns, empty \in BOOLEAN : RequeryFails(n, empty)
    \/ RoundEnd

SessionStep(s) ==
    \/ \E id \in Ids, n \in Names \cup {"other"} : Request(s, id, n)
    \/ \E id \in Ids, n \in Names, a \in Answers \cup {None} : ServerResponse(s, id, n, a)
    \/ Inspected(s)
    \/ Close(s)

Next ==
    \/ \E s \in Sessions : SessionStep(s)
    \/ UpdaterStep
    \/ ClearCache
    \/ Tick

\* The updater thread runs, and time passes.
Fairness == WF_vars(UpdaterStep) /\ WF_vars(Tick)

Spec == Init /\ [][Next]_vars /\ Fairness

-----------------------------------------------------------------------------
(* Properties                                                              *)

\* Type invariant: a TTL in a response buffer stays an unsigned number, and
\* the updater's counters stay within the longest wait between two cleanups.
TypeOK ==
    /\ cache \in [Names -> Entry \cup {NoEntry}]
    /\ insp \in [Sessions -> Inspector]
    /\ upd \in Updater /\ upd.delta <= upd.ttl /\ upd.ttl <= 1 + laundry_cap
    /\ blacklist \subseteq Fqdns
    /\ slept \in BOOLEAN

\* apply_verdict is only called with a response to send: whatever mixture of
\* hits, misses, expired answers and other question types a session has
\* asked for, in one flow entry or in several, the verdict and the response are set and reset together.
VerdictHasResponse ==
    \A s \in Sessions : (insp[s].verdict = "CACHED") <=> (insp[s].cached_response # None)

\* A response is sent with the time the cached answer had left when it was
\* looked up, whatever other messages of the entry, other sessions and the
\* updater did to the inspector and the cache before apply_verdict: the
\* unsigned subtraction does not wrap, and the answer at the client expires
\* no later than it would have in the cache, but for the time in between.
FirstServeExact ==
    [][\A s \in Sessions :
          (insp[s].due # None /\ insp'[s].sent # None) => insp'[s].sent.left = insp[s].due]_vars

\* The updater's cleanup gets to every answer that has run out, however its
\* waiting time was chosen: it is removed or replaced by a current one.
ExpiredLeaves ==
    \A n \in Names :
        (Cached(n) /\ current_ttl(n) < 0) ~> (~Cached(n) \/ current_ttl(n) >= 0)

\* A name of an address object that is not in the cache is asked for again,
\* also after it was blacklisted for an empty answer.
ConfiguredNameRetried ==
    \A n \in Fqdns : ~Cached(n) ~> (Cached(n) \/ n \in upd.todo)

\* "DNS answer for %s is not in cache - resetting previous response": what a
\* session that asks is sent from the cache answers the last of its requests.
CachedAnswerFits ==
    [][\A s \in Sessions :
          (insp[s].asked # None /\ insp'[s].sent # None)
              => /\ insp'[s].sent.id = insp[s].asked.id
                 /\ insp'[s].sent.name = insp[s].asked.name]_vars
=============================================================================
