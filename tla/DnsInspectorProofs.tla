------------------------- MODULE DnsInspectorProofs -------------------------
(***************************************************************************)
(* Proofs about DnsInspector for any names, sessions, answers and times.   *)
(***************************************************************************)
EXTENDS DnsInspector, WellFoundedInduction, TLAPS

-----------------------------------------------------------------------------
(* The inductive invariant                                                 *)

\* A TTL of a cached answer fits into its field, and the least one is no
\* larger than the first.
Fits(e) == e.least <= e.ttl /\ e.ttl < TtlMod

\* The verdict and the response go together.
Together(i) == (i.verdict = "CACHED") <=> (i.cached_response # None)

\* A response that was prepared and not sent yet has its time left, and the
\* subtraction to come is one of natural numbers.
Exact(i) ==
    i.due # None =>
        /\ i.sent = None /\ i.cached_response # None
        /\ i.due = i.cached_response.left - i.cached_response.dec
        /\ i.cached_response.left >= i.cached_response.dec

\* Between two entries no message has been read.
Counted(i) == i.source = "none" => i.it = 0

Paired(i) == Together(i) /\ Exact(i) /\ Counted(i)

Inv ==
    /\ TypeOK
    /\ \A n \in Names : Fits(cache[n])
    /\ \A s \in Sessions : Paired(insp[s])
-----------------------------------------------------------------------------
(* Numbers                                                                 *)

\* A set of naturals that is not empty has a least element, and Min is it.
LEMMA MinIs ==
    ASSUME NEW S \in SUBSET Nat, S # {}
    PROVE  Min(S) \in S /\ \A y \in S : Min(S) <= y
<1>1. PICK x \in S : \A y \in S : ~(<<y, x>> \in OpToRel(<, Nat))
  BY NatLessThanWellFounded, WFMin
<1>2. ASSUME NEW y \in S
      PROVE  x <= y
  <2>1. ~(<<y, x>> \in {ss \in Nat \X Nat : ss[1] < ss[2]})
    BY <1>1 DEF OpToRel
  <2> QED
    BY <2>1
<1>3. \E i \in S : \A j \in S : i <= j
  BY <1>2
<1> QED
  BY <1>3 DEF Min

\* A bounded set of naturals that is not empty has a largest element: the
\* distances to the bound have a least one.
LEMMA MaxIs ==
    ASSUME NEW S \in SUBSET Nat, S # {}, NEW b \in Nat, \A x \in S : x < b
    PROVE  Max(S) \in S /\ \A y \in S : Max(S) >= y
<1> DEFINE D == {b - x : x \in S}
<1>1. D \in SUBSET Nat /\ D # {}
  <2>1. ASSUME NEW d \in D
        PROVE  d \in Nat
    <3>1. PICK x \in S : d = b - x
      BY <2>1
    <3>2. x \in Nat /\ x < b
      OBVIOUS
    <3> QED
      BY <3>1, <3>2
  <2>2. D # {}
    OBVIOUS
  <2> QED
    BY <2>1, <2>2
<1>2. Min(D) \in D /\ \A d \in D : Min(D) <= d
  <2> HIDE DEF D
  <2> QED
    BY <1>1, MinIs
<1>3. PICK m \in S : Min(D) = b - m
  BY <1>2
<1>4. ASSUME NEW y \in S
      PROVE  m >= y
  <2>1. b - m <= b - y
    BY <1>2, <1>3
  <2> QED
    BY <2>1
<1>5. \E x \in S : \A y \in S : x >= y
  BY <1>4
<1> QED
  BY <1>5 DEF Max

\* Ages are numbers, and the field of a TTL is not empty.
LEMMA Bounds == MaxAge \in Nat /\ TtlMod \in Nat \ {0}
<1> DEFINE S == {a.ttl : a \in Answers}
<1>1. S \in SUBSET Nat /\ S # {} /\ TtlMod \in Nat /\ \A x \in S : x < TtlMod
  <2>1. /\ \A a \in Answers : a.ttl \in Nat /\ a.ttl < TtlMod
        /\ Answers # {} /\ TtlMod \in Nat
    BY DnsAssumption
  <2> QED
    BY <2>1
<1> HIDE DEF S
<1>2. Max(S) \in S
  BY <1>1, MaxIs
<1>3. Max(S) \in Nat
  BY <1>1, <1>2
<1>4. Max(S) < TtlMod
  BY <1>1, <1>2
<1> QED
  BY <1>1, <1>3, <1>4 DEF MaxAge, S

\* The field holds a difference that is not negative as it is.
LEMMA NoWrap ==
    ASSUME NEW a \in Nat, NEW b \in Nat, a >= b, a < TtlMod
    PROVE  (a - b + TtlMod) % TtlMod = a - b
  BY Bounds

-----------------------------------------------------------------------------
(* The cache                                                               *)

\* Every place of the cache, used or not, has numbers in it.
LEMMA EntryNumbers ==
    ASSUME TypeOK, NEW n \in Names
    PROVE  /\ cache[n].ttl \in Nat /\ cache[n].least \in Nat /\ cache[n].age \in 0..MaxAge
           /\ current_ttl(n) \in Int
<1>1. cache[n] \in Entry \/ cache[n] = NoEntry
  BY DEF TypeOK
<1>2. cache[n].ttl \in Nat /\ cache[n].least \in Nat /\ cache[n].age \in 0..MaxAge
  BY <1>1, Bounds DEF Entry, NoEntry
<1> QED
  BY <1>2, Bounds DEF current_ttl

\* An empty place fits.
LEMMA NoEntryFits == Fits(NoEntry)
  BY Bounds DEF Fits, NoEntry

\* A stored answer is an entry that fits.
LEMMA Stored ==
    ASSUME TypeOK, \A m \in Names : Fits(cache[m]),
           NEW n \in Names, NEW a \in Answers, NEW packet \in BOOLEAN
    PROVE  /\ store(n, a, packet) \in [Names -> Entry \cup {NoEntry}]
           /\ \A m \in Names : Fits(store(n, a, packet)[m])
<1> DEFINE e == [ttl |-> a.ttl, least |-> a.least, age |-> 0, packet |-> packet]
<1>1. a.ttl \in Nat /\ a.least \in 0..a.ttl /\ a.ttl < TtlMod
  BY DnsAssumption
<1>2. e \in Entry
  BY <1>1, Bounds DEF Entry
<1>3. Fits(e)
  BY <1>1 DEF Fits
<1>4. store(n, a, packet) = [cache EXCEPT ![n] = e]
  BY DEF store
<1> HIDE DEF e
<1> QED
  BY <1>2, <1>3, <1>4 DEF TypeOK

-----------------------------------------------------------------------------
(* Inspectors                                                              *)

\* A response that is served has time left and belongs to the name asked for.
LEMMA PreparedType ==
    ASSUME TypeOK, \A m \in Names : Fits(cache[m]),
           NEW i \in Inspector, i.sent = None, Counted(i), NEW id \in Ids, NEW n \in Names, ttl_check(n)
    PROVE  Prepared(i, id, n) \in Inspector /\ Paired(Prepared(i, id, n))
<1> DEFINE r == [name |-> n, id |-> id, left |-> cache[n].least, dec |-> cache[n].age]
           d == cache[n].least - cache[n].age
           p == [i EXCEPT !.verdict = "CACHED", !.cached_response = r, !.due = d]
<1>1. cache[n].least \in 0..(TtlMod - 1) /\ cache[n].age \in 0..MaxAge /\ d \in Int
  BY EntryNumbers, Bounds DEF Fits
<1>2. r \in Response
  BY <1>1 DEF Response
<1>3. r.left >= r.dec /\ d = r.left - r.dec
  BY <1>1, Bounds DEF ttl_check
<1>4. Prepared(i, id, n) = p
  BY DEF Prepared
<1> HIDE DEF r, d
<1>5. p \in Inspector
  BY <1>1, <1>2 DEF Inspector
<1>6. /\ p.verdict = "CACHED" /\ p.cached_response = r /\ p.sent = i.sent /\ p.due = d
      /\ p.source = i.source /\ p.it = i.it
  BY DEF Inspector
<1>7. r # None
  BY <1>2, NoneAssumption
<1> HIDE DEF p
<1> QED
  BY <1>3, <1>4, <1>5, <1>6, <1>7 DEF Paired, Together, Exact, Counted

\* An inspector without a response.
LEMMA DroppedType ==
    ASSUME NEW i \in Inspector, Counted(i)
    PROVE  Dropped(i) \in Inspector /\ Paired(Dropped(i))
<1> DEFINE e == [i EXCEPT !.verdict = "OK", !.cached_response = None, !.due = None]
<1>1. Dropped(i) = e
  BY DEF Dropped
<1>2. e \in Inspector
  BY DEF Inspector
<1>3. /\ e.verdict = "OK" /\ e.cached_response = None /\ e.due = None
      /\ e.source = i.source /\ e.it = i.it
  BY DEF Inspector
<1> HIDE DEF e
<1> QED
  BY <1>1, <1>2, <1>3 DEF Paired, Together, Exact, Counted

\* Serving sets or resets both.
LEMMA ServedType ==
    ASSUME TypeOK, \A m \in Names : Fits(cache[m]),
           NEW i \in Inspector, NEW id \in Ids, NEW n \in Names \cup {"other"},
           Paired(i), i.sent = None
    PROVE  Served(i, id, n) \in Inspector /\ Paired(Served(i, id, n))
<1>1. \/ Served(i, id, n) \in {i, Dropped(i)}
      \/ n \in Names /\ ttl_check(n) /\ Served(i, id, n) = Prepared(i, id, n)
  BY DEF Served
<1>2. CASE Served(i, id, n) \in {i, Dropped(i)}
  BY <1>2, DroppedType DEF Paired
<1>3. CASE n \in Names /\ ttl_check(n) /\ Served(i, id, n) = Prepared(i, id, n)
  BY <1>3, PreparedType DEF Paired
<1> QED
  BY <1>1, <1>2, <1>3

\* A response whose TTL has been decremented is one still.
LEMMA MangledType ==
    ASSUME NEW r \in Response
    PROVE  Mangled(r) \in Response
<1> DEFINE l == (r.left - r.dec + TtlMod) % TtlMod
<1>1. r.left \in Int /\ r.dec \in Int
  BY Bounds DEF Response
<1>2. l \in 0..(TtlMod - 1)
  BY <1>1, Bounds
<1>3. Mangled(r) = [r EXCEPT !.left = l]
  BY DEF Mangled
<1> HIDE DEF l
<1> QED
  BY <1>2, <1>3 DEF Response

\* apply_verdict leaves the verdict and whether there is a response.
LEMMA AppliedType ==
    ASSUME NEW i \in Inspector, Together(i)
    PROVE  apply_verdict(i) \in Inspector /\ Together(apply_verdict(i))
<1>1. CASE i.verdict = "CACHED" /\ i.cached_response # None
  <2> DEFINE r == Mangled(i.cached_response)
             j == [i EXCEPT !.cached_response = r, !.sent = r]
  <2>1. i.cached_response \in Response
    BY <1>1 DEF Inspector
  <2>2. r \in Response /\ r # None
    BY <2>1, MangledType, NoneAssumption
  <2>3. apply_verdict(i) = j
    BY <1>1 DEF apply_verdict
  <2> HIDE DEF r
  <2>4. j \in Inspector
    BY <2>2 DEF Inspector
  <2>5. j.verdict = i.verdict /\ j.cached_response = r
    BY DEF Inspector
  <2> HIDE DEF j
  <2> QED
    BY <1>1, <2>2, <2>3, <2>4, <2>5 DEF Together
<1>2. CASE ~(i.verdict = "CACHED" /\ i.cached_response # None)
  <2> DEFINE j == [i EXCEPT !.sent = None]
  <2>1. apply_verdict(i) = j
    BY <1>2 DEF apply_verdict
  <2>2. j \in Inspector
    BY DEF Inspector
  <2>3. j.verdict = i.verdict /\ j.cached_response = i.cached_response
    BY DEF Inspector
  <2> HIDE DEF j
  <2> QED
    BY <2>1, <2>2, <2>3 DEF Together
<1> QED
  BY <1>1, <1>2

\* Between two flow entries nothing is due.
LEMMA RestedType ==
    ASSUME NEW i \in Inspector, Together(i)
    PROVE  Rested(i) \in Inspector /\ Paired(Rested(i)) /\ Rested(i).sent = i.sent
<1> DEFINE j == [i EXCEPT !.source = "none", !.it = 0, !.asked = None, !.due = None]
<1>1. Rested(i) = j
  BY DEF Rested
<1>2. j \in Inspector
  <2> DEFINE z == 0
             k == [i EXCEPT !.source = "none", !.it = z, !.asked = None, !.due = None]
  <2>1. z \in 0..MaxMessages
    BY DnsAssumption
  <2>2. j = k
    OBVIOUS
  <2> HIDE DEF z, j
  <2>3. k \in Inspector
    BY <2>1 DEF Inspector
  <2> QED
    BY <2>2, <2>3
<1>3. /\ j.verdict = i.verdict /\ j.cached_response = i.cached_response /\ j.due = None /\ j.sent = i.sent
      /\ j.it = 0
  BY DEF Inspector
<1> HIDE DEF j
<1> QED
  BY <1>1, <1>2, <1>3 DEF Paired, Together, Exact, Counted

\* A message more of the entry.
LEMMA NextMessageType ==
    ASSUME NEW s \in Sessions, NEW source \in {"r", "w"}, Reads(s, source),
           insp[s] \in Inspector, Paired(insp[s])
    PROVE  /\ NextMessage(insp[s], source) \in Inspector /\ Paired(NextMessage(insp[s], source))
           /\ NextMessage(insp[s], source).sent = None
           /\ NextMessage(insp[s], source).source = source
<1> DEFINE i == insp[s]
           k == i.it + 1
           j == [i EXCEPT !.source = source, !.it = k, !.sent = None]
<1>1. NextMessage(insp[s], source) = j
  BY DEF NextMessage
<1>2. k \in 0..MaxMessages
  BY DnsAssumption DEF Inspector, Reads, Paired, Counted
<1> HIDE DEF k
<1>3. j \in Inspector
  BY <1>2 DEF Inspector
<1>4. /\ j.verdict = i.verdict /\ j.cached_response = i.cached_response /\ j.due = i.due /\ j.sent = None
      /\ j.source = source
  BY DEF Inspector
<1> HIDE DEF j
<1> QED
  BY <1>1, <1>3, <1>4 DEF Paired, Together, Exact, Counted

-----------------------------------------------------------------------------
(* Steps                                                                   *)

\* A new inspector is one, with nothing to send.
LEMMA NewType == NewInspector \in Inspector /\ Paired(NewInspector)
<1>1. NewInspector \in Inspector
  BY DnsAssumption DEF NewInspector, Inspector
<1>2. Paired(NewInspector)
  BY DEF NewInspector, Paired, Together, Exact, Counted
<1> QED
  BY <1>1, <1>2

\* The invariant holds initially.
LEMMA InvInit == Init => Inv
<1> SUFFICES ASSUME Init PROVE Inv
  OBVIOUS
<1>1. upd \in Updater /\ upd.delta <= upd.ttl /\ upd.ttl <= 1 + laundry_cap
  BY DnsAssumption DEF Init, Updater
<1>2. TypeOK
  BY <1>1, NewType DEF Init, TypeOK
<1> QED
  BY <1>2, NewType, NoEntryFits DEF Init, Inv

\* Paired is about the value alone.
LEMMA PairedPrime ==
    ASSUME NEW t, Paired(insp'[t])
    PROVE  Paired(insp[t])'
  BY DEF Paired, Together, Exact, Counted

\* A step of one inspector.
LEMMA InspectorStep ==
    ASSUME Inv, NEW s \in Sessions, NEW i \in Inspector, Paired(i),
           insp' = [insp EXCEPT ![s] = i], UNCHANGED <<cache, upd, blacklist, slept>>
    PROVE  Inv'
<1>1. TypeOK'
  BY DEF Inv, TypeOK
<1>2. ASSUME NEW t \in Sessions
      PROVE  Paired(insp[t])'
  <2>1. insp'[t] = IF t = s THEN i ELSE insp[t]
    BY DEF Inv, TypeOK
  <2> QED
    BY <2>1, PairedPrime DEF Inv
<1> QED
  BY <1>1, <1>2 DEF Inv, Fits

\* A step of the cache.
LEMMA CacheStep ==
    ASSUME Inv, cache' \in [Names -> Entry \cup {NoEntry}], \A n \in Names : Fits(cache'[n]),
           upd' \in Updater, upd'.delta <= upd'.ttl, upd'.ttl <= 1 + laundry_cap,
           blacklist' \subseteq Fqdns, slept' \in BOOLEAN, UNCHANGED insp
    PROVE  Inv'
<1>1. TypeOK'
  BY DEF Inv, TypeOK
<1>2. \A n \in Names : Fits(cache[n])'
  BY DEF Fits
<1>3. \A t \in Sessions : Paired(insp[t])'
  BY PairedPrime DEF Inv
<1> QED
  BY <1>1, <1>2, <1>3 DEF Inv

\* A request.
LEMMA RequestStep ==
    ASSUME Inv, NEW s \in Sessions, NEW id \in Ids, NEW n \in Names \cup {"other"}, Request(s, id, n)
    PROVE  Inv'
<1> DEFINE m == NextMessage(insp[s], "r")
           q == m.requests \cup {id}
           a == [id |-> id, name |-> n]
           i == [m EXCEPT !.requests = q, !.asked = a]
<1>1. insp[s] \in Inspector /\ Paired(insp[s]) /\ Reads(s, "r")
  BY DEF Inv, TypeOK, Request
<1>2. m \in Inspector /\ Paired(m) /\ m.sent = None
  BY <1>1, NextMessageType
<1>3. insp' = [insp EXCEPT ![s] = Served(i, id, n)] /\ UNCHANGED <<cache, upd, blacklist, slept>>
  BY DEF Request
<1> HIDE DEF m
<1>4. q \in SUBSET Ids /\ a \in [id : Ids, name : Names \cup {"other"}]
  BY <1>2 DEF Inspector
<1> HIDE DEF q, a
<1>5. i \in Inspector
  BY <1>2, <1>4 DEF Inspector
<1>6. /\ i.verdict = m.verdict /\ i.cached_response = m.cached_response /\ i.due = m.due
      /\ i.sent = m.sent /\ i.source = m.source /\ i.it = m.it
  BY <1>2 DEF Inspector
<1> HIDE DEF i
<1>7. Paired(i) /\ i.sent = None
  BY <1>2, <1>6 DEF Paired, Together, Exact, Counted
<1>8. Served(i, id, n) \in Inspector /\ Paired(Served(i, id, n))
  BY <1>5, <1>7, ServedType DEF Inv
<1> QED
  BY <1>3, <1>8, InspectorStep

\* The end of a flow entry.
LEMMA InspectedStep ==
    ASSUME Inv, NEW s \in Sessions, Inspected(s)
    PROVE  Inv'
<1> DEFINE j == apply_verdict(insp[s])
<1>1. insp[s] \in Inspector /\ Together(insp[s])
  BY DEF Inv, TypeOK, Paired
<1>2. j \in Inspector /\ Together(j)
  BY <1>1, AppliedType
<1>3. insp' = [insp EXCEPT ![s] = Rested(j)] /\ UNCHANGED <<cache, upd, blacklist, slept>>
  BY DEF Inspected
<1> HIDE DEF j
<1>4. Rested(j) \in Inspector /\ Paired(Rested(j))
  BY <1>2, RestedType
<1> QED
  BY <1>3, <1>4, InspectorStep

\* A response of the server.
LEMMA ServerResponseStep ==
    ASSUME Inv, NEW s \in Sessions, NEW id \in Ids, NEW n \in Names, NEW a \in Answers \cup {None},
           ServerResponse(s, id, n, a)
    PROVE  Inv'
<1> DEFINE i == NextMessage(insp[s], "w")
           e == [i EXCEPT !.error = TRUE]
<1>1. insp[s] \in Inspector /\ Paired(insp[s]) /\ TypeOK /\ \A m \in Names : Fits(cache[m])
  BY DEF Inv, TypeOK
<1>2. cache' \in [Names -> Entry \cup {NoEntry}] /\ \A m \in Names : Fits(cache'[m])
  <2>1. cache' = cache \/ (a \in Answers /\ cache' = store(n, a, TRUE))
    BY DEF ServerResponse
  <2>2. CASE cache' = cache
    BY <1>1, <2>2 DEF TypeOK
  <2>3. CASE a \in Answers /\ cache' = store(n, a, TRUE)
    BY <1>1, <2>3, Stored
  <2> QED
    BY <2>1, <2>2, <2>3
<1>3. i \in Inspector /\ Paired(i)
  BY <1>1, NextMessageType DEF ServerResponse
<1>4. insp' = [insp EXCEPT ![s] = i] \/ insp' = [insp EXCEPT ![s] = e]
  BY DEF ServerResponse
<1> HIDE DEF i
<1>5. e \in Inspector
  BY <1>3 DEF Inspector
<1>6. /\ e.verdict = i.verdict /\ e.cached_response = i.cached_response /\ e.due = i.due
      /\ e.sent = i.sent /\ e.source = i.source /\ e.it = i.it
  BY <1>3 DEF Inspector
<1> HIDE DEF e
<1>7. Paired(e)
  BY <1>3, <1>6 DEF Paired, Together, Exact, Counted
<1>8. PICK j \in Inspector : Paired(j) /\ insp' = [insp EXCEPT ![s] = j]
  BY <1>3, <1>4, <1>5, <1>7
<1>9. UNCHANGED <<upd, blacklist, slept>>
  BY DEF ServerResponse
<1>10. TypeOK'
  BY <1>1, <1>2, <1>8, <1>9 DEF TypeOK
<1>11. ASSUME NEW t \in Sessions
       PROVE  Paired(insp[t])'
  <2>1. insp'[t] = IF t = s THEN j ELSE insp[t]
    BY <1>1, <1>8 DEF TypeOK
  <2> QED
    BY <1>8, <2>1, PairedPrime DEF Inv
<1>12. \A m \in Names : Fits(cache[m])'
  BY <1>2 DEF Fits
<1> QED
  BY <1>10, <1>11, <1>12 DEF Inv

\* A closed session.
LEMMA CloseStep ==
    ASSUME Inv, NEW s \in Sessions, Close(s)
    PROVE  Inv'
  BY NewType, InspectorStep DEF Close

\* The start of a round.
LEMMA RoundStep ==
    ASSUME Inv, Round
    PROVE  Inv'
<1> DEFINE t == {n \in Fqdns : NeedsQuery(n)}
<1>1. upd \in Updater /\ upd' = [upd EXCEPT !.pc = "query", !.todo = t] /\ t \in SUBSET Fqdns
  BY DEF Inv, TypeOK, Round
<1> HIDE DEF t
<1>2. upd' \in Updater /\ upd'.delta = upd.delta /\ upd'.ttl = upd.ttl
  BY <1>1 DEF Updater
<1> QED
  BY <1>2, CacheStep DEF Inv, TypeOK, Round

\* A name less to ask for.
LEMMA Asked ==
    ASSUME Inv, NEW n, upd' = [upd EXCEPT !.todo = @ \ {n}]
    PROVE  upd' \in Updater /\ upd'.delta <= upd'.ttl /\ upd'.ttl <= 1 + laundry_cap
<1> DEFINE t == upd.todo \ {n}
<1>1. upd \in Updater /\ upd' = [upd EXCEPT !.todo = t] /\ t \in SUBSET Fqdns
  BY DEF Inv, TypeOK, Updater
<1> HIDE DEF t
<1>2. upd' \in Updater /\ upd'.delta = upd.delta /\ upd'.ttl = upd.ttl
  BY <1>1 DEF Updater
<1> QED
  BY <1>2 DEF Inv, TypeOK

\* The updater's own answers.
LEMMA RequeryStep ==
    ASSUME Inv, NEW n \in Fqdns, NEW a \in Answers, Requery(n, a)
    PROVE  Inv'
<1>1. n \in Names /\ cache' = store(n, a, FALSE) /\ UNCHANGED <<insp, blacklist, slept>>
  BY DnsAssumption DEF Requery
<1>2. cache' \in [Names -> Entry \cup {NoEntry}] /\ \A m \in Names : Fits(cache'[m])
  BY <1>1, Stored DEF Inv
<1>3. upd' \in Updater /\ upd'.delta <= upd'.ttl /\ upd'.ttl <= 1 + laundry_cap
  BY Asked DEF Requery
<1> QED
  BY <1>1, <1>2, <1>3, CacheStep DEF Inv, TypeOK

\* A query that brought nothing.
LEMMA RequeryFailsStep ==
    ASSUME Inv, NEW n \in Fqdns, NEW empty \in BOOLEAN, RequeryFails(n, empty)
    PROVE  Inv'
<1>1. upd' \in Updater /\ upd'.delta <= upd'.ttl /\ upd'.ttl <= 1 + laundry_cap
  BY Asked DEF RequeryFails
<1>2. blacklist' \subseteq Fqdns /\ UNCHANGED <<cache, insp, slept>>
  BY DEF RequeryFails, Inv, TypeOK
<1> QED
  BY <1>1, <1>2, CacheStep DEF Inv, TypeOK

\* The time to the next cleanup is between one round and the cap.
LEMMA NextCleanupBound ==
    ASSUME TypeOK
    PROVE  NextCleanup \in Nat /\ NextCleanup <= 1 + laundry_cap
<1> DEFINE T == {current_ttl(n) : n \in {m \in Names : Cached(m) /\ current_ttl(m) >= 0}}
           S == {laundry_cap} \cup T
<1>1. laundry_cap \in Nat
  BY DnsAssumption
<1>2. T \in SUBSET Nat
  BY EntryNumbers
<1>3. NextCleanup = 1 + Min(S)
  BY DEF NextCleanup
<1> HIDE DEF T
<1>4. S \in SUBSET Nat /\ S # {} /\ laundry_cap \in S
  BY <1>1, <1>2
<1> HIDE DEF S
<1>5. Min(S) \in Nat /\ Min(S) <= laundry_cap
  BY <1>4, MinIs
<1> QED
  BY <1>1, <1>3, <1>5

\* The end of a round.
LEMMA RoundEndStep ==
    ASSUME Inv, RoundEnd
    PROVE  Inv'
<1> DEFINE laundry == upd.delta + 1 > upd.ttl
           r == (upd.round + 1) % blacklist_rounds
           d == IF laundry THEN 0 ELSE upd.delta + 1
           t == IF laundry THEN NextCleanup ELSE upd.ttl
<1>1. /\ upd.round \in Nat /\ upd.delta \in Nat /\ upd.ttl \in Nat /\ upd.ttl <= 1 + laundry_cap
      /\ laundry_cap \in Nat /\ blacklist_rounds \in Nat \ {0}
  BY DnsAssumption DEF Inv, TypeOK, Updater
<1>2. upd' = [pc |-> "sleep", todo |-> {}, round |-> r, delta |-> d, ttl |-> t]
  BY DEF RoundEnd
<1>3. r \in 0..(blacklist_rounds - 1)
  BY <1>1
<1>4. d \in Nat /\ t \in Nat /\ d <= t /\ t <= 1 + laundry_cap
  BY <1>1, NextCleanupBound DEF Inv
<1> HIDE DEF r, d, t
<1>5. upd' \in Updater /\ upd'.delta <= upd'.ttl /\ upd'.ttl <= 1 + laundry_cap
  BY <1>2, <1>3, <1>4 DEF Updater
<1>6. cache' \in [Names -> Entry \cup {NoEntry}] /\ \A n \in Names : cache'[n] \in {NoEntry, cache[n]}
  BY DEF RoundEnd, Inv, TypeOK
<1>7. \A n \in Names : Fits(cache'[n])
  BY <1>6, NoEntryFits DEF Inv
<1>8. blacklist' \subseteq Fqdns /\ slept' \in BOOLEAN /\ UNCHANGED insp
  BY DEF RoundEnd, Inv, TypeOK, blacklist_clear
<1> QED
  BY <1>5, <1>6, <1>7, <1>8, CacheStep

\* The operator clears the cache.
LEMMA ClearCacheStep ==
    ASSUME Inv, ClearCache
    PROVE  Inv'
<1>1. cache' \in [Names -> Entry \cup {NoEntry}] /\ \A n \in Names : Fits(cache'[n])
  BY NoEntryFits DEF ClearCache
<1> QED
  BY <1>1, CacheStep DEF ClearCache, Inv, TypeOK

\* Entries grow older, up to MaxAge.
LEMMA TickStep ==
    ASSUME Inv, Tick
    PROVE  Inv'
<1>1. ASSUME NEW n \in Names
      PROVE  cache'[n] \in Entry \cup {NoEntry} /\ Fits(cache'[n])
  <2> DEFINE a == cache[n].age + 1
             e == [cache[n] EXCEPT !.age = a]
  <2>1. cache[n] \in Entry \cup {NoEntry} /\ Fits(cache[n]) /\ cache[n].age \in 0..MaxAge
    BY EntryNumbers DEF Inv, TypeOK
  <2>2. cache'[n] = IF Cached(n) /\ cache[n].age < MaxAge THEN e ELSE cache[n]
    BY DEF Tick
  <2>3. CASE Cached(n) /\ cache[n].age < MaxAge
    <3>1. cache[n] \in Entry /\ a \in 0..MaxAge
      BY <2>1, <2>3, Bounds DEF Cached
    <3> HIDE DEF a
    <3>2. e \in Entry /\ e.ttl = cache[n].ttl /\ e.least = cache[n].least
      BY <3>1 DEF Entry
    <3> QED
      BY <2>1, <2>2, <2>3, <3>2 DEF Fits
  <2>4. CASE ~(Cached(n) /\ cache[n].age < MaxAge)
    BY <2>1, <2>2, <2>4
  <2> QED
    BY <2>3, <2>4
<1>2. cache' \in [Names -> Entry \cup {NoEntry}]
  BY <1>1 DEF Tick
<1> QED
  BY <1>1, <1>2, CacheStep DEF Tick, Inv, TypeOK

\* Every step keeps the invariant.
LEMMA InvStep == Inv /\ [Next]_vars => Inv'
<1> SUFFICES ASSUME Inv, [Next]_vars PROVE Inv'
  OBVIOUS
<1>1. ASSUME NEW s \in Sessions, SessionStep(s)
      PROVE  Inv'
  BY <1>1, RequestStep, ServerResponseStep, InspectedStep, CloseStep DEF SessionStep
<1>2. CASE UpdaterStep
  BY <1>2, RoundStep, RequeryStep, RequeryFailsStep, RoundEndStep DEF UpdaterStep
<1>3. CASE ClearCache
  BY <1>3, ClearCacheStep
<1>4. CASE Tick
  BY <1>4, TickStep
<1>5. CASE UNCHANGED vars
  BY <1>5 DEF vars, Inv, TypeOK, Fits, Paired, Together, Exact, Counted
<1> QED
  BY <1>1, <1>2, <1>3, <1>4, <1>5 DEF Next

\* The invariant holds in every state.
LEMMA Invariance == Spec => []Inv
  BY InvInit, InvStep, PTL DEF Spec

\* TTLs in response buffers stay unsigned numbers of their field, however often
\* a response is decremented, and the updater's wait never exceeds its cap.
THEOREM TypeCorrect == Spec => []TypeOK
<1>1. Inv => TypeOK
  BY DEF Inv
<1> QED
  BY <1>1, Invariance, PTL

\* In no order of hits, misses, expired answers and errors is a session left
\* with a verdict to serve and nothing to send, or the other way round.
THEOREM VerdictMeansResponse == Spec => []VerdictHasResponse
<1>1. Inv => VerdictHasResponse
  BY DEF Inv, Paired, Together, VerdictHasResponse
<1> QED
  BY <1>1, Invariance, PTL

-----------------------------------------------------------------------------
(* The first answer served from the cache                                  *)

\* FirstServeExact of one session and one step.
ServesExactly(s) ==
    (insp[s].due # None /\ insp'[s].sent # None) => insp'[s].sent.left = insp[s].due

\* A response that is due is sent with the time it has left.
LEMMA DueIsSent ==
    ASSUME NEW i \in Inspector, Paired(i), i.due # None
    PROVE  apply_verdict(i).sent.left = i.due
<1> DEFINE c == i.cached_response
<1>1. c \in Response /\ i.verdict = "CACHED" /\ c # None /\ i.due = c.left - c.dec /\ c.left >= c.dec
  BY DEF Paired, Together, Exact, Inspector
<1>2. apply_verdict(i).sent = Mangled(c)
  BY <1>1 DEF apply_verdict, Inspector
<1>3. c.left \in Nat /\ c.dec \in Nat /\ c.left < TtlMod
  BY <1>1, Bounds DEF Response
<1>4. Mangled(c).left = (c.left - c.dec + TtlMod) % TtlMod
  BY <1>1 DEF Mangled, Response
<1> HIDE DEF c
<1> QED
  BY <1>1, <1>2, <1>3, <1>4, NoWrap

\* Only the end of an inspection sends, and a response it was due is exact.
LEMMA ServeStep == Inv /\ Next => \A s \in Sessions : ServesExactly(s)
<1> SUFFICES ASSUME Inv, Next, NEW s \in Sessions, insp[s].due # None, insp'[s].sent # None
             PROVE  insp'[s].sent.left = insp[s].due
  BY DEF ServesExactly
<1>1. insp[s] \in Inspector /\ insp \in [Sessions -> Inspector] /\ Paired(insp[s]) /\ insp[s].sent = None
  BY DEF Inv, TypeOK, Paired, Exact
<1>2. insp'[s] # insp[s]
  BY <1>1
<1>3. PICK t \in Sessions : SessionStep(t)
  BY <1>2 DEF Next, UpdaterStep, Round, Requery, RequeryFails, RoundEnd, ClearCache, Tick
<1>4. t = s
  BY <1>1, <1>2, <1>3 DEF SessionStep, Request, ServerResponse, Inspected, Close
<1>5. ~Close(s)
  BY <1>1 DEF Close, NewInspector
<1>6. ASSUME NEW id \in Ids, NEW n \in Names, NEW a \in Answers \cup {None}, ServerResponse(s, id, n, a)
      PROVE  FALSE
  <2> DEFINE i == NextMessage(insp[s], "w")
             e == [i EXCEPT !.error = TRUE]
  <2>1. i \in Inspector /\ i.sent = None
    BY <1>1, <1>6, NextMessageType DEF ServerResponse
  <2>2. insp'[s] = i \/ insp'[s] = e
    BY <1>1, <1>6 DEF ServerResponse
  <2> HIDE DEF i
  <2>3. e.sent = None
    BY <2>1 DEF Inspector
  <2> QED
    BY <2>1, <2>2, <2>3
<1>7. ASSUME NEW id \in Ids, NEW n \in Names \cup {"other"}, Request(s, id, n)
      PROVE  FALSE
  <2> DEFINE m == NextMessage(insp[s], "r")
             q == m.requests \cup {id}
             a == [id |-> id, name |-> n]
             i == [m EXCEPT !.requests = q, !.asked = a]
  <2>1. m \in Inspector /\ m.sent = None
    BY <1>1, <1>7, NextMessageType DEF Request
  <2>2. insp'[s] = Served(i, id, n)
    BY <1>1, <1>7 DEF Request
  <2> HIDE DEF m
  <2>3. q \in SUBSET Ids /\ a \in [id : Ids, name : Names \cup {"other"}]
    BY <2>1 DEF Inspector
  <2> HIDE DEF q, a
  <2>4. i \in Inspector /\ i.sent = None
    BY <2>1, <2>3 DEF Inspector
  <2> HIDE DEF i
  <2>5. Served(i, id, n).sent = i.sent
    BY <2>4 DEF Served, Prepared, Dropped, Inspector
  <2> QED
    BY <2>2, <2>4, <2>5
<1>8. Inspected(s)
  BY <1>3, <1>4, <1>5, <1>6, <1>7 DEF SessionStep
<1> DEFINE j == apply_verdict(insp[s])
<1>9. insp'[s] = Rested(j) /\ j \in Inspector /\ Together(j)
  BY <1>1, <1>8, AppliedType DEF Inspected, Paired
<1>10. j.sent.left = insp[s].due
  BY <1>1, DueIsSent
<1> HIDE DEF j
<1> QED
  BY <1>9, <1>10, RestedType

\* A response served from the cache carries the time its entry had left when
\* it was looked up, however many messages, sessions and updates came between
\* the lookup and the sending, whatever the widths and TTLs.
THEOREM FirstServeIsExact == Spec => FirstServeExact
<1>1. Inv /\ [Next]_vars => [\A s \in Sessions : ServesExactly(s)]_vars
  BY ServeStep
<1> QED
  BY <1>1, Invariance, PTL DEF Spec, FirstServeExact, ServesExactly
=============================================================================
