------------------------- MODULE AuthIdentityProofs -------------------------
(***************************************************************************)
(* Proofs about AuthIdentity for any addresses, users, sessions and any    *)
(* number of logins: the types, and that the identities in use are the     *)
(* rows shared with the portal once the table has been merged.             *)
(***************************************************************************)
EXTENDS AuthIdentity, FiniteSetTheorems, TLAPS

-----------------------------------------------------------------------------
(* Facts about the operators.                                              *)

\* Marking pointers as dangling keeps the threads' types, steps and work.
LEMMA ErasedFacts ==
    ASSUME TypeOK, NEW gone
    PROVE  /\ Erased(th, gone) \in [Procs -> Thread]
           /\ \A p \in Procs : /\ Erased(th, gone)[p].pc = th[p].pc
                               /\ Erased(th, gone)[p].todo = th[p].todo
                               /\ Erased(th, gone)[p].why = th[p].why
                               /\ Erased(th, gone)[p].li = th[p].li
<1>1. ASSUME NEW p \in Procs
      PROVE  /\ Erased(th, gone)[p] \in Thread
             /\ Erased(th, gone)[p].pc = th[p].pc
             /\ Erased(th, gone)[p].todo = th[p].todo
             /\ Erased(th, gone)[p].why = th[p].why
             /\ Erased(th, gone)[p].li = th[p].li
  <2>1. th[p] \in Thread
    BY DEF TypeOK
  <2>2. CASE Erased(th, gone)[p] = th[p]
    BY <2>1, <2>2
  <2>3. CASE Erased(th, gone)[p] = [th[p] EXCEPT !.ptr = "dangling"]
    BY <2>1, <2>3 DEF Thread
  <2> QED
    BY <2>2, <2>3 DEF Erased
<1>2. Erased(th, gone) = [p \in Procs |-> Erased(th, gone)[p]]
  BY DEF Erased
<1> QED
  BY <1>1, <1>2

\* A thread with other values in its fields is a thread.
LEMMA ThreadUpdate ==
    ASSUME NEW t \in [Procs -> Thread], NEW p \in Procs, NEW s \in Steps,
           NEW n \in Nat \cup {-1}, NEW d \in SUBSET Ips
    PROVE  /\ [t EXCEPT ![p].pc = s] \in [Procs -> Thread]
           /\ [t EXCEPT ![p].loaded = n, ![p].pc = s] \in [Procs -> Thread]
           /\ [t EXCEPT ![p].pc = s, ![p].todo = d] \in [Procs -> Thread]
<1>1. t[p] \in Thread
  OBVIOUS
<1>2. [t[p] EXCEPT !.pc = s] \in Thread
  BY <1>1 DEF Thread
<1>3. [t[p] EXCEPT !.loaded = n, !.pc = s] \in Thread
  <2>1. [t[p] EXCEPT !.loaded = n] \in Thread
    BY <1>1 DEF Thread
  <2>2. \A r \in Thread : [r EXCEPT !.pc = s] \in Thread
    BY DEF Thread
  <2>3. [t[p] EXCEPT !.loaded = n, !.pc = s] = [[t[p] EXCEPT !.loaded = n] EXCEPT !.pc = s]
    BY <1>1 DEF Thread
  <2> QED
    BY <2>1, <2>2, <2>3
<1>4. [t[p] EXCEPT !.pc = s, !.todo = d] \in Thread
  BY <1>1 DEF Thread
<1> QED
  BY <1>2, <1>3, <1>4

\* So is one that begins to merge.
LEMMA ThreadMerges ==
    ASSUME NEW t \in [Procs -> Thread], NEW p \in Procs
    PROVE  [t EXCEPT ![p].pc = "merge", ![p].todo = Ips, ![p].loaded = -1] \in [Procs -> Thread]
<1>1. t[p] \in Thread
  OBVIOUS
<1>2. [t[p] EXCEPT !.pc = "merge", !.todo = Ips, !.loaded = -1] \in Thread
  BY <1>1 DEF Thread, Steps
<1> QED
  BY <1>2

\* The number of rows is a number.
LEMMA RowCount == Cardinality({ip \in Ips : shm[ip] # None}) \in Nat
<1>1. IsFiniteSet({ip \in Ips : shm[ip] # None})
  BY AuthAssumption, FS_Subset
<1> QED
  BY <1>1, FS_CardinalityType

\* An update of an identity is an identity.
LEMMA UpsertType ==
    ASSUME NEW id \in Identity \cup {NoIdentity}, NEW u \in Users \cup {None}
    PROVE  /\ Upsert(id, u) \in Identity \cup {NoIdentity}
           /\ u # None => Upsert(id, u).user = u
           /\ u = None => Upsert(id, u) = id
<1>1. id.user \in Users \cup {None} /\ id.idle \in BOOLEAN
  <2>1. CASE id \in Identity
    BY <2>1 DEF Identity
  <2>2. CASE id = NoIdentity
    <3>1. id.user = None /\ id.idle = FALSE
      BY <2>2 DEF NoIdentity
    <3> QED
      BY <3>1
  <2> QED
    BY <2>1, <2>2
<1>2. CASE u = None
  BY <1>2 DEF Upsert
<1>3. CASE u # None
  <2> DEFINE i == IF id.user = None THEN FALSE ELSE id.idle
  <2>1. i \in BOOLEAN
    BY <1>1
  <2>2. Upsert(id, u) = [user |-> u, idle |-> i]
    BY <1>3 DEF Upsert
  <2> HIDE DEF i
  <2>3. [user |-> u, idle |-> i] \in Identity
    BY <1>3, <2>1 DEF Identity
  <2> QED
    BY <1>3, <2>2, <2>3
<1> QED
  BY <1>2, <1>3

\* Removing an identity keeps the tables' types.
LEMMA RemoveType ==
    ASSUME TypeOK, NEW ip \in Ips, Remove(ip)
    PROVE  /\ shm' \in Rows /\ copy' \in Rows /\ entries' \in Rows /\ changed' \in BOOLEAN
           /\ ip_map' \in [Ips -> Identity \cup {NoIdentity}]
<1>1. CASE ~Present(ip)
  BY <1>1 DEF Remove, TypeOK
<1>2. CASE Present(ip)
  <2>1. ip_map' = [ip_map EXCEPT ![ip] = NoIdentity] /\ Save(ip)
    BY <1>2 DEF Remove
  <2>2. ip_map' \in [Ips -> Identity \cup {NoIdentity}]
    BY <2>1 DEF TypeOK
  <2>3. shm' \in Rows /\ copy' \in Rows /\ entries' \in Rows /\ changed' \in BOOLEAN
    BY <2>1 DEF Save, TypeOK, Rows
  <2> QED
    BY <2>2, <2>3
<1> QED
  BY <1>1, <1>2

\* A touched identity is one, and its user is the same.
LEMMA TouchedIdentity ==
    ASSUME NEW id \in Identity \cup {NoIdentity}
    PROVE  /\ [user |-> id.user, idle |-> FALSE] \in Identity \cup {NoIdentity}
           /\ [user |-> id.user, idle |-> FALSE].user = id.user
<1>1. CASE id \in Identity
  BY <1>1 DEF Identity
<1>2. CASE id = NoIdentity
  <2>1. id.user = None
    BY <1>2 DEF NoIdentity
  <2> QED
    BY <2>1 DEF NoIdentity
<1> QED
  BY <1>1, <1>2

\* touch() changes no user.
LEMMA TouchedUsers ==
    ASSUME TypeOK, NEW w, TouchEntry(w)
    PROVE  /\ ip_map' \in [Ips -> Identity \cup {NoIdentity}]
           /\ \A ip \in Ips : ip_map'[ip].user = ip_map[ip].user
<1>1. PICK hit : ip_map' = [ip \in Ips |-> IF ip \in hit THEN [user |-> ip_map[ip].user, idle |-> FALSE]
                                          ELSE ip_map[ip]]
  BY DEF TouchEntry
<1>2. ASSUME NEW ip \in Ips
      PROVE  ip_map'[ip] \in Identity \cup {NoIdentity} /\ ip_map'[ip].user = ip_map[ip].user
  <2>1. ip_map[ip] \in Identity \cup {NoIdentity}
    BY DEF TypeOK
  <2>2. ip_map'[ip] = [user |-> ip_map[ip].user, idle |-> FALSE] \/ ip_map'[ip] = ip_map[ip]
    BY <1>1
  <2> QED
    BY <2>1, <2>2, TouchedIdentity
<1>3. ip_map' = [ip \in Ips |-> ip_map'[ip]]
  BY <1>1
<1> QED
  BY <1>2, <1>3

-----------------------------------------------------------------------------
(* Types.                                                                  *)

\* Init satisfies the type invariant.
LEMMA TypeInit == Init => TypeOK
<1> SUFFICES ASSUME Init PROVE TypeOK
  OBVIOUS
<1>1. shm \in Rows /\ copy \in Rows /\ entries \in Rows /\ changed \in BOOLEAN
  BY DEF Init, Rows
<1>2. ip_map \in [Ips -> Identity \cup {NoIdentity}]
  BY DEF Init
<1>3. th \in [Procs -> Thread]
  BY DEF Init, Thread, Steps
<1>4. sess \in [Workers -> Session]
  BY DEF Init, Session
<1>5. lock \in Procs \cup {None} /\ logins \in 0..MaxLogins /\ clears \in 0..MaxClears
  BY AuthAssumption DEF Init
<1> QED
  BY <1>1, <1>2, <1>3, <1>4, <1>5 DEF TypeOK

\* Every step preserves the type invariant.
LEMMA TypeStep == TypeOK /\ [Next]_vars => TypeOK'
<1> SUFFICES ASSUME TypeOK, [Next]_vars PROVE TypeOK'
  OBVIOUS
<1>t. /\ \A p \in Procs : th[p] \in Thread
      /\ \A w \in Workers : w \in Procs /\ HostOf[w] \in Ips
      /\ \A ip \in Ips : ip_map[ip] \in Identity \cup {NoIdentity}
      /\ \A w \in Workers : sess[w] \in Session
  BY AuthAssumption DEF TypeOK, Procs
<1>1. ASSUME NEW p \in Procs, Load(p) PROVE TypeOK'
  <2> DEFINE n == IF changed THEN Cardinality({ip \in Ips : shm[ip] # None}) ELSE -1
             s == IF changed THEN "acquire" ELSE IF p = Idu THEN "scan" ELSE "lookup"
  <2>s. n \in Nat \cup {-1} /\ s \in Steps /\ th' = [th EXCEPT ![p].loaded = n, ![p].pc = s]
    BY <1>1, RowCount DEF Load, Steps
  <2> HIDE DEF n, s
  <2>1. th' \in [Procs -> Thread]
    BY <2>s, ThreadUpdate, \A d : d = {} => d \in SUBSET Ips DEF TypeOK
  <2> QED
    BY <1>1, <2>1 DEF Load, TypeOK
<1>2. ASSUME NEW p \in Procs, LoadFails(p) PROVE TypeOK'
  <2>1. th' \in [Procs -> Thread]
    BY <1>2, <1>t DEF LoadFails, TypeOK, Thread, Steps
  <2> QED
    BY <1>2, <2>1 DEF LoadFails, TypeOK
<1>3. ASSUME NEW p \in Procs, MergeStart(p) PROVE TypeOK'
  <2> DEFINE gone == IF th[p].loaded = 0 THEN Ips ELSE {}
  <2>1. Erased(th, gone) \in [Procs -> Thread]
    BY ErasedFacts
  <2>s. th' = [Erased(th, gone) EXCEPT ![p].pc = "merge", ![p].todo = Ips, ![p].loaded = -1]
    BY <1>3, Zenon DEF MergeStart
  <2>2. th' \in [Procs -> Thread]
    BY <2>s, <2>1, ThreadMerges
  <2>3. ip_map' \in [Ips -> Identity \cup {NoIdentity}]
    BY <1>3, <1>t DEF MergeStart, TypeOK
  <2> QED
    BY <1>3, <2>2, <2>3 DEF MergeStart, TypeOK
<1>4. ASSUME NEW p \in Procs, NEW ip \in Ips, MergeEntry(p, ip) PROVE TypeOK'
  <2>1. Upsert(ip_map[ip], entries[ip]) \in Identity \cup {NoIdentity}
    BY <1>t, UpsertType DEF TypeOK, Rows
  <2>2. ip_map' \in [Ips -> Identity \cup {NoIdentity}]
    BY <1>4, <2>1 DEF MergeEntry, TypeOK
  <2>3. th' \in [Procs -> Thread]
    BY <1>4, <1>t DEF MergeEntry, TypeOK, Thread
  <2> QED
    BY <1>4, <2>2, <2>3 DEF MergeEntry, TypeOK
<1>5. ASSUME NEW p \in Procs, MergeEnd(p) PROVE TypeOK'
  <2> DEFINE s == IF p = Idu THEN "scan" ELSE "lookup"
  <2>s. s \in Steps /\ th' = [th EXCEPT ![p].pc = s]
    BY <1>5 DEF MergeEnd, Steps
  <2> HIDE DEF s
  <2>1. th' \in [Procs -> Thread]
    BY <2>s, <1>t DEF TypeOK, Thread
  <2> QED
    BY <1>5, <2>1 DEF MergeEnd, TypeOK
<1>6. ASSUME NEW p \in Procs, TimeoutScan(p) PROVE TypeOK'
  <2> DEFINE old == {ip \in Ips : Present(ip) /\ ip_map[ip].idle}
  <2>s. old \in SUBSET Ips /\ th' = [th EXCEPT ![p].pc = "expire", ![p].todo = old]
    BY <1>6 DEF TimeoutScan
  <2> HIDE DEF old
  <2>1. th' \in [Procs -> Thread]
    BY <2>s, ThreadUpdate DEF TypeOK, Steps
  <2> QED
    BY <1>6, <2>1 DEF TimeoutScan, TypeOK
<1>7. ASSUME NEW p \in Procs, NEW ip \in Ips, TimeoutRemove(p, ip) PROVE TypeOK'
  <2>1. Erased(th, {ip}) \in [Procs -> Thread]
    BY ErasedFacts
  <2> DEFINE t == Erased(th, {ip})
  <2>e. t \in [Procs -> Thread]
    BY <2>1
  <2>s. th' = [t EXCEPT ![p].todo = @ \ {ip}]
    BY <1>7 DEF TimeoutRemove
  <2> HIDE DEF t
  <2>2. th' \in [Procs -> Thread]
    BY <2>e, <2>s DEF Thread
  <2>3. Remove(ip)
    BY <1>7 DEF TimeoutRemove
  <2> QED
    BY <1>7, <2>2, <2>3, RemoveType DEF TimeoutRemove, TypeOK
<1>8. ASSUME NEW p \in Procs, TimeoutEnd(p) PROVE TypeOK'
  <2>1. th' \in [Procs -> Thread]
    BY <1>8, <1>t DEF TimeoutEnd, TypeOK, Thread, Steps
  <2> QED
    BY <1>8, <2>1 DEF TimeoutEnd, TypeOK
<1>9. ASSUME ClearIdentities PROVE TypeOK'
  <2>1. th' \in [Procs -> Thread]
    BY <1>9, ErasedFacts DEF ClearIdentities
  <2>2. shm' \in Rows /\ copy' \in Rows /\ entries' \in Rows /\ changed' \in BOOLEAN
    BY <1>9 DEF ClearIdentities, Rows
  <2>3. ip_map' \in [Ips -> Identity \cup {NoIdentity}]
    BY <1>9 DEF ClearIdentities
  <2>4. clears' \in 0..MaxClears
    BY <1>9, AuthAssumption DEF ClearIdentities, TypeOK
  <2> QED
    BY <1>9, <2>1, <2>2, <2>3, <2>4 DEF ClearIdentities, TypeOK
<1>10. ASSUME NEW w \in Workers, ResolveIdentity(w) PROVE TypeOK'
  <2>1. th' \in [Procs -> Thread]
    BY <1>10, <1>t DEF ResolveIdentity, TypeOK, Thread, Steps
  <2> QED
    BY <1>10, <2>1 DEF ResolveIdentity, TypeOK
<1>11. ASSUME NEW w \in Workers, FindEntry(w) PROVE TypeOK'
  <2>1. th' \in [Procs -> Thread]
    BY <1>11, <1>t DEF FindEntry, TypeOK, Thread, Steps
  <2> QED
    BY <1>11, <2>1 DEF FindEntry, TypeOK
<1>12. ASSUME NEW w \in Workers, CheckEntry(w) \/ TouchEntry(w) PROVE TypeOK'
  <2>1. ASSUME NEW ret \in BOOLEAN, Returned(w, ret)
        PROVE  th' \in [Procs -> Thread] /\ sess' \in [Workers -> Session]
    <3>0. \/ th' = [th EXCEPT ![w].pc = "ready", ![w].ptr = "null"]
          \/ th' = [th EXCEPT ![w].pc = "lock", ![w].ptr = "null"]
          \/ th' = [th EXCEPT ![w].pc = "apply", ![w].ptr = "null", ![w].li = None, ![w].why = "known"]
      BY <2>1 DEF Returned
    <3>1. th' \in [Procs -> Thread]
      BY <3>0, <1>t DEF TypeOK, Thread, Steps
    <3> DEFINE u == IF ret THEN th[w].li ELSE sess[w].identity
    <3>s. u \in Users \cup {None}
      BY <1>t DEF Thread, Session
    <3>u. \/ sess' = [sess EXCEPT ![w].identity_resolved = ret]
          \/ sess' = [sess EXCEPT ![w].identity_resolved = ret, ![w].identity = u]
      BY <2>1, <1>t DEF Returned, TypeOK
    <3> HIDE DEF u
    <3>2. sess' \in [Workers -> Session]
      BY <3>s, <3>u, <2>1, <1>t DEF TypeOK, Session
    <3> QED
      BY <3>1, <3>2
  <2>2. ASSUME th' = [th EXCEPT ![w].pc = "remove", ![w].ptr = "null"], UNCHANGED sess
        PROVE  th' \in [Procs -> Thread] /\ sess' \in [Workers -> Session]
    BY <2>2, <1>t DEF TypeOK, Thread, Steps
  <2>3. ASSUME th' = [th EXCEPT ![w].pc = "touch"], UNCHANGED sess
        PROVE  th' \in [Procs -> Thread] /\ sess' \in [Workers -> Session]
    BY <2>3, <1>t DEF TypeOK, Thread, Steps
  <2>4. CASE CheckEntry(w)
    <3>1. \/ Returned(w, FALSE)
          \/ th' = [th EXCEPT ![w].pc = "touch"] /\ UNCHANGED sess
          \/ th' = [th EXCEPT ![w].pc = "remove", ![w].ptr = "null"] /\ UNCHANGED sess
      BY <2>4 DEF CheckEntry
    <3>2. th' \in [Procs -> Thread] /\ sess' \in [Workers -> Session]
      BY <2>1, <2>2, <2>3, <3>1
    <3> QED
      BY <2>4, <3>2 DEF CheckEntry, TypeOK
  <2>5. CASE TouchEntry(w)
    <3>1. th' \in [Procs -> Thread] /\ sess' \in [Workers -> Session]
      BY <2>1, <2>5 DEF TouchEntry
    <3>2. ip_map' \in [Ips -> Identity \cup {NoIdentity}]
      BY <2>5, TouchedUsers
    <3> QED
      BY <2>5, <3>1, <3>2 DEF TouchEntry, TypeOK
  <2> QED
    BY <1>12, <2>4, <2>5
<1>13. ASSUME NEW w \in Workers, RemoveExpired(w) PROVE TypeOK'
  <2>1. Erased(th, {HostOf[w]}) \in [Procs -> Thread]
    BY ErasedFacts
  <2> DEFINE t == Erased(th, {HostOf[w]})
  <2>e. t \in [Procs -> Thread]
    BY <2>1
  <2>s. /\ th' = [t EXCEPT ![w].pc = "lock"]
           \/ th' = [t EXCEPT ![w].pc = "apply", ![w].li = None, ![w].why = "known"]
        /\ sess' = [sess EXCEPT ![w].identity_resolved = FALSE]
    BY <1>13, Zenon DEF RemoveExpired
  <2> HIDE DEF t
  <2>2. th' \in [Procs -> Thread]
    BY <1>t, <2>e, <2>s DEF Thread, Steps
  <2>3. sess' \in [Workers -> Session]
    BY <1>t, <2>s DEF TypeOK, Session
  <2>4. Remove(HostOf[w])
    BY <1>13 DEF RemoveExpired
  <2> QED
    BY <1>13, <1>t, <2>2, <2>3, <2>4, RemoveType DEF RemoveExpired, TypeOK
<1>14. ASSUME NEW w \in Workers, LockMap(w) PROVE TypeOK'
  <2>1. th' \in [Procs -> Thread]
    BY <1>14, <1>t DEF LockMap, TypeOK, Thread, Steps
  <2> QED
    BY <1>14, <1>t, <2>1 DEF LockMap, TypeOK
<1>15. ASSUME NEW w \in Workers, Lookup(w) PROVE TypeOK'
  <2>1. ip_map[HostOf[w]].user \in Users \cup {None}
    BY <1>t DEF Identity, NoIdentity
  <2>2. th' \in [Procs -> Thread]
    BY <1>15, <1>t, <2>1 DEF Lookup, TypeOK, Thread, Steps
  <2> QED
    BY <1>15, <2>2 DEF Lookup, TypeOK
<1>16. ASSUME NEW w \in Workers, ApplyIdPolicies(w) PROVE TypeOK'
  <2>1. ip_map[HostOf[w]].user \in Users \cup {None}
    BY <1>t DEF Identity, NoIdentity
  <2>s. th' = [th EXCEPT ![w].pc = "ready"]
    BY <1>16 DEF ApplyIdPolicies
  <2>2. th' \in [Procs -> Thread]
    BY <2>s, <1>t DEF TypeOK, Thread, Steps
  <2>3. sess' \in [Workers -> Session]
    BY <1>16, <1>t, <2>1 DEF ApplyIdPolicies, TypeOK, Session
  <2> QED
    BY <1>16, <2>2, <2>3 DEF ApplyIdPolicies, TypeOK
<1>17. ASSUME NEW ip \in Ips, NEW u \in Users, PortalLogin(ip, u) PROVE TypeOK'
  BY <1>17, AuthAssumption DEF PortalLogin, TypeOK, Rows
<1>18. ASSUME NEW ip \in Ips, IdleTimeout(ip) PROVE TypeOK'
  <2>1. [ip_map[ip] EXCEPT !.idle = TRUE] \in Identity
    <3>1. Present(ip)
      BY <1>18 DEF IdleTimeout
    <3>2. ip_map[ip] \in Identity
      BY <1>t, <3>1 DEF Present, NoIdentity
    <3> QED
      BY <3>2 DEF Identity
  <2>2. ip_map' = [ip_map EXCEPT ![ip] = [ip_map[ip] EXCEPT !.idle = TRUE]]
    BY <1>18, <1>t DEF IdleTimeout, TypeOK
  <2>3. ip_map' \in [Ips -> Identity \cup {NoIdentity}]
    BY <2>1, <2>2 DEF TypeOK
  <2> QED
    BY <1>18, <2>3 DEF IdleTimeout, TypeOK
<1>19. ASSUME UNCHANGED vars PROVE TypeOK'
  BY <1>19 DEF vars, TypeOK
<1> QED
  BY <1>1, <1>2, <1>3, <1>4, <1>5, <1>6, <1>7, <1>8, <1>9, <1>10, <1>11, <1>12, <1>13,
     <1>14, <1>15, <1>16, <1>17, <1>18, <1>19
     DEF Next, Refresh, Expire, Resolve

\* The tables hold rows, identities and threads of the right shape in every
\* state, for any number of sessions, logins and timeouts.
THEOREM TypeCorrect == Spec => []TypeOK
<1>1. Init => TypeOK
  BY TypeInit
<1>2. TypeOK /\ [Next]_vars => TypeOK'
  BY TypeStep
<1> QED
  BY <1>1, <1>2, PTL DEF Spec

-----------------------------------------------------------------------------
(* The identities in use and the rows shared with the portal.              *)

\* No thread has ip left to merge.
Merged(ip) == \A p \in Procs : ~Merging(p, ip)

\* A row is dropped from the copy only together with the shared one.
CopyInShm == \A ip \in Ips : copy[ip] # None => shm[ip] # None

\* An identity has a row in the copy, if save() keeps the two containers
\* equal; the merge relies on it, as it never removes an entry.
MapInCopy == SaveFillsEntries => \A ip \in Ips : ip_map[ip].user # None => copy[ip] # None

\* What the merge reads is the copy, up to rows removed since the load.
EntriesInCopy == \A ip \in Ips : copy[ip] # None \/ SaveFillsEntries => entries[ip] = copy[ip]

CopyCurrent == ~changed => copy = shm

MapCurrent == \A ip \in Ips : Merged(ip) /\ copy[ip] # None => ip_map[ip].user = copy[ip]

\* QuietConsistent speaks of a quiet table only; the last part makes it
\* inductive by relating the map to the copy between load and merge, the
\* first two survive a load that drops rows.
Consistent == CopyInShm /\ MapInCopy /\ EntriesInCopy /\ CopyCurrent /\ MapCurrent

\* A step that leaves the tables and the users alone and finishes no merge.
LEMMA Frame ==
    ASSUME Consistent, UNCHANGED <<shm, changed, copy, entries>>,
           \A ip \in Ips : ip_map'[ip].user = ip_map[ip].user,
           \A p \in Procs, ip \in Ips : Merging(p, ip) => Merging(p, ip)'
    PROVE  Consistent'
<1>1. CopyInShm' /\ CopyCurrent' /\ EntriesInCopy'
  BY DEF Consistent, CopyInShm, CopyCurrent, EntriesInCopy
<1>2. MapInCopy'
  BY DEF Consistent, MapInCopy
<1>3. MapCurrent'
  BY DEF Consistent, MapCurrent, Merged
<1> QED
  BY <1>1, <1>2, <1>3 DEF Consistent

\* A step of p to a place outside the merge, from one where nothing was left.
LEMMA FrameStep ==
    ASSUME TypeOK, Consistent, UNCHANGED <<shm, changed, copy, entries>>,
           \A ip \in Ips : ip_map'[ip].user = ip_map[ip].user,
           NEW p \in Procs,
           th[p].pc \notin {"acquire", "merge"} \/ (th[p].pc = "merge" /\ th[p].todo = {}),
           \A q \in Procs : q # p => th'[q] = th[q]
    PROVE  Consistent'
<1>1. \A q \in Procs, ip \in Ips : Merging(q, ip) => Merging(q, ip)'
  BY DEF Merging
<1> QED
  BY <1>1, Frame

\* ip4_remove takes the identity, its row in the copy and the shared row.
LEMMA RemoveConsistent ==
    ASSUME TypeOK, Consistent, NEW ip \in Ips, Remove(ip),
           \A p \in Procs, i \in Ips : Merging(p, i) => Merging(p, i)'
    PROVE  Consistent'
<1>1. CASE ~Present(ip)
  BY <1>1, Frame DEF Remove
<1>2. CASE Present(ip)
  <2>1. ip_map' = [ip_map EXCEPT ![ip] = NoIdentity] /\ Save(ip)
    BY <1>2 DEF Remove
  <2>2. \A i \in Ips : /\ i # ip => ip_map'[i] = ip_map[i] /\ copy'[i] = copy[i]
                       /\ i = ip => ip_map'[i].user = None /\ copy'[i] = None
    BY <2>1 DEF Save, TypeOK, Rows, NoIdentity
  <2>3. CopyInShm' /\ CopyCurrent'
    BY <2>1 DEF Save, Consistent, CopyInShm, CopyCurrent
  <2>4. EntriesInCopy'
    <3>1. (copy' = copy /\ entries' = entries) \/ entries' = copy' \/ (~SaveFillsEntries /\ entries' = entries)
      BY <2>1 DEF Save
    <3> QED
      BY <2>2, <3>1 DEF Consistent, EntriesInCopy
  <2>5. MapInCopy'
    BY <2>2 DEF Consistent, MapInCopy
  <2>6. MapCurrent'
    BY <2>2 DEF Consistent, MapCurrent, Merged
  <2> QED
    BY <2>3, <2>4, <2>5, <2>6 DEF Consistent
<1> QED
  BY <1>1, <1>2

\* Every step preserves it.
LEMMA ConsistentStep == TypeOK /\ Consistent /\ [Next]_vars => Consistent'
<1> SUFFICES ASSUME TypeOK, Consistent, [Next]_vars PROVE Consistent'
  OBVIOUS
<1>t. /\ \A p \in Procs : th[p] \in Thread
      /\ \A w \in Workers : w \in Procs /\ HostOf[w] \in Ips
      /\ \A ip \in Ips : ip_map[ip] \in Identity \cup {NoIdentity}
      /\ th \in [Procs -> Thread]
  BY AuthAssumption DEF TypeOK, Procs
<1>1. ASSUME NEW p \in Procs, Load(p) PROVE Consistent'
  <2>1. CASE changed
    <3>1. /\ copy' = shm /\ entries' = shm /\ shm' = shm /\ ip_map' = ip_map
          /\ th'[p].pc = "acquire"
      BY <1>1, <2>1, <1>t DEF Load, Thread
    <3>2. CopyInShm' /\ CopyCurrent' /\ EntriesInCopy'
      BY <3>1 DEF CopyInShm, CopyCurrent, EntriesInCopy
    <3>3. MapInCopy'
      BY <3>1 DEF Consistent, MapInCopy, CopyInShm
    <3>4. MapCurrent'
      BY <3>1 DEF MapCurrent, Merged, Merging
    <3> QED
      BY <3>2, <3>3, <3>4 DEF Consistent
  <2>2. CASE ~changed
    <3>1. UNCHANGED <<shm, changed, copy, entries, ip_map>>
      BY <1>1, <2>2 DEF Load, TypeOK
    <3>2. \A q \in Procs : q # p => th'[q] = th[q]
      BY <1>1, <1>t DEF Load
    <3> QED
      BY <1>1, <3>1, <3>2, FrameStep DEF Load
  <2> QED
    BY <2>1, <2>2
<1>2. ASSUME NEW p \in Procs, LoadFails(p) PROVE Consistent'
  <2>1. \A q \in Procs : q # p => th'[q] = th[q]
    BY <1>2, <1>t DEF LoadFails
  <2> QED
    BY <1>2, <2>1, FrameStep DEF LoadFails
<1>3. ASSUME NEW p \in Procs, MergeStart(p) PROVE Consistent'
  <2> DEFINE gone == IF th[p].loaded = 0 THEN Ips ELSE {}
             t == Erased(th, gone)
  <2>1. t \in [Procs -> Thread]
    BY ErasedFacts
  <2>2. th' = [t EXCEPT ![p].pc = "merge", ![p].todo = Ips, ![p].loaded = -1]
    BY <1>3 DEF MergeStart
  <2> HIDE DEF t
  <2>3. th'[p].pc = "merge" /\ th'[p].todo = Ips
    BY <2>1, <2>2 DEF Thread
  <2>4. MapCurrent'
    BY <2>3 DEF MapCurrent, Merged, Merging
  <2>5. \A ip \in Ips : ip_map'[ip] = ip_map[ip] \/ ip_map'[ip].user = None
    BY <1>3 DEF MergeStart, NoIdentity
  <2>6. UNCHANGED <<shm, changed, copy, entries>>
    BY <1>3 DEF MergeStart
  <2>7. MapInCopy'
    BY <2>5, <2>6 DEF Consistent, MapInCopy
  <2>8. CopyInShm' /\ CopyCurrent' /\ EntriesInCopy'
    BY <2>6 DEF Consistent, CopyInShm, CopyCurrent, EntriesInCopy
  <2> QED
    BY <2>4, <2>7, <2>8 DEF Consistent
<1>4. ASSUME NEW p \in Procs, NEW ip \in Ips, MergeEntry(p, ip) PROVE Consistent'
  <2>1. ip_map'[ip] = Upsert(ip_map[ip], entries[ip]) /\ \A i \in Ips : i # ip => ip_map'[i] = ip_map[i]
    BY <1>4 DEF MergeEntry, TypeOK
  <2>2. /\ copy[ip] # None => ip_map'[ip].user = copy[ip]
        /\ SaveFillsEntries => ip_map'[ip].user = copy[ip]
    <3>1. entries[ip] # None => Upsert(ip_map[ip], entries[ip]).user = entries[ip]
      BY <1>t, UpsertType DEF TypeOK, Rows
    <3>2. entries[ip] = None => Upsert(ip_map[ip], entries[ip]) = ip_map[ip]
      BY DEF Upsert
    <3>3. copy[ip] = None /\ SaveFillsEntries => ip_map[ip].user = None
      BY DEF Consistent, MapInCopy
    <3>4. copy[ip] # None \/ SaveFillsEntries => entries[ip] = copy[ip]
      BY DEF Consistent, EntriesInCopy
    <3> QED
      BY <2>1, <3>1, <3>2, <3>3, <3>4
  <2>3. UNCHANGED <<shm, changed, copy, entries>>
    BY <1>4 DEF MergeEntry
  <2>4. CopyInShm' /\ CopyCurrent' /\ EntriesInCopy'
    BY <2>3 DEF Consistent, CopyInShm, CopyCurrent, EntriesInCopy
  <2>5. MapInCopy'
    BY <2>1, <2>2, <2>3 DEF Consistent, MapInCopy
  <2>6. \A q \in Procs, i \in Ips : i # ip /\ Merging(q, i) => Merging(q, i)'
    <3>1. \A q \in Procs : q # p => th'[q] = th[q]
      BY <1>4, <1>t DEF MergeEntry
    <3>2. th'[p].pc = th[p].pc /\ th'[p].todo = th[p].todo \ {ip}
      BY <1>4, <1>t DEF MergeEntry, Thread
    <3> QED
      BY <3>1, <3>2 DEF Merging
  <2>7. MapCurrent'
    BY <2>1, <2>2, <2>3, <2>6 DEF Consistent, MapCurrent, Merged
  <2> QED
    BY <2>4, <2>5, <2>7 DEF Consistent
<1>5. ASSUME NEW p \in Procs, MergeEnd(p) PROVE Consistent'
  <2>1. \A q \in Procs : q # p => th'[q] = th[q]
    BY <1>5, <1>t DEF MergeEnd
  <2> QED
    BY <1>5, <2>1, FrameStep DEF MergeEnd
<1>6. ASSUME NEW p \in Procs, TimeoutScan(p) PROVE Consistent'
  <2>1. \A q \in Procs : q # p => th'[q] = th[q]
    BY <1>6, <1>t DEF TimeoutScan
  <2> QED
    BY <1>6, <2>1, FrameStep DEF TimeoutScan
<1>7. ASSUME NEW p \in Procs, NEW ip \in Ips, TimeoutRemove(p, ip) PROVE Consistent'
  <2> DEFINE t == Erased(th, {ip})
  <2>1. t \in [Procs -> Thread] /\ \A q \in Procs : t[q].pc = th[q].pc /\ t[q].todo = th[q].todo
    BY ErasedFacts
  <2>2. th' = [t EXCEPT ![p].todo = @ \ {ip}]
    BY <1>7 DEF TimeoutRemove
  <2> HIDE DEF t
  <2>3. \A q \in Procs, i \in Ips : Merging(q, i) => Merging(q, i)'
    <3>1. \A q \in Procs : q # p => th'[q].pc = th[q].pc /\ th'[q].todo = th[q].todo
      BY <2>1, <2>2
    <3>2. th[p].pc = "expire"
      BY <1>7 DEF TimeoutRemove
    <3> QED
      BY <3>1, <3>2 DEF Merging
  <2>4. Remove(ip)
    BY <1>7 DEF TimeoutRemove
  <2> QED
    BY <2>3, <2>4, RemoveConsistent
<1>8. ASSUME NEW p \in Procs, TimeoutEnd(p) PROVE Consistent'
  <2>1. \A q \in Procs : q # p => th'[q] = th[q]
    BY <1>8, <1>t DEF TimeoutEnd
  <2> QED
    BY <1>8, <2>1, FrameStep DEF TimeoutEnd
<1>9. ASSUME ClearIdentities PROVE Consistent'
  <2>1. \A ip \in Ips : ip_map'[ip].user = None /\ copy'[ip] = None
    BY <1>9 DEF ClearIdentities, NoIdentity
  <2>2. shm' = copy' /\ entries' = copy'
    BY <1>9 DEF ClearIdentities
  <2> QED
    BY <2>1, <2>2 DEF Consistent, CopyInShm, MapInCopy, EntriesInCopy, CopyCurrent, MapCurrent
<1>10. ASSUME NEW w \in Workers, ResolveIdentity(w) PROVE Consistent'
  <2>1. \A q \in Procs : q # w => th'[q] = th[q]
    BY <1>10, <1>t DEF ResolveIdentity
  <2> QED
    BY <1>10, <1>t, <2>1, FrameStep DEF ResolveIdentity
<1>11. ASSUME NEW w \in Workers, FindEntry(w) PROVE Consistent'
  <2>1. \A q \in Procs : q # w => th'[q] = th[q]
    BY <1>11, <1>t DEF FindEntry
  <2> QED
    BY <1>11, <1>t, <2>1, FrameStep DEF FindEntry
<1>12. ASSUME NEW w \in Workers, CheckEntry(w) \/ TouchEntry(w) PROVE Consistent'
  <2>1. \A q \in Procs : q # w => th'[q] = th[q]
    BY <1>12, <1>t DEF CheckEntry, TouchEntry, Returned
  <2>2. CASE CheckEntry(w)
    BY <2>2, <1>t, <2>1, FrameStep DEF CheckEntry
  <2>3. CASE TouchEntry(w)
    <3>1. /\ th[w].pc = "touch" /\ UNCHANGED <<shm, changed, copy, entries>>
          /\ \A ip \in Ips : ip_map'[ip].user = ip_map[ip].user
      BY <2>3, TouchedUsers DEF TouchEntry
    <3> QED
      BY <3>1, <1>t, <2>1, FrameStep
  <2> QED
    BY <1>12, <2>2, <2>3
<1>13. ASSUME NEW w \in Workers, RemoveExpired(w) PROVE Consistent'
  <2> DEFINE t == Erased(th, {HostOf[w]})
  <2>1. t \in [Procs -> Thread] /\ \A q \in Procs : t[q].pc = th[q].pc /\ t[q].todo = th[q].todo
    BY ErasedFacts
  <2>2. \/ th' = [t EXCEPT ![w].pc = "lock"]
        \/ th' = [t EXCEPT ![w].pc = "apply", ![w].li = None, ![w].why = "known"]
    BY <1>13, Zenon DEF RemoveExpired
  <2> HIDE DEF t
  <2>3. \A q \in Procs, i \in Ips : Merging(q, i) => Merging(q, i)'
    <3>1. \A q \in Procs : q # w => th'[q].pc = th[q].pc /\ th'[q].todo = th[q].todo
      BY <2>1, <2>2
    <3>2. th[w].pc = "remove"
      BY <1>13 DEF RemoveExpired
    <3> QED
      BY <3>1, <3>2 DEF Merging
  <2>4. Remove(HostOf[w]) /\ HostOf[w] \in Ips
    BY <1>13, <1>t DEF RemoveExpired
  <2> QED
    BY <2>3, <2>4, RemoveConsistent
<1>14. ASSUME NEW w \in Workers, LockMap(w) PROVE Consistent'
  <2>1. \A q \in Procs : q # w => th'[q] = th[q]
    BY <1>14, <1>t DEF LockMap
  <2> QED
    BY <1>14, <1>t, <2>1, FrameStep DEF LockMap
<1>15. ASSUME NEW w \in Workers, Lookup(w) PROVE Consistent'
  <2>1. \A q \in Procs : q # w => th'[q] = th[q]
    BY <1>15, <1>t DEF Lookup
  <2> QED
    BY <1>15, <1>t, <2>1, FrameStep DEF Lookup
<1>16. ASSUME NEW w \in Workers, ApplyIdPolicies(w) PROVE Consistent'
  <2>1. \A q \in Procs : q # w => th'[q] = th[q]
    BY <1>16, <1>t DEF ApplyIdPolicies
  <2> QED
    BY <1>16, <1>t, <2>1, FrameStep DEF ApplyIdPolicies
<1>17. ASSUME NEW ip \in Ips, NEW u \in Users, PortalLogin(ip, u) PROVE Consistent'
  <2>1. changed' /\ UNCHANGED <<copy, entries, ip_map, th>>
    BY <1>17 DEF PortalLogin
  <2>2. CopyInShm'
    BY <1>17, AuthAssumption DEF PortalLogin, Consistent, CopyInShm, TypeOK, Rows
  <2> QED
    BY <2>1, <2>2 DEF Consistent, MapInCopy, EntriesInCopy, CopyCurrent, MapCurrent, Merged, Merging
<1>18. ASSUME NEW ip \in Ips, IdleTimeout(ip) PROVE Consistent'
  <2>1. \A i \in Ips : ip_map'[i].user = ip_map[i].user
    <3>1. ip_map' = [ip_map EXCEPT ![ip] = [ip_map[ip] EXCEPT !.idle = TRUE]]
      BY <1>18, <1>t DEF IdleTimeout, TypeOK
    <3>2. [ip_map[ip] EXCEPT !.idle = TRUE].user = ip_map[ip].user
      BY <1>t DEF Identity, NoIdentity
    <3> QED
      BY <3>1, <3>2 DEF TypeOK
  <2>2. \A p \in Procs, i \in Ips : Merging(p, i) => Merging(p, i)'
    BY <1>18 DEF IdleTimeout, Merging
  <2>3. UNCHANGED <<shm, changed, copy, entries>>
    BY <1>18 DEF IdleTimeout
  <2> QED
    BY <2>1, <2>2, <2>3, Frame
<1>19. ASSUME UNCHANGED vars PROVE Consistent'
  BY <1>19, Frame DEF vars, Merging
<1> QED
  BY <1>1, <1>2, <1>3, <1>4, <1>5, <1>6, <1>7, <1>8, <1>9, <1>10, <1>11, <1>12, <1>13,
     <1>14, <1>15, <1>16, <1>17, <1>18, <1>19
     DEF Next, Refresh, Expire, Resolve

\* Once the table has been loaded and merged, the identities resolve_identity
\* works with are the rows shared with the portal, however many sessions,
\* refreshes, timeouts and logins there are; with a save() that leaves
\* entries() behind, every row still has its identity.
THEOREM IdentitiesConsistent == Spec => []QuietConsistent
<1>1. Init => Consistent
  BY DEF Init, Consistent, CopyInShm, MapInCopy, EntriesInCopy, CopyCurrent, MapCurrent, NoIdentity
<1>2. TypeOK /\ Consistent /\ [Next]_vars => Consistent'
  BY ConsistentStep
<1>3. Consistent => QuietConsistent
  BY DEF Consistent, CopyCurrent, MapCurrent, MapInCopy, Merged, QuietConsistent
<1> QED
  BY <1>1, <1>2, <1>3, TypeCorrect, PTL DEF Spec

-----------------------------------------------------------------------------
(* Timeouts.                                                               *)

\* An idle identity disappears, stays idle or is touched late.
NotRevived(ip) ==
    ip_map[ip].idle =>
        \/ ~Present(ip)' \/ ip_map'[ip].idle
        \/ \E w \in Workers : LateTouch(w, ip) /\ th'[w].pc # "touch"

\* Only identities that are there can be idle.
LEMMA IdleIsPresent ==
    ASSUME TypeOK, NEW ip \in Ips, ip_map[ip].idle
    PROVE  Present(ip)
<1>1. ip_map[ip] \in Identity \cup {NoIdentity}
  BY DEF TypeOK
<1>2. ip_map[ip] # NoIdentity
  BY DEF NoIdentity
<1>3. ip_map[ip].user \in Users
  BY <1>1, <1>2 DEF Identity
<1> QED
  BY <1>3, AuthAssumption DEF Present

\* A refresh of an idle identity leaves it idle, whoever logged in.
LEMMA UpsertKeepsIdle ==
    ASSUME NEW id, NEW u, id.user # None, id.idle
    PROVE  Upsert(id, u).idle
<1>1. CASE u = None
  BY <1>1 DEF Upsert
<1>2. CASE u # None
  BY <1>2 DEF Upsert
<1> QED
  BY <1>1, <1>2

\* Removal takes one identity out and leaves the others.
LEMMA RemoveRevivesNone ==
    ASSUME TypeOK, NEW gone \in Ips, Remove(gone), NEW ip \in Ips
    PROVE  NotRevived(ip)
<1>1. CASE ~Present(gone)
  BY <1>1 DEF Remove, NotRevived
<1>2. CASE Present(gone)
  <2>1. ip_map' = [ip_map EXCEPT ![gone] = NoIdentity]
    BY <1>2 DEF Remove
  <2>2. CASE ip = gone
    BY <2>1, <2>2 DEF TypeOK, NotRevived, Present, NoIdentity
  <2>3. CASE ip # gone
    BY <2>1, <2>3 DEF TypeOK, NotRevived
  <2> QED
    BY <2>2, <2>3
<1> QED
  BY <1>1, <1>2

\* touch() writes to the entry that was checked, or to memory that was freed.
LEMMA TouchIsLate ==
    ASSUME TypeOK, NEW w \in Workers, TouchEntry(w), NEW ip \in Ips
    PROVE  NotRevived(ip)
<1>1. PICK hit \in Written(w) :
          ip_map' = [i \in Ips |-> IF i \in hit THEN [user |-> ip_map[i].user, idle |-> FALSE] ELSE ip_map[i]]
  BY DEF TouchEntry
<1>2. CASE ip \notin hit
  BY <1>1, <1>2 DEF NotRevived
<1>3. CASE ip \in hit
  <2>1. th[w].ptr = "entry" => HostOf[w] = ip
    BY <1>3 DEF Written
  <2>2. th[w].pc = "touch"
    BY DEF TouchEntry
  <2>3. th'[w].pc # "touch"
    <3>1. th \in [Procs -> Thread] /\ w \in Procs
      BY DEF TypeOK, Procs
    <3>2. Returned(w, TRUE)
      BY DEF TouchEntry
    <3>3. \/ th' = [th EXCEPT ![w].pc = "ready", ![w].ptr = "null"]
          \/ th' = [th EXCEPT ![w].pc = "apply", ![w].ptr = "null", ![w].li = None, ![w].why = "known"]
      BY <3>2 DEF Returned
    <3> QED
      BY <3>1, <3>3 DEF Thread
  <2> QED
    BY <2>1, <2>2, <2>3 DEF NotRevived, LateTouch
<1> QED
  BY <1>2, <1>3

\* No other step revives an identity.
LEMMA NotRevivedStep ==
    ASSUME TypeOK, Next, NEW ip \in Ips
    PROVE  NotRevived(ip)
<1>1. ASSUME ip_map' = ip_map
      PROVE  NotRevived(ip)
  BY <1>1 DEF NotRevived
<1>2. ASSUME NEW p \in Procs, MergeStart(p)
      PROVE  NotRevived(ip)
  <2>1. ip_map'[ip] = NoIdentity \/ ip_map'[ip] = ip_map[ip]
    BY <1>2 DEF MergeStart
  <2> QED
    BY <2>1 DEF NotRevived, Present, NoIdentity
<1>3. ASSUME NEW p \in Procs, NEW i \in Ips, MergeEntry(p, i)
      PROVE  NotRevived(ip)
  <2>1. ip_map'[ip] = ip_map[ip] \/ ip_map'[ip] = Upsert(ip_map[ip], entries[ip])
    BY <1>3 DEF MergeEntry, TypeOK
  <2> QED
    BY <2>1, IdleIsPresent, UpsertKeepsIdle DEF NotRevived, Present
<1>4. ASSUME NEW p \in Procs, NEW i \in Ips, TimeoutRemove(p, i)
      PROVE  NotRevived(ip)
  BY <1>4, RemoveRevivesNone DEF TimeoutRemove
<1>5. ASSUME NEW w \in Workers, RemoveExpired(w)
      PROVE  NotRevived(ip)
  <2>1. HostOf[w] \in Ips /\ Remove(HostOf[w])
    BY <1>5, AuthAssumption DEF RemoveExpired
  <2> QED
    BY <2>1, RemoveRevivesNone
<1>6. ASSUME ClearIdentities
      PROVE  NotRevived(ip)
  BY <1>6 DEF ClearIdentities, NotRevived, Present, NoIdentity
<1>7. ASSUME NEW i \in Ips, IdleTimeout(i)
      PROVE  NotRevived(ip)
  <2>1. ip_map[i] \in Identity \cup {NoIdentity}
    BY DEF TypeOK
  <2>2. ip_map'[ip] = ip_map[ip] \/ ip_map'[ip] = [ip_map[ip] EXCEPT !.idle = TRUE]
    BY <1>7 DEF IdleTimeout, TypeOK
  <2>3. ip_map[ip].idle => [ip_map[ip] EXCEPT !.idle = TRUE].idle
    <3>1. ip_map[ip] \in Identity \cup {NoIdentity}
      BY DEF TypeOK
    <3> QED
      BY <3>1 DEF Identity, NoIdentity
  <2> QED
    BY <2>2, <2>3 DEF NotRevived
<1>8. ASSUME NEW p \in Procs, Load(p) \/ MergeEnd(p) \/ LoadFails(p) \/ TimeoutScan(p) \/ TimeoutEnd(p)
      PROVE  NotRevived(ip)
  BY <1>1, <1>8 DEF Load, MergeEnd, LoadFails, TimeoutScan, TimeoutEnd
<1>9. ASSUME NEW w \in Workers,
             \/ ResolveIdentity(w) \/ FindEntry(w) \/ CheckEntry(w)
             \/ LockMap(w) \/ Lookup(w) \/ ApplyIdPolicies(w)
      PROVE  NotRevived(ip)
  BY <1>1, <1>9 DEF ResolveIdentity, FindEntry, CheckEntry, LockMap, Lookup, ApplyIdPolicies
<1>10. ASSUME NEW i \in Ips, NEW u \in Users, PortalLogin(i, u)
       PROVE  NotRevived(ip)
  BY <1>1, <1>10 DEF PortalLogin
<1> QED
  BY <1>2, <1>3, <1>4, <1>5, <1>6, <1>7, <1>8, <1>9, <1>10, TouchIsLate DEF Next, Refresh, Expire, Resolve

\* An identity that has timed out is made to look alive only by a touch() that
\* a session does after its unlocked i_timeout() check: the refresh from shared
\* memory, the identity thread, an operator's clear and all other sessions
\* remove it or leave it expired, for any number of each.
THEOREM RevivedByLateTouchOnly == Spec => IdleRevivedByLateTouchOnly
<1>1. TypeOK /\ [Next]_vars => [\A ip \in Ips : NotRevived(ip)]_vars
  BY NotRevivedStep
<1> QED
  BY <1>1, TypeCorrect, PTL DEF Spec, IdleRevivedByLateTouchOnly, NotRevived
=============================================================================
