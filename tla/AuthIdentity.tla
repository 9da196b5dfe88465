---------------------------- MODULE AuthIdentity ----------------------------
(***************************************************************************)
(* Who is behind an address: the identities smithproxy keeps in memory     *)
(* (AuthFactory::ip4_map_), the table it shares with the authentication    *)
(* portal through shared memory, and the threads that work on both.        *)
(* Source: policy/authfactory4.cpp, shm/shmauth.hpp, proxy/mitmproxy.cpp   *)
(* (resolve_identity, update_auth_ipX_map, apply_id_policies),             *)
(* service/core/smithproxy.cpp (the identity thread).                      *)
(*                                                                         *)
(* One address family is modelled: authfactory6.cpp repeats the code for   *)
(* the other with tables and a lock of its own.  The segment, its          *)
(* semaphore and the portal are not part of the repository; they are       *)
(* modelled from how AuthFactory uses them.  What happens between          *)
(* acquire() and release() of the semaphore is one action.                 *)
(***************************************************************************)
EXTENDS Integers, FiniteSets

CONSTANTS Ips, Users,
          Workers,        \* threads, each with one session
          HostOf,         \* [Workers -> Ips]: the client's address
          Idu,            \* the identity refresh thread
          None,
          SaveFillsEntries, \* whether save() of the library also rewrites entries()
          MaxLogins,      \* bound: logins at the portal
          MaxClears       \* bound: "diag identity ip clear"

Procs == Workers \cup {Idu}

ASSUME AuthAssumption ==
    /\ IsFiniteSet(Ips)
    /\ HostOf \in [Workers -> Ips]
    /\ Idu \notin Workers /\ None \notin Procs /\ None \notin Users
    /\ SaveFillsEntries \in BOOLEAN
    /\ MaxLogins \in Nat /\ MaxClears \in Nat

VARIABLES shm,        \* the rows in shared memory
          changed,    \* shm has a version this process has not loaded
          copy,       \* shm_ip4_map.map_entries(): the rows by address
          entries,    \* shm_ip4_map.entries(): the rows as a list
          ip_map,     \* ip4_map_: the identities in use
          lock,       \* ip4_lock_: its owner
          th,         \* where each thread is
          sess,       \* the session of each worker
          logins, clears

vars == <<shm, changed, copy, entries, ip_map, lock, th, sess, logins, clears>>

Rows == [Ips -> Users \cup {None}]

\* IdentityInfo; idle says that i_timeout() holds.
Identity == [user : Users, idle : BOOLEAN]
NoIdentity == [user |-> None, idle |-> FALSE]

Steps == {"ready", "find", "check", "touch", "remove", "lock", "load", "acquire", "merge",
          "lookup", "apply", "scan", "expire"}

\* The locals of the call a thread is in; they end with it.
Thread ==
    [pc : Steps,
     why : {"known", "found"},                  \* which call of update_auth_ipX_map
     loaded : Nat \cup {-1},                     \* what load() returned
     todo : SUBSET Ips,                          \* entries() still to merge, or to_remove
     ptr : {"null", "entry", "dangling"},        \* id_ptr of update_auth_ipX_map
     li : Users \cup {None}]                     \* the clone resolve_identity took

Session ==
    [identity_resolved : BOOLEAN, identity : Users \cup {None},
     sub : Users \cup {None}]                    \* whose groups chose the sub-profile

Init ==
    /\ shm = [ip \in Ips |-> None] /\ changed = FALSE
    /\ copy = shm /\ entries = shm
    /\ ip_map = [ip \in Ips |-> NoIdentity]
    /\ lock = None
    /\ th = [p \in Procs |-> [pc |-> IF p = Idu THEN "load" ELSE "ready", why |-> "known",
                              loaded |-> -1, todo |-> {}, ptr |-> "null", li |-> None]]
    /\ sess = [w \in Workers |-> [identity_resolved |-> FALSE, identity |-> None, sub |-> None]]
    /\ logins = 0 /\ clears = 0

Present(ip) == ip_map[ip].user # None

Free(p) == lock \in {None, p}

\* Erasing map entries leaves the pointers to them behind.
Erased(t, gone) ==
    [p \in Procs |->
        IF p \in Workers /\ t[p].ptr = "entry" /\ HostOf[p] \in gone
        THEN [t[p] EXCEPT !.ptr = "dangling"] ELSE t[p]]

-----------------------------------------------------------------------------
(* AuthFactory: refreshing from shared memory                              *)

\* load() under the semaphore: the number of rows when the version is new.
\* Both the identity thread and a worker that holds the lock come here.  A
\* load fills both containers.
Load(p) ==
    /\ th[p].pc = "load"
    /\ copy' = IF changed THEN shm ELSE copy
    /\ entries' = IF changed THEN shm ELSE entries
    /\ changed' = FALSE
    /\ th' = [th EXCEPT ![p].loaded = IF changed THEN Cardinality({ip \in Ips : shm[ip] # None}) ELSE -1,
                        ![p].pc = IF changed THEN "acquire" ELSE IF p = Idu THEN "scan" ELSE "lookup"]
    /\ UNCHANGED <<shm, ip_map, lock, sess, logins, clears>>

\* The semaphore cannot be acquired: nothing is refreshed.
LoadFails(p) ==
    /\ th[p].pc = "load"
    /\ th' = [th EXCEPT ![p].loaded = -1, ![p].pc = IF p = Idu THEN "scan" ELSE "lookup"]
    /\ UNCHANGED <<shm, changed, copy, entries, ip_map, lock, sess, logins, clears>>

\* "new data!": an empty table flushes the map.
MergeStart(p) ==
    /\ th[p].pc = "acquire" /\ Free(p)
    /\ lock' = p
    /\ LET gone == IF th[p].loaded = 0 THEN Ips ELSE {}
       IN  /\ ip_map' = [ip \in Ips |-> IF ip \in gone THEN NoIdentity ELSE ip_map[ip]]
           /\ th' = [Erased(th, gone) EXCEPT ![p].pc = "merge", ![p].todo = Ips, ![p].loaded = -1]
    /\ UNCHANGED <<shm, changed, copy, entries, sess, logins, clears>>

\* Mutants: an update is a new IdentityInfo; a known address keeps its user.
Upsert_fresh(id, u) == IF u = None THEN id ELSE [user |-> u, idle |-> FALSE]
Upsert_keep(id, u) == IF u = None \/ id.user # None THEN id ELSE [user |-> u, idle |-> FALSE]

\* An entry that is there gets the new logon info and keeps its last_seen_at.
Upsert(id, u) ==
    IF u = None THEN id
    ELSE [user |-> u, idle |-> IF id.user = None THEN FALSE ELSE id.idle]

\* The loop over entries(), which another thread's load() may be replacing.
MergeEntry(p, ip) ==
    /\ th[p].pc = "merge" /\ ip \in th[p].todo
    /\ ip_map' = [ip_map EXCEPT ![ip] = Upsert(@, entries[ip])]
    /\ th' = [th EXCEPT ![p].todo = @ \ {ip}]
    /\ UNCHANGED <<shm, changed, copy, entries, lock, sess, logins, clears>>

\* A worker keeps the lock until it has looked its client up.
MergeEnd(p) ==
    /\ th[p].pc = "merge" /\ th[p].todo = {}
    /\ th' = [th EXCEPT ![p].pc = IF p = Idu THEN "scan" ELSE "lookup"]
    /\ lock' = IF p = Idu THEN None ELSE lock
    /\ UNCHANGED <<shm, changed, copy, entries, ip_map, sess, logins, clears>>

-----------------------------------------------------------------------------
(* AuthFactory: removal                                                    *)

\* Mutant: the shared table is not saved.
Save_mut(ip) ==
    copy' = [copy EXCEPT ![ip] = None] /\ entries' = copy' /\ UNCHANGED <<shm, changed>>

\* Removing the row from map_entries() and save(true), under the semaphore:
\* the whole table is written from map_entries().  entries() is not touched
\* here.  Whether save() rewrites it too, and whether the process will load
\* its own version again, is the library's business.
Save(ip) ==
    IF copy[ip] = None THEN UNCHANGED <<shm, changed, copy, entries>>
    ELSE /\ copy' = [copy EXCEPT ![ip] = None]
         /\ shm' = copy'
         /\ entries' \in {copy'} \cup (IF SaveFillsEntries THEN {} ELSE {entries})
         /\ changed' \in BOOLEAN

\* ip4_remove.
Remove(ip) ==
    IF Present(ip)
    THEN ip_map' = [ip_map EXCEPT ![ip] = NoIdentity] /\ Save(ip)
    ELSE UNCHANGED <<ip_map, shm, changed, copy, entries>>

\* ip4_timeout_check: collect under the lock, then remove, still under it.
TimeoutScan(p) ==
    /\ p = Idu /\ th[p].pc = "scan" /\ lock = None
    /\ lock' = p
    /\ th' = [th EXCEPT ![p].pc = "expire", ![p].todo = {ip \in Ips : Present(ip) /\ ip_map[ip].idle}]
    /\ UNCHANGED <<shm, changed, copy, entries, ip_map, sess, logins, clears>>

TimeoutRemove(p, ip) ==
    /\ p = Idu /\ th[p].pc = "expire" /\ ip \in th[p].todo
    /\ Remove(ip)
    /\ th' = [Erased(th, {ip}) EXCEPT ![p].todo = @ \ {ip}]
    /\ UNCHANGED <<lock, sess, logins, clears>>

\* abort_sleep(20), then the next round.
TimeoutEnd(p) ==
    /\ p = Idu /\ th[p].pc = "expire" /\ th[p].todo = {}
    /\ lock' = None
    /\ th' = [th EXCEPT ![p].pc = "load"]
    /\ UNCHANGED <<shm, changed, copy, entries, ip_map, sess, logins, clears>>

\* cli_diag_identity_ip_clear; seen_version(0) makes the table new again.
ClearIdentities ==
    /\ clears < MaxClears /\ lock = None
    /\ ip_map' = [ip \in Ips |-> NoIdentity]
    /\ copy' = [ip \in Ips |-> None] /\ entries' = copy'
    /\ shm' = copy'
    /\ changed' = TRUE
    /\ th' = Erased(th, Ips)
    /\ clears' = clears + 1
    /\ UNCHANGED <<lock, sess, logins>>

-----------------------------------------------------------------------------
(* MitmProxy::resolve_identity                                             *)

\* Data arrived (handle_authentication, authorize): a resolved identity is
\* only confirmed.
ResolveIdentity(w) ==
    /\ th[w].pc = "ready"
    /\ th' = [th EXCEPT ![w].why = "known",
                        ![w].pc = IF sess[w].identity_resolved THEN "find" ELSE "lock"]
    /\ UNCHANGED <<shm, changed, copy, entries, ip_map, lock, sess, logins, clears>>

\* update_auth_ipX_map: the lock is held only while the entry is looked up.
FindEntry(w) ==
    /\ th[w].pc = "find" /\ lock = None
    /\ th' = [th EXCEPT ![w].ptr = IF Present(HostOf[w]) THEN "entry" ELSE "null",
                        ![w].pc = "check"]
    /\ UNCHANGED <<shm, changed, copy, entries, ip_map, lock, sess, logins, clears>>

\* What resolve_identity does with the result of update_auth_ipX_map.
Returned(w, ret) ==
    IF th[w].why = "known"
    THEN /\ sess' = [sess EXCEPT ![w].identity_resolved = ret]
         /\ th' = [th EXCEPT ![w].pc = IF ret THEN "ready" ELSE "lock", ![w].ptr = "null"]
    ELSE /\ sess' = [sess EXCEPT ![w].identity_resolved = ret,
                                 ![w].identity = IF ret THEN th[w].li ELSE @]
         /\ th' = [th EXCEPT ![w].pc = "apply", ![w].ptr = "null", ![w].li = None, ![w].why = "known"]

\* i_timeout() read through the pointer, without the lock.  A freed entry may
\* read as anything.
Reads(w) ==
    CASE th[w].ptr = "null"  -> {"absent"}
      [] th[w].ptr = "entry" -> {IF ip_map[HostOf[w]].idle THEN "expired" ELSE "alive"}
      [] OTHER               -> {"expired", "alive"}

CheckEntry(w) ==
    /\ th[w].pc = "check"
    /\ \E r \in Reads(w) :
          \/ /\ r = "absent"
             /\ Returned(w, FALSE)
          \/ /\ r = "alive"
             /\ th' = [th EXCEPT ![w].pc = "touch"] /\ UNCHANGED sess
          \/ /\ r = "expired"
             /\ th' = [th EXCEPT ![w].pc = "remove", ![w].ptr = "null"] /\ UNCHANGED sess
    /\ UNCHANGED <<shm, changed, copy, entries, ip_map, lock, logins, clears>>

\* Whose last_seen_at a write through the pointer sets: a freed entry's memory
\* may be nobody's or that of any entry added since.
Written(w) ==
    IF th[w].ptr = "entry" THEN {{HostOf[w]}} ELSE {{}} \cup {{ip} : ip \in Ips}

\* touch(), still without the lock: the entry may have timed out, or been
\* erased, since it was checked.
TouchEntry(w) ==
    /\ th[w].pc = "touch"
    /\ \E hit \in Written(w) :
          ip_map' = [ip \in Ips |-> IF ip \in hit THEN [user |-> ip_map[ip].user, idle |-> FALSE]
                                   ELSE ip_map[ip]]
    /\ Returned(w, TRUE)
    /\ UNCHANGED <<shm, changed, copy, entries, lock, logins, clears>>

\* "identity timeout": the entry is removed, whatever it has become.
RemoveExpired(w) ==
    /\ th[w].pc = "remove" /\ lock = None
    /\ Remove(HostOf[w])
    /\ LET t == Erased(th, {HostOf[w]})
       IN  IF th[w].why = "known"
           THEN th' = [t EXCEPT ![w].pc = "lock"]
           ELSE th' = [t EXCEPT ![w].pc = "apply", ![w].li = None, ![w].why = "known"]
    /\ sess' = [sess EXCEPT ![w].identity_resolved = FALSE]
    /\ UNCHANGED <<lock, logins, clears>>

\* The lock for the refresh and the lookup.
LockMap(w) ==
    /\ th[w].pc = "lock" /\ lock = None
    /\ lock' = w
    /\ th' = [th EXCEPT ![w].pc = "load"]
    /\ UNCHANGED <<shm, changed, copy, entries, ip_map, sess, logins, clears>>

\* Mutant: insert_guest, a user the portal does not know.
Lookup_guest(w) ==
    /\ th[w].pc = "lookup"
    /\ lock' = None
    /\ th' = [th EXCEPT ![w].li = IF Present(HostOf[w]) THEN ip_map[HostOf[w]].user ELSE "guest",
                        ![w].why = "found", ![w].pc = "find"]
    /\ UNCHANGED <<shm, changed, copy, entries, ip_map, sess, logins, clears>>

\* Lookup and unlock; an unknown client stays unresolved.
Lookup(w) ==
    /\ th[w].pc = "lookup"
    /\ lock' = None
    /\ th' = [th EXCEPT ![w].li = ip_map[HostOf[w]].user,
                        ![w].why = IF Present(HostOf[w]) THEN "found" ELSE "known",
                        ![w].pc = IF Present(HostOf[w]) THEN "find" ELSE "ready"]
    /\ UNCHANGED <<shm, changed, copy, entries, ip_map, sess, logins, clears>>

\* apply_id_policies looks the groups up once more.
ApplyIdPolicies(w) ==
    /\ th[w].pc = "apply" /\ lock = None
    /\ sess' = [sess EXCEPT ![w].sub = IF Present(HostOf[w]) THEN ip_map[HostOf[w]].user ELSE @]
    /\ th' = [th EXCEPT ![w].pc = "ready"]
    /\ UNCHANGED <<shm, changed, copy, entries, ip_map, lock, logins, clears>>

-----------------------------------------------------------------------------

\* A user logs in at the portal, which rewrites its row under the semaphore.
PortalLogin(ip, u) ==
    /\ logins < MaxLogins
    /\ shm' = [shm EXCEPT ![ip] = u]
    /\ changed' = TRUE
    /\ logins' = logins + 1
    /\ UNCHANGED <<copy, entries, ip_map, lock, th, sess, clears>>

\* idle_timeout seconds without traffic.
IdleTimeout(ip) ==
    /\ Present(ip)
    /\ ip_map' = [ip_map EXCEPT ![ip].idle = TRUE]
    /\ UNCHANGED <<shm, changed, copy, entries, lock, th, sess, logins, clears>>

Refresh(p) ==
    \/ Load(p)
    \/ MergeStart(p)
    \/ \E ip \in Ips : MergeEntry(p, ip)
    \/ MergeEnd(p)

Expire(p) ==
    \/ TimeoutScan(p)
    \/ \E ip \in Ips : TimeoutRemove(p, ip)
    \/ TimeoutEnd(p)

Resolve(w) ==
    \/ FindEntry(w) \/ CheckEntry(w) \/ TouchEntry(w) \/ RemoveExpired(w)
    \/ LockMap(w) \/ Lookup(w) \/ ApplyIdPolicies(w)

Next ==
    \/ \E p \in Procs : Refresh(p) \/ LoadFails(p) \/ Expire(p)
    \/ \E w \in Workers : ResolveIdentity(w) \/ Resolve(w)
    \/ ClearIdentities
    \/ \E ip \in Ips, u \in Users : PortalLogin(ip, u)
    \/ \E ip \in Ips : IdleTimeout(ip)

\* Every thread keeps running, one that waits for the lock gets it, and the
\* semaphore is not refused for ever.
Fairness ==
    /\ \A p \in Procs : SF_vars(Refresh(p)) /\ SF_vars(Expire(p))
    /\ \A w \in Workers : SF_vars(Resolve(w))

Spec == Init /\ [][Next]_vars /\ Fairness
-----------------------------------------------------------------------------

\* Type invariant.
TypeOK ==
    /\ shm \in Rows /\ copy \in Rows /\ entries \in Rows /\ changed \in BOOLEAN
    /\ ip_map \in [Ips -> Identity \cup {NoIdentity}]
    /\ lock \in Procs \cup {None}
    /\ th \in [Procs -> Thread]
    /\ sess \in [Workers -> Session]
    /\ logins \in 0..MaxLogins /\ clears \in 0..MaxClears

\* p has loaded a version and has not merged ip yet.
Merging(p, ip) == th[p].pc = "acquire" \/ (th[p].pc = "merge" /\ ip \in th[p].todo)

\* Once the table has been loaded and merged, the identities in use are
\* exactly the rows shared with the portal, although three kinds of threads
\* change the map, the copies and the segment under two different locks.  Only
\* with a save() that leaves entries() behind may a merge bring back an
\* identity whose row was removed after the load.
QuietConsistent ==
    \A ip \in Ips :
        (~changed /\ \A p \in Procs : ~Merging(p, ip)) =>
            \/ ip_map[ip].user = shm[ip]
            \/ ~SaveFillsEntries /\ shm[ip] = None

\* w is past its check of an entry that ip's memory may belong to.
LateTouch(w, ip) == th[w].pc = "touch" /\ (th[w].ptr = "entry" => HostOf[w] = ip)

\* A step makes an identity that has timed out look alive again only when it is
\* the touch() of a session that checked its entry before, without the lock:
\* no refresh, no login and no other session revives it, and where no session
\* is between i_timeout() and touch() it stays idle until it is removed.
IdleRevivedByLateTouchOnly ==
    [][\A ip \in Ips :
          ip_map[ip].idle =>
            \/ ~Present(ip)' \/ ip_map'[ip].idle
            \/ \E w \in Workers : LateTouch(w, ip) /\ th'[w].pc # "touch"]_vars

\* A login that stays in the shared table gets into the identities in use,
\* where the next session from its address finds it.  (A session that is
\* resolved already keeps the identity it has.)
LoginSeen ==
    \A ip \in Ips, u \in Users :
        (shm[ip] = u) ~> (shm[ip] # u \/ ip_map[ip].user = u)

\* ip4_remove is to "synchronize with SHM AUTH IP TABLE": a row of the shared
\* table disappears only with the identity it stands for.
LoginNotLost ==
    [][\A ip \in Ips : shm[ip] # None /\ shm'[ip] = None => Present(ip)]_vars
=============================================================================
