-------------------------- MODULE CfgObjectsProofs --------------------------
(***************************************************************************)
(* Proofs about CfgObjects, for any configuration and after any sequence   *)
(* of commands: objects, rules and files keep their shape, an object that  *)
(* a rule is made of is not removed, connections are decided as by a       *)
(* process that starts with the tree, a file that was written can be read, *)
(* and what `set` accepts can be loaded; and about matching: cidr_contains *)
(* orders blocks, so a rule that follows a broader one is never the rule a *)
(* connection meets.                                                       *)
(***************************************************************************)
EXTENDS CfgObjects, FiniteSetTheorems, SequenceTheorems, WellFoundedInduction, TLAPS

-----------------------------------------------------------------------------
(* The inductive invariant.                                                *)

\* What the loader of a section makes has these fields.
ValOK(sec, v) ==
    CASE sec = "address_objects" ->
            /\ v = [type |-> v.type, value |-> v.value] /\ v.type \in {"cidr", "fqdn"}
            /\ v.type = "cidr" => v.value \in KnownBlocks
      [] sec = "port_objects" ->
            v = [start |-> v.start, end |-> v.end] /\ v.start \in Int /\ v.end \in Int /\ v.start <= v.end
      [] sec = "proto_objects" -> v = [id |-> v.id] /\ v.id \in 0..255
      [] sec = "detection_profiles" -> v = [f \in DOMAIN ProfileDetection |-> v[f]]
      [] sec = "tls_profiles" -> v = [f \in DOMAIN ProfileTls |-> v[f]]
      [] sec = "alg_dns_profiles" -> v = [f \in DOMAIN ProfileAlgDns |-> v[f]]
      [] sec = "content_profiles" -> "write_payload" \in DOMAIN v
      [] OTHER -> sec # "tls_ca"

\* An entry of db.  An object that is not null comes from an entry of a file,
\* and so has a name.
ObjOK(sec, n, o) ==
    /\ o = [null |-> o.null, val |-> o.val, used |-> o.used]
    /\ o.null \in BOOLEAN /\ o.used \in BOOLEAN
    /\ o.null => ~o.used
    /\ ~o.null => n # ""
    /\ ~o.null => ValOK(sec, o.val)

DbOK(d) ==
    /\ DOMAIN d = Sections
    /\ \A sec \in Sections : \A n \in DOMAIN d[sec] : ObjOK(sec, n, d[sec][n])

\* A rule: addresses have names and features have none, and it has profiles
\* only when it accepts, which have names that an entry can give.
RuleOK(r) ==
    /\ r.action \in {"accept", "deny"} /\ r.nat \in {"auto", "none", ""}
    /\ \A f \in {"src", "dst"} : \A i \in DOMAIN r.group[f] : r.group[f][i].name # ""
    /\ \A i \in DOMAIN r.group["features"] : r.group["features"][i].name = ""
    /\ DOMAIN r.prof \subseteq DOMAIN ProfileSection
    /\ \A f \in DOMAIN r.prof : r.prof[f].name # "" /\ ~(f = "routing" /\ r.prof[f].name = "none")
    /\ r.action # "accept" => DOMAIN r.prof = {}

ListOK(l) == l \in Seq(Range(l)) /\ \A i \in DOMAIN l : RuleOK(l[i])

\* The names a rule was made with, but for those of the ranges that stand for
\* nothing, are still those of objects.
Backed(l, d) ==
    \A sec \in Sections : \A n \in UsedNames(l, sec) :
        n # "" => n \in DOMAIN d[sec] /\ ~d[sec][n].null

\* Where no entry was added since the last command that was applied, these
\* objects know that they are used.
Registered(c, f, l, d) ==
    \A sec \in Sections : DOMAIN c.obj[sec] = DOMAIN f.obj[sec] =>
        \A n \in UsedNames(l, sec) : n # "" => d[sec][n].used

\* Entries that differ in the ports of redirect_warning_ports at most.
Same(a, b) == DOMAIN a = DOMAIN b /\ \A f \in DOMAIN a \ {"redirect_warning_ports"} : a[f] = b[f]

\* Since the tree was filed, entries came in and ports changed.
Grown(c, f) ==
    \A sec \in Sections : \A n \in DOMAIN f.obj[sec] :
        n \in DOMAIN c.obj[sec] /\ Same(c.obj[sec][n], f.obj[sec][n])

\* Whether an entry is accepted (LoadAnywhere: whatever else there is).
Loadable(sec, e) == LoadEntry(EmptyDb, sec, e) # {}

Present(objs, n) == n \in DOMAIN objs /\ ~objs[n].null

\* The sections whose objects decide which rule a connection meets.
Basic == {"address_objects", "port_objects", "proto_objects"}

\* There is an object for every entry that is accepted, and for no other.
CurrentIn(sec, entries, objs) ==
    \A n \in DOMAIN entries :
        /\ Loadable(sec, entries[n]) <=> Present(objs, n)
        /\ sec \in Basic /\ Loadable(sec, entries[n]) =>
              objs[n].val = TheOne(LoadEntry(EmptyDb, sec, entries[n]))

Current(c, d) == \A sec \in Sections : CurrentIn(sec, c.obj[sec], d[sec])

\* Rules that decide alike.
SameVerdict(r, q) ==
    /\ r.disabled = q.disabled /\ r.proto = q.proto /\ r.group = q.group
    /\ r.action = q.action /\ r.nat = q.nat
    /\ DOMAIN r.prof = DOMAIN q.prof /\ \A f \in DOMAIN r.prof : r.prof[f].name = q.prof[f].name

Alike(l, k) == Len(l) \in Nat /\ Len(k) = Len(l) /\ \A m \in 1..Len(l) : SameVerdict(l[m], k[m])

\* The name is that of an object of the tree, or of none.
Clean(c, d, sec, n) == n \in DOMAIN d[sec] => n \in DOMAIN c.obj[sec] /\ ~d[sec][n].null

\* The objects of a process that starts with the tree f.
Fresh(f) == LoadObjects(EmptyDb, f.obj)

\* The rules are those of such a process.
Decided(f, d, l) == NoStrays(f, d) => Alike(l, load_db_policy(Fresh(f), f.policy))

\* What a process has that runs with the tree c.
Running(c, f, d, l) ==
    /\ FileOK(c) /\ FileOK(f) /\ Grown(c, f)
    /\ DbOK(d) /\ ListOK(l)
    /\ Backed(l, d) /\ Registered(c, f, l, d)
    /\ Current(c, d) /\ Decided(f, d, l)

Inv ==
    /\ Running(cfg, filed, db, list)
    /\ FileOK(disk)
    /\ cmds \in 0..MaxCmds

-----------------------------------------------------------------------------
(* Loops that keep some of the elements of a list.                        *)

\* Any set of natural numbers has a least element.
LEMMA LeastNumber ==
    ASSUME NEW S \in SUBSET Nat, S # {}
    PROVE  \E m \in S : \A k \in S : m <= k
<1>1. PICK x \in S : \A y \in S : ~(<<y, x>> \in OpToRel(<, Nat))
  BY NatLessThanWellFounded, WFMin
<1>2. ASSUME NEW y \in S
      PROVE  x <= y
  <2>1. ~(<<y, x>> \in {ss \in Nat \X Nat : ss[1] < ss[2]})
    BY <1>1 DEF OpToRel
  <2> QED
    BY <2>1
<1> QED
  BY <1>2

\* One turn of a loop that keeps made[i] when good[i] holds.
Turn(good, made, acc, i) == IF good[i] THEN Append(acc, made[i]) ELSE acc

\* f[i] is what the loop has made of the first i elements, up to k.
Loop(good, made, f, k) ==
    f = [i \in 0..k |-> IF i = 0 THEN <<>> ELSE Turn(good, made, f[i - 1], i)]

\* One more turn can be made.
LEMMA LoopGoesOn ==
    ASSUME NEW good, NEW made, NEW k \in Nat, NEW f, Loop(good, made, f, k)
    PROVE  \E g : Loop(good, made, g, k + 1)
<1> DEFINE g == [i \in 0..(k + 1) |-> IF i <= k THEN f[i] ELSE Turn(good, made, f[i - 1], i)]
<1>1. \A i \in 0..k : g[i] = f[i]
  OBVIOUS
<1>2. \A i \in 0..k : f[i] = IF i = 0 THEN <<>> ELSE Turn(good, made, f[i - 1], i)
  BY DEF Loop
<1>3. ASSUME NEW i \in 0..(k + 1)
      PROVE  g[i] = IF i = 0 THEN <<>> ELSE Turn(good, made, g[i - 1], i)
  <2>1. CASE i <= k
    <3>1. i \in 0..k /\ (i = 0 \/ i - 1 \in 0..k)
      BY <2>1
    <3> HIDE DEF g
    <3> QED
      BY <1>1, <1>2, <3>1
  <2>2. CASE ~(i <= k)
    <3>1. i # 0 /\ i - 1 \in 0..k
      BY <2>2
    <3>2. g[i] = Turn(good, made, f[i - 1], i)
      BY <2>2
    <3> HIDE DEF g
    <3> QED
      BY <1>1, <3>1, <3>2
  <2> QED
    BY <2>1, <2>2
<1>4. g = [i \in 0..(k + 1) |-> g[i]]
  OBVIOUS
<1> HIDE DEF g
<1>5. Loop(good, made, g, k + 1)
  BY <1>3, <1>4 DEF Loop
<1> QED
  BY <1>5

\* The loop over any number of elements has a result.
LEMMA LoopEnds ==
    ASSUME NEW good, NEW made
    PROVE  \A k \in Nat : \E f : Loop(good, made, f, k)
<1> DEFINE Stuck == {k \in Nat : ~\E f : Loop(good, made, f, k)}
<1> SUFFICES ASSUME Stuck # {} PROVE FALSE
  OBVIOUS
<1>1. PICK m \in Stuck : \A k \in Stuck : m <= k
  BY LeastNumber
<1>2. CASE m = 0
  <2> DEFINE f == [i \in 0..0 |-> <<>>]
  <2>1. f = [i \in 0..0 |-> IF i = 0 THEN <<>> ELSE Turn(good, made, f[i - 1], i)]
    OBVIOUS
  <2> HIDE DEF f
  <2>2. Loop(good, made, f, 0)
    BY <2>1 DEF Loop
  <2> QED
    BY <1>2, <2>2
<1>3. CASE m # 0
  <2>1. m - 1 \in Nat /\ m - 1 \notin Stuck /\ m = (m - 1) + 1
    BY <1>1, <1>3
  <2>2. PICK f : Loop(good, made, f, m - 1)
    BY <2>1
  <2>3. \E g : Loop(good, made, g, m)
    BY <2>1, <2>2, LoopGoesOn
  <2> QED
    BY <2>3
<1> QED
  BY <1>2, <1>3

\* What the loop keeps is a list of what was made of good elements.
GoodOnes(good, made, n) == {made[i] : i \in {j \in 1..n : good[j]}}

LEMMA LoopMakes ==
    ASSUME NEW good, NEW made, NEW n \in Nat, NEW f, Loop(good, made, f, n)
    PROVE  \A k \in 0..n : f[k] \in Seq(GoodOnes(good, made, n))
<1> DEFINE S == GoodOnes(good, made, n)
           Bad == {i \in 0..n : f[i] \notin Seq(S)}
<1>1. \A i \in 0..n : f[i] = IF i = 0 THEN <<>> ELSE Turn(good, made, f[i - 1], i)
  BY DEF Loop
<1>2. \A i \in 1..n : good[i] => made[i] \in S
  BY DEF GoodOnes
<1> HIDE DEF S
<1>3. Bad = {}
  <2> SUFFICES ASSUME Bad # {} PROVE FALSE
    OBVIOUS
  <2>1. PICK m \in Bad : \A k \in Bad : m <= k
    <3>1. Bad \in SUBSET Nat
      OBVIOUS
    <3> HIDE DEF Bad
    <3> QED
      BY <3>1, LeastNumber
  <2>2. m \in 0..n /\ f[m] \notin Seq(S)
    OBVIOUS
  <2>3. m # 0
    <3>1. f[0] = <<>>
      BY <1>1
    <3>2. <<>> \in Seq(S)
      OBVIOUS
    <3> QED
      BY <2>2, <3>1, <3>2
  <2>4. m - 1 \in 0..n /\ m - 1 \notin Bad /\ m \in 1..n
    BY <2>1, <2>2, <2>3
  <2>5. f[m - 1] \in Seq(S)
    BY <2>4
  <2>6. f[m] = Turn(good, made, f[m - 1], m)
    BY <1>1, <2>2, <2>3
  <2>7. Turn(good, made, f[m - 1], m) \in Seq(S)
    BY <1>2, <2>4, <2>5 DEF Turn
  <2> QED
    BY <2>2, <2>6, <2>7
<1> QED
  BY <1>3 DEF S

\* x and y are equally long, and hold at every place what was made of the same
\* good element.
Paired(good, ma, mb, n, x, y) ==
    /\ Len(x) \in Nat /\ Len(y) = Len(x)
    /\ \A m \in 1..Len(x) : \E i \in 1..n : good[i] /\ x[m] = ma[i] /\ y[m] = mb[i]

\* Two loops that find the same elements good keep them in step.
LEMMA Lockstep ==
    ASSUME NEW good, NEW ma, NEW mb, NEW n \in Nat, NEW f, NEW g,
           Loop(good, ma, f, n), Loop(good, mb, g, n)
    PROVE  Paired(good, ma, mb, n, f[n], g[n])
<1> DEFINE A == GoodOnes(good, ma, n)
           B == GoodOnes(good, mb, n)
           InStep(k) == /\ Len(g[k]) = Len(f[k])
                      /\ \A m \in 1..Len(f[k]) : \E i \in 1..n : good[i] /\ f[k][m] = ma[i] /\ g[k][m] = mb[i]
           Bad == {k \in 0..n : ~InStep(k)}
<1>1. \A k \in 0..n : f[k] = IF k = 0 THEN <<>> ELSE Turn(good, ma, f[k - 1], k)
  BY DEF Loop
<1>2. \A k \in 0..n : g[k] = IF k = 0 THEN <<>> ELSE Turn(good, mb, g[k - 1], k)
  BY DEF Loop
<1>3. \A k \in 0..n : f[k] \in Seq(A)
  BY LoopMakes
<1>4. \A k \in 0..n : g[k] \in Seq(B)
  BY LoopMakes
<1>5. \A i \in 1..n : good[i] => ma[i] \in A /\ mb[i] \in B
  BY DEF GoodOnes
<1> HIDE DEF A, B
<1>6. InStep(0)
  BY <1>1, <1>2
<1>7. ASSUME NEW k \in 1..n, InStep(k - 1)
      PROVE  InStep(k)
  <2> DEFINE x == f[k - 1]
             y == g[k - 1]
  <2>1. x \in Seq(A) /\ y \in Seq(B) /\ k - 1 \in 0..n
    BY <1>3, <1>4
  <2>2. f[k] = Turn(good, ma, x, k) /\ g[k] = Turn(good, mb, y, k)
    BY <1>1, <1>2
  <2>3. Len(y) = Len(x) /\ \A m \in 1..Len(x) : \E i \in 1..n : good[i] /\ x[m] = ma[i] /\ y[m] = mb[i]
    BY <1>7
  <2> HIDE DEF x, y
  <2>4. CASE ~good[k]
    <3>1. f[k] = x /\ g[k] = y
      BY <2>2, <2>4 DEF Turn
    <3> QED
      BY <2>3, <3>1
  <2>5. CASE good[k]
    <3>1. f[k] = Append(x, ma[k]) /\ g[k] = Append(y, mb[k])
      BY <2>2, <2>5 DEF Turn
    <3>2. /\ Len(f[k]) = Len(x) + 1 /\ Len(g[k]) = Len(y) + 1 /\ Len(x) \in Nat
          /\ f[k][Len(x) + 1] = ma[k] /\ g[k][Len(y) + 1] = mb[k]
      BY <1>5, <2>1, <2>5, <3>1, AppendProperties
    <3>3. \A m \in 1..Len(x) : f[k][m] = x[m] /\ g[k][m] = y[m]
      BY <1>5, <2>1, <2>3, <2>5, <3>1, AppendProperties
    <3>4. ASSUME NEW m \in 1..Len(f[k])
          PROVE  \E i \in 1..n : good[i] /\ f[k][m] = ma[i] /\ g[k][m] = mb[i]
      <4>1. CASE m = Len(x) + 1
        BY <2>3, <2>5, <3>2, <4>1
      <4>2. CASE m # Len(x) + 1
        <5>1. m \in 1..Len(x)
          BY <3>2, <4>2
        <5> QED
          BY <2>3, <3>3, <5>1
      <4> QED
        BY <4>1, <4>2
    <3> QED
      BY <2>3, <3>2, <3>4
  <2> QED
    BY <2>4, <2>5
<1> HIDE DEF InStep
<1>8. Bad = {}
  <2> SUFFICES ASSUME Bad # {} PROVE FALSE
    OBVIOUS
  <2>1. PICK m \in Bad : \A k \in Bad : m <= k
    <3>1. Bad \in SUBSET Nat
      OBVIOUS
    <3> HIDE DEF Bad
    <3> QED
      BY <3>1, LeastNumber
  <2>2. m \in 0..n /\ ~InStep(m)
    OBVIOUS
  <2>3. m \in 1..n /\ m - 1 \in 0..n /\ m - 1 \notin Bad
    BY <1>6, <2>1, <2>2
  <2> QED
    BY <1>7, <2>2, <2>3
<1>9. InStep(n) /\ Len(f[n]) \in Nat
  BY <1>3, <1>8
<1> QED
  BY <1>9 DEF InStep, Paired

\* load_db_policy is such a loop ...
Good(d, s) == [i \in 1..Len(s) |-> ~RuleError(d, s[i])]
Made(d, s) == [i \in 1..Len(s) |-> MakeRule(d, s[i])]

LEMMA PolicyLoop ==
    ASSUME NEW d, NEW s, Len(s) \in Nat
    PROVE  \E f : Loop(Good(d, s), Made(d, s), f, Len(s)) /\ load_db_policy(d, s) = f[Len(s)]
<1> DEFINE n == Len(s)
           turn(f, i) == IF i = 0 THEN <<>>
                         ELSE IF RuleError(d, s[i]) THEN f[i - 1]
                         ELSE Append(f[i - 1], MakeRule(d, s[i]))
           P(f) == f = [i \in 0..n |-> turn(f, i)]
           f == CHOOSE h : P(h)
<1>1. load_db_policy(d, s) = f[n]
  BY DEF load_db_policy
<1>2. ASSUME NEW h
      PROVE  Loop(Good(d, s), Made(d, s), h, n) <=> P(h)
  <2>1. ASSUME NEW i \in 0..n
        PROVE  turn(h, i) = IF i = 0 THEN <<>> ELSE Turn(Good(d, s), Made(d, s), h[i - 1], i)
    <3>1. CASE i = 0
      BY <3>1
    <3>2. CASE i # 0
      <4>1. Good(d, s)[i] = ~RuleError(d, s[i]) /\ Made(d, s)[i] = MakeRule(d, s[i])
        BY <3>2 DEF Good, Made
      <4> QED
        BY <3>2, <4>1 DEF Turn
    <3> QED
      BY <3>1, <3>2
  <2> HIDE DEF turn
  <2> QED
    BY <2>1 DEF Loop
<1>3. \E h : Loop(Good(d, s), Made(d, s), h, n)
  BY LoopEnds
<1> HIDE DEF P
<1>4. P(f)
  BY <1>2, <1>3
<1> HIDE DEF f
<1> QED
  BY <1>1, <1>2, <1>4

\* ... and so is ReadBackOf.
LEMMA ReadBackLoop ==
    ASSUME NEW l, Len(l) \in Nat
    PROVE  \E f : /\ Loop([i \in 1..Len(l) |-> ReadBack(l[i])], [i \in 1..Len(l) |-> l[i]], f, Len(l))
                  /\ ReadBackOf(l) = f[Len(l)]
<1> DEFINE n == Len(l)
           good == [i \in 1..n |-> ReadBack(l[i])]
           made == [i \in 1..n |-> l[i]]
           turn(f, i) == IF i = 0 THEN <<>>
                         ELSE IF ReadBack(l[i]) THEN Append(f[i - 1], l[i])
                         ELSE f[i - 1]
           P(f) == f = [i \in 0..n |-> turn(f, i)]
           f == CHOOSE h : P(h)
<1>1. ReadBackOf(l) = f[n]
  BY DEF ReadBackOf
<1>2. ASSUME NEW h
      PROVE  Loop(good, made, h, n) <=> P(h)
  <2>1. ASSUME NEW i \in 0..n
        PROVE  turn(h, i) = IF i = 0 THEN <<>> ELSE Turn(good, made, h[i - 1], i)
    <3>1. CASE i = 0
      BY <3>1
    <3>2. CASE i # 0
      <4>1. good[i] = ReadBack(l[i]) /\ made[i] = l[i]
        BY <3>2
      <4> HIDE DEF good, made
      <4> QED
        BY <3>2, <4>1 DEF Turn
    <3> QED
      BY <3>1, <3>2
  <2> HIDE DEF turn, good, made
  <2> QED
    BY <2>1 DEF Loop
<1>3. \E h : Loop(good, made, h, n)
  BY LoopEnds
<1> HIDE DEF P, good, made
<1>4. P(f)
  BY <1>2, <1>3
<1> HIDE DEF f
<1> QED
  BY <1>1, <1>2, <1>4 DEF good, made

\* The rules that entries can be made into.
Accepted(d, entries) ==
    {MakeRule(d, entries[i]) : i \in {j \in 1..Len(entries) : ~RuleError(d, entries[j])}}

\* load_db_policy makes a list of such rules.
LEMMA PolicyLoaded ==
    ASSUME NEW d, NEW s, s \in Seq(Range(s))
    PROVE  load_db_policy(d, s) \in Seq(Accepted(d, s))
<1> DEFINE n == Len(s)
           S == GoodOnes(Good(d, s), Made(d, s), n)
<1>1. n \in Nat
  OBVIOUS
<1> HIDE DEF n
<1>2. PICK f : Loop(Good(d, s), Made(d, s), f, n) /\ load_db_policy(d, s) = f[n]
  BY <1>1, PolicyLoop DEF n
<1>3. f[n] \in Seq(S)
  BY <1>1, <1>2, LoopMakes
<1>4. S \subseteq Accepted(d, s)
  BY DEF Accepted, GoodOnes, Good, Made, n
<1> HIDE DEF S
<1>5. f[n] \in Seq(Accepted(d, s))
  BY <1>3, <1>4
<1> QED
  BY <1>2, <1>5

-----------------------------------------------------------------------------
(* Rules.                                                                  *)

\* An element of a set that is not empty is chosen from it.
LEMMA OneOf ==
    ASSUME NEW S, S # {}
    PROVE  TheOne(S) \in S
BY DEF TheOne

\* What a lookup finds is an object under the name asked for.
LEMMA FoundIsThere ==
    ASSUME NEW d, NEW sec, NEW n, NEW x \in lookup(d, sec, n)
    PROVE  x.name = n /\ n \in DOMAIN d[sec] /\ ~d[sec][n].null
BY DEF lookup, Ref

\* A rule made of an entry that is accepted has an action and a NAT.
LEMMA MadeDecides ==
    ASSUME NEW d, NEW e, ~RuleError(d, e)
    PROVE  /\ MakeRule(d, e).action \in {"accept", "deny"}
           /\ MakeRule(d, e).nat \in {"auto", "none", ""}
BY DEF RuleError, MakeRule, load_if_exists

\* The name is that of an object in d, or stands for nothing.
There(d, sec, n) == n # "" => n \in DOMAIN d[sec] /\ ~d[sec][n].null

\* The protocol of a rule.
LEMMA MadeProto ==
    ASSUME NEW d, NEW e, ~RuleError(d, e)
    PROVE  There(d, "proto_objects", MakeRule(d, e).proto.name)
<1> DEFINE p == MakeRule(d, e).proto
<1>1. CASE ~Has(e, {"proto"})
  <2>1. p = Ref("", [id |-> 0])
    BY <1>1 DEF MakeRule
  <2> HIDE DEF p
  <2>2. p.name = ""
    BY <2>1 DEF Ref
  <2> QED
    BY <2>2 DEF There, p
<1>2. CASE Has(e, {"proto"})
  <2>1. p = TheOne(lookup_proto(d, e.proto)) /\ lookup_proto(d, e.proto) # {}
    BY <1>2 DEF MakeRule, RuleError
  <2>2. p \in lookup_proto(d, e.proto)
    BY <2>1, OneOf
  <2> HIDE DEF p
  <2>3. CASE e.proto \in DOMAIN d["proto_objects"]
    <3>1. p \in lookup(d, "proto_objects", e.proto)
      BY <2>2, <2>3 DEF lookup_proto
    <3>2. p.name = e.proto /\ e.proto \in DOMAIN d["proto_objects"] /\ ~d["proto_objects"][e.proto].null
      BY <3>1, FoundIsThere
    <3> QED
      BY <3>2 DEF There, p
  <2>4. CASE e.proto \notin DOMAIN d["proto_objects"]
    <3>1. p = Ref("", [id |-> 0])
      BY <2>2, <2>4 DEF lookup_proto
    <3>2. p.name = ""
      BY <3>1 DEF Ref
    <3> QED
      BY <3>2 DEF There, p
  <2> QED
    BY <2>3, <2>4
<1> QED
  BY <1>1, <1>2

\* The groups of a rule.
LEMMA MadeGroups ==
    ASSUME NEW d, NEW e, ~RuleError(d, e), NEW f \in GroupFields,
           NEW x \in Range(MakeRule(d, e).group[f])
    PROVE  /\ f \in {"src", "dst"} => There(d, "address_objects", x.name)
           /\ f \in {"sport", "dport"} => There(d, "port_objects", x.name)
<1>1. MakeRule(d, e).group[f] = [i \in DOMAIN Group(e, f) |-> TheOne(lookup_group(d, f, Group(e, f)[i]))]
  BY DEF MakeRule
<1>2. PICK i \in DOMAIN Group(e, f) : x = TheOne(lookup_group(d, f, Group(e, f)[i]))
  BY <1>1 DEF Range
<1> DEFINE n == Group(e, f)[i]
<1>3. lookup_group(d, f, n) # {}
  BY DEF RuleError
<1>4. x \in lookup_group(d, f, n)
  BY <1>2, <1>3, OneOf
<1> HIDE DEF n
<1>5. CASE f \in {"src", "dst"}
  <2>1. x \in lookup(d, "address_objects", n)
    BY <1>4, <1>5 DEF lookup_group
  <2>2. x.name = n /\ n \in DOMAIN d["address_objects"] /\ ~d["address_objects"][n].null
    BY <2>1, FoundIsThere
  <2> QED
    BY <1>5, <2>2 DEF There
<1>6. CASE f \in {"sport", "dport"}
  <2>1. x \in lookup_port(d, n)
    BY <1>4, <1>6 DEF lookup_group
  <2>2. CASE n \in DOMAIN d["port_objects"]
    <3>1. x \in lookup(d, "port_objects", n)
      BY <2>1, <2>2 DEF lookup_port
    <3>2. x.name = n /\ ~d["port_objects"][n].null
      BY <3>1, FoundIsThere
    <3> QED
      BY <1>6, <2>2, <3>2 DEF There
  <2>3. CASE n \notin DOMAIN d["port_objects"]
    <3>1. x = Ref("", [start |-> -1, end |-> -1])
      BY <2>1, <2>3 DEF lookup_port
    <3>2. x.name = ""
      BY <3>1 DEF Ref
    <3> QED
      BY <1>6, <3>2 DEF There
  <2> QED
    BY <2>2, <2>3
<1> QED
  BY <1>5, <1>6

\* The profiles of a rule.
LEMMA MadeProfiles ==
    ASSUME NEW d, NEW e, ~RuleError(d, e), NEW f \in DOMAIN MakeRule(d, e).prof
    PROVE  There(d, ProfileSection[f], MakeRule(d, e).prof[f].name)
<1> DEFINE named == IF load_if_exists(e, "action", "deny") = "accept" THEN ProfileNames(e) ELSE {}
<1>1. MakeRule(d, e).prof = [g \in named |-> TheOne(lookup(d, ProfileSection[g], e[g]))]
  BY DEF MakeRule
<1>2. f \in named /\ MakeRule(d, e).prof[f] = TheOne(lookup(d, ProfileSection[f], e[f]))
  <2> HIDE DEF named
  <2> QED
    BY <1>1
<1>3. lookup(d, ProfileSection[f], e[f]) # {}
  BY <1>2 DEF RuleError
<1>4. MakeRule(d, e).prof[f] \in lookup(d, ProfileSection[f], e[f])
  BY <1>2, <1>3, OneOf
<1> DEFINE x == MakeRule(d, e).prof[f]
           sec == ProfileSection[f]
<1>5. x \in lookup(d, sec, e[f])
  BY <1>4
<1> HIDE DEF x, sec
<1>6. x.name = e[f] /\ e[f] \in DOMAIN d[sec] /\ ~d[sec][e[f]].null
  BY <1>5, FoundIsThere
<1> QED
  BY <1>6 DEF There, x, sec

\* A rule made of an entry that is accepted is a proper one.
LEMMA MadeRule ==
    ASSUME NEW d, DbOK(d), NEW e, ~RuleError(d, e)
    PROVE  RuleOK(MakeRule(d, e))
<1> DEFINE r == MakeRule(d, e)
           action == load_if_exists(e, "action", "deny")
           named == IF action = "accept" THEN ProfileNames(e) ELSE {}
<1>1. r.action \in {"accept", "deny"} /\ r.nat \in {"auto", "none", ""}
  BY MadeDecides
<1>2. \A f \in GroupFields : r.group[f] = [i \in DOMAIN Group(e, f) |-> TheOne(lookup_group(d, f, Group(e, f)[i]))]
  BY DEF MakeRule
<1>3. r.action = action /\ r.prof = [f \in named |-> TheOne(lookup(d, ProfileSection[f], e[f]))]
  BY DEF MakeRule
<1>4. \A f \in GroupFields : \A i \in DOMAIN Group(e, f) : lookup_group(d, f, Group(e, f)[i]) # {}
  BY DEF RuleError
<1>5. \A f \in named : lookup(d, ProfileSection[f], e[f]) # {}
  BY DEF RuleError
<1> HIDE DEF r
<1>6. ASSUME NEW f \in GroupFields, NEW i \in DOMAIN r.group[f]
      PROVE  r.group[f][i] \in lookup_group(d, f, Group(e, f)[i])
  <2>1. r.group[f][i] = TheOne(lookup_group(d, f, Group(e, f)[i])) /\ i \in DOMAIN Group(e, f)
    BY <1>2, <1>6
  <2>2. lookup_group(d, f, Group(e, f)[i]) # {}
    BY <1>4, <2>1
  <2> QED
    BY <2>1, <2>2, OneOf
<1>7. ASSUME NEW f \in {"src", "dst"}, NEW i \in DOMAIN r.group[f]
      PROVE  r.group[f][i].name # ""
  <2> DEFINE x == r.group[f][i]
             n == Group(e, f)[i]
  <2>1. x \in lookup_group(d, f, n)
    BY <1>6 DEF GroupFields
  <2> HIDE DEF x, n
  <2>2. x \in lookup(d, "address_objects", n)
    BY <2>1 DEF lookup_group
  <2>3. x.name = n /\ n \in DOMAIN d["address_objects"] /\ ~d["address_objects"][n].null
    BY <2>2, FoundIsThere
  <2>4. ObjOK("address_objects", n, d["address_objects"][n])
    BY <2>3 DEF DbOK, Sections
  <2> QED
    BY <2>3, <2>4 DEF ObjOK, x
<1>8. ASSUME NEW i \in DOMAIN r.group["features"]
      PROVE  r.group["features"][i].name = ""
  <2> DEFINE x == r.group["features"][i]
             n == Group(e, "features")[i]
  <2>1. x \in lookup_group(d, "features", n)
    BY <1>6 DEF GroupFields
  <2> HIDE DEF x, n
  <2>2. x \in {Ref("", y) : y \in Features \cap {n}}
    BY <2>1 DEF lookup_group
  <2>3. PICK y : x = Ref("", y)
    BY <2>2
  <2>4. x.name = ""
    BY <2>3 DEF Ref
  <2> QED
    BY <2>4 DEF x
<1>9. named \subseteq DOMAIN ProfileSection /\ \A f \in named : e[f] # "" /\ ~(f = "routing" /\ e[f] = "none")
  BY DEF ProfileNames
<1>10. action # "accept" => named = {}
  OBVIOUS
<1> HIDE DEF named, action
<1>11. DOMAIN r.prof = named
  BY <1>3
<1>12. ASSUME NEW f \in named
       PROVE  r.prof[f].name = e[f]
  <2>1. r.prof[f] \in lookup(d, ProfileSection[f], e[f])
    BY <1>3, <1>5, OneOf
  <2> DEFINE x == r.prof[f]
             sec == ProfileSection[f]
  <2> HIDE DEF x, sec
  <2>2. x \in lookup(d, sec, e[f])
    BY <2>1 DEF x, sec
  <2>3. x.name = e[f]
    BY <2>2, FoundIsThere
  <2> QED
    BY <2>3 DEF x
<1>13. RuleOK(r)
  BY <1>1, <1>3, <1>7, <1>8, <1>9, <1>10, <1>11, <1>12 DEF RuleOK
<1> QED
  BY <1>13 DEF r

\* Whatever a loaded list refers to is there.
LEMMA LoadedBacked ==
    ASSUME NEW d, NEW s, NEW l \in Seq(Accepted(d, s))
    PROVE  Backed(l, d)
<1> SUFFICES ASSUME NEW sec \in Sections, NEW n \in UsedNames(l, sec)
             PROVE  There(d, sec, n)
  BY DEF Backed, There
<1>1. PICK i \in 1..Len(l) :
          \/ sec = "proto_objects" /\ n = l[i].proto.name
          \/ sec = "address_objects" /\ \E f \in {"src", "dst"} : \E x \in Range(l[i].group[f]) : n = x.name
          \/ sec = "port_objects" /\ \E f \in {"sport", "dport"} : \E x \in Range(l[i].group[f]) : n = x.name
          \/ \E f \in DOMAIN l[i].prof : ProfileSection[f] = sec /\ n = l[i].prof[f].name
  <2> DEFINE groups == CASE sec = "address_objects" -> {"src", "dst"}
                         [] sec = "port_objects" -> {"sport", "dport"}
                         [] OTHER -> {}
             refs(r) == (IF sec = "proto_objects" THEN {r.proto} ELSE {})
                        \cup (UNION {Range(r.group[f]) : f \in groups})
                        \cup {r.prof[f] : f \in {g \in DOMAIN r.prof : ProfileSection[g] = sec}}
  <2>1. n \in {x.name : x \in UNION {refs(r) : r \in Range(l)}}
    BY DEF UsedNames
  <2>2. PICK r \in Range(l) : \E x \in refs(r) : n = x.name
    <3> HIDE DEF refs
    <3> QED
      BY <2>1
  <2>3. PICK i \in 1..Len(l) : r = l[i]
    BY DEF Range
  <2>3a. PICK x \in refs(r) : n = x.name
    BY <2>2
  <2>4. \/ sec = "proto_objects" /\ x = r.proto
        \/ \E f \in groups : x \in Range(r.group[f])
        \/ \E f \in DOMAIN r.prof : ProfileSection[f] = sec /\ x = r.prof[f]
    <3> HIDE DEF groups
    <3>1. CASE x \in IF sec = "proto_objects" THEN {r.proto} ELSE {}
      BY <3>1
    <3>2. CASE x \in UNION {Range(r.group[f]) : f \in groups}
      BY <3>2
    <3>3. CASE x \in {r.prof[f] : f \in {g \in DOMAIN r.prof : ProfileSection[g] = sec}}
      BY <3>3
    <3> QED
      BY <2>3a, <3>1, <3>2, <3>3
  <2>5. \A f \in groups : \/ sec = "address_objects" /\ f \in {"src", "dst"}
                          \/ sec = "port_objects" /\ f \in {"sport", "dport"}
    OBVIOUS
  <2> HIDE DEF groups
  <2> QED
    BY <2>3, <2>4, <2>5, <2>3a
<1>2. PICK e : ~RuleError(d, e) /\ l[i] = MakeRule(d, e)
  <2>1. l[i] \in Accepted(d, s)
    OBVIOUS
  <2> QED
    BY <2>1 DEF Accepted
<1>3. CASE sec = "proto_objects" /\ n = l[i].proto.name
  BY <1>2, <1>3, MadeProto
<1>4. CASE sec = "address_objects" /\ \E f \in {"src", "dst"} : \E x \in Range(l[i].group[f]) : n = x.name
  BY <1>2, <1>4, MadeGroups DEF GroupFields
<1>5. CASE sec = "port_objects" /\ \E f \in {"sport", "dport"} : \E x \in Range(l[i].group[f]) : n = x.name
  BY <1>2, <1>5, MadeGroups DEF GroupFields
<1>6. CASE \E f \in DOMAIN l[i].prof : ProfileSection[f] = sec /\ n = l[i].prof[f].name
  BY <1>2, <1>6, MadeProfiles
<1> QED
  BY <1>1, <1>3, <1>4, <1>5, <1>6

\* A loaded list is a list of rules.
LEMMA LoadedList ==
    ASSUME NEW d, DbOK(d), NEW s, NEW l \in Seq(Accepted(d, s))
    PROVE  ListOK(l)
<1>1. DOMAIN l = 1..Len(l) /\ Len(l) \in Nat /\ l = [i \in 1..Len(l) |-> l[i]]
  OBVIOUS
<1>2. l \in Seq(Range(l))
  BY <1>1 DEF Range
<1>3. ASSUME NEW i \in DOMAIN l
      PROVE  RuleOK(l[i])
  <2>1. l[i] \in Accepted(d, s)
    BY <1>1
  <2>2. PICK e : ~RuleError(d, e) /\ l[i] = MakeRule(d, e)
    BY <2>1 DEF Accepted
  <2> QED
    BY <2>2, MadeRule
<1> QED
  BY <1>2, <1>3 DEF ListOK

-----------------------------------------------------------------------------
(* Objects.                                                                *)

\* Entries of a section from which objects of the right kind are made.
EntriesOK(sec, entries) ==
    /\ "" \notin DOMAIN entries
    /\ sec = "port_objects" => \A n \in DOMAIN entries : Numbered(entries[n], {"start", "end"})
    /\ sec = "proto_objects" => \A n \in DOMAIN entries : Numbered(entries[n], {"id"})

\* The sections of a file are such.
LEMMA SectionOK ==
    ASSUME NEW file, FileOK(file), NEW sec \in Sections
    PROVE  EntriesOK(sec, file.obj[sec])
BY DEF FileOK, EntriesOK

\* A range of ports is turned the right way round.
LEMMA PortLoaded ==
    ASSUME NEW e, Numbered(e, {"start", "end"}), NEW v \in load_db_port(e)
    PROVE  ValOK("port_objects", v)
<1>1. Has(e, {"start", "end"})
  BY DEF load_db_port
<1>2. e.start \in Int /\ e.end \in Int
  BY <1>1 DEF Numbered, Has
<1>3. v = [start |-> v.start, end |-> v.end] /\ v.start \in Int /\ v.end \in Int /\ v.start <= v.end
  BY <1>1, <1>2 DEF load_db_port
<1> QED
  BY <1>3 DEF ValOK

\* An id is cut to a byte.
LEMMA ProtoLoaded ==
    ASSUME NEW e, Numbered(e, {"id"}), NEW v \in load_db_proto(e)
    PROVE  ValOK("proto_objects", v)
<1>1. Has(e, {"id"})
  BY DEF load_db_proto
<1>2. e.id \in Int
  BY <1>1 DEF Numbered, Has
<1>3. v = [id |-> v.id] /\ v.id \in 0..255
  BY <1>1, <1>2 DEF load_db_proto
<1> QED
  BY <1>3 DEF ValOK

\* A text gives a block of the instance, or none.
LEMMA BlockKnown ==
    ASSUME NEW t
    PROVE  CidrAddress(t) \in KnownBlocks
  BY DEF CidrAddress, KnownBlocks, Range

\* The fields of an address.
LEMMA AddressMade ==
    ASSUME NEW t, NEW w
    PROVE  LET v == CfgAddress(t, w)
           IN  /\ v = [type |-> v.type, value |-> v.value] /\ v.type = t
               /\ v.type = "cidr" => v.value \in KnownBlocks
               /\ v.value = IF t = "cidr" THEN CidrAddress(w) ELSE w
<1> DEFINE x == IF t = "cidr" THEN CidrAddress(w) ELSE w
<1>1. CfgAddress(t, w) = [type |-> t, value |-> x]
  BY DEF CfgAddress
<1>2. t = "cidr" => x \in KnownBlocks
  BY BlockKnown
<1>3. x = IF t = "cidr" THEN CidrAddress(w) ELSE w
  OBVIOUS
<1> HIDE DEF x
<1> QED
  BY <1>1, <1>2, <1>3

\* The other loaders fill in what an entry leaves out.
LEMMA OthersLoaded ==
    ASSUME NEW d, NEW e, NEW sec \in Sections \ {"port_objects", "proto_objects"}, NEW v \in LoadEntry(d, sec, e)
    PROVE  ValOK(sec, v)
<1>1. CASE sec = "address_objects"
  <2>1. v \in load_db_address(e)
    BY <1>1 DEF LoadEntry
  <2>2. /\ v = [type |-> v.type, value |-> v.value] /\ v.type \in {"cidr", "fqdn"}
        /\ v.type = "cidr" => v.value \in KnownBlocks
    <3>1. PICK t \in {"cidr", "fqdn"} : \E w : v = CfgAddress(t, w)
      <4>1. CASE Has(e, {"value"})
        BY <2>1, <4>1 DEF load_db_address
      <4>2. CASE ~Has(e, {"value"})
        BY <2>1, <4>2 DEF load_db_address
      <4> QED
        BY <4>1, <4>2
    <3>2. PICK w : v = CfgAddress(t, w)
      BY <3>1
    <3> QED
      BY <3>2, AddressMade
  <2> QED
    BY <1>1, <2>2 DEF ValOK
<1>2. CASE sec = "detection_profiles"
  <2>1. v = Filled(e, ProfileDetection)
    BY <1>2 DEF LoadEntry, load_db_prof_detection
  <2>2. v = [f \in DOMAIN ProfileDetection |-> v[f]]
    BY <2>1 DEF Filled
  <2> QED
    BY <1>2, <2>2 DEF ValOK
<1>3. CASE sec = "tls_profiles"
  <2>1. v = Filled(e, ProfileTls)
    BY <1>3 DEF LoadEntry, load_db_prof_tls
  <2>2. v = [f \in DOMAIN ProfileTls |-> v[f]]
    BY <2>1 DEF Filled
  <2> QED
    BY <1>3, <2>2 DEF ValOK
<1>4. CASE sec = "alg_dns_profiles"
  <2>1. v = Filled(e, ProfileAlgDns)
    BY <1>4 DEF LoadEntry, load_db_prof_alg_dns
  <2>2. v = [f \in DOMAIN ProfileAlgDns |-> v[f]]
    BY <2>1 DEF Filled
  <2> QED
    BY <1>4, <2>2 DEF ValOK
<1>5. CASE sec = "content_profiles"
  <2> DEFINE x == load_db_prof_content_write_format(e)
             y == load_db_prof_content_subrules(load_if_exists(e, "content_rules", <<>>))
  <2>1. v \in load_db_prof_content(e)
    BY <1>5 DEF LoadEntry
  <2>2. v = [write_payload |-> e.write_payload, write_format |-> x, content_rules |-> y]
    BY <2>1 DEF load_db_prof_content
  <2> HIDE DEF x, y
  <2>3. "write_payload" \in DOMAIN v
    BY <2>2
  <2> QED
    BY <1>5, <2>3 DEF ValOK
<1>6. CASE sec \in {"auth_profiles", "routing"}
  BY <1>6 DEF ValOK
<1>7. CASE sec = "tls_ca"
  BY <1>7 DEF LoadEntry, load_db_tls_ca
<1> QED
  BY <1>1, <1>2, <1>3, <1>4, <1>5, <1>6, <1>7 DEF Sections

\* Loading a section makes proper objects; names and objects that were there
\* stay names of objects, and other sections are as before.
LEMMA SectionLoaded ==
    ASSUME NEW d, DbOK(d), NEW sec \in Sections, NEW entries, EntriesOK(sec, entries)
    PROVE  /\ DbOK(LoadSection(d, sec, entries))
           /\ \A s \in Sections : s # sec => LoadSection(d, sec, entries)[s] = d[s]
           /\ \A n \in DOMAIN d[sec] :
                 /\ n \in DOMAIN LoadSection(d, sec, entries)[sec]
                 /\ ~d[sec][n].null => ~LoadSection(d, sec, entries)[sec][n].null
<1> DEFINE made == {n \in DOMAIN entries : LoadEntry(d, sec, entries[n]) # {}}
           objs == Objects(d, sec, entries)
           new == LoadSection(d, sec, entries)
<1>0. DOMAIN d = Sections
  BY DEF DbOK
<1>1. new = [d EXCEPT ![sec] = objs]
  BY DEF LoadSection
<1>1a. /\ DOMAIN objs = DOMAIN d[sec] \cup made
       /\ \A n \in DOMAIN d[sec] \cup made :
             objs[n] = IF n \in made THEN Object(TheOne(LoadEntry(d, sec, entries[n]))) ELSE d[sec][n]
  BY DEF Objects
<1>2. DOMAIN new = Sections /\ new[sec] = objs /\ \A s \in Sections : s # sec => new[s] = d[s]
  <2> HIDE DEF new, objs
  <2> QED
    BY <1>0, <1>1
<1>3. ASSUME NEW n \in made
      PROVE  ObjOK(sec, n, Object(TheOne(LoadEntry(d, sec, entries[n]))))
  <2> DEFINE v == TheOne(LoadEntry(d, sec, entries[n]))
  <2>1. v \in LoadEntry(d, sec, entries[n])
    BY OneOf
  <2> HIDE DEF v
  <2>2. n # ""
    BY DEF EntriesOK
  <2>3. CASE sec = "port_objects"
    <3>1. v \in load_db_port(entries[n])
      BY <2>1, <2>3 DEF LoadEntry
    <3>2. ValOK(sec, v)
      BY <2>3, <3>1, PortLoaded DEF EntriesOK
    <3> QED
      BY <2>2, <2>3, <3>2 DEF ObjOK, Object, v
  <2>4. CASE sec = "proto_objects"
    <3>1. v \in load_db_proto(entries[n])
      BY <2>1, <2>4 DEF LoadEntry
    <3>2. ValOK(sec, v)
      BY <2>4, <3>1, ProtoLoaded DEF EntriesOK
    <3> QED
      BY <2>2, <2>4, <3>2 DEF ObjOK, Object, v
  <2>5. CASE sec \notin {"port_objects", "proto_objects"}
    <3>1. ValOK(sec, v)
      BY <2>1, <2>5, OthersLoaded
    <3> QED
      BY <2>2, <3>1 DEF ObjOK, Object, v
  <2> QED
    BY <2>3, <2>4, <2>5
<1> HIDE DEF objs
<1>4. ASSUME NEW n \in DOMAIN objs
      PROVE  ObjOK(sec, n, objs[n])
  <2>1. CASE n \in made
    BY <1>1a, <1>3, <2>1
  <2>2. CASE n \notin made
    BY <1>1a, <2>2 DEF DbOK
  <2> QED
    BY <2>1, <2>2
<1>5. ASSUME NEW n \in DOMAIN d[sec]
      PROVE  n \in DOMAIN objs /\ (~d[sec][n].null => ~objs[n].null)
  <2>1. \A v : ~Object(v).null
    BY DEF Object
  <2>2. objs[n] = IF n \in made THEN Object(TheOne(LoadEntry(d, sec, entries[n]))) ELSE d[sec][n]
    BY <1>1a
  <2> QED
    BY <1>1a, <2>1, <2>2
<1>6. DbOK(new)
  <2> SUFFICES ASSUME NEW s \in Sections, NEW n \in DOMAIN new[s]
               PROVE  ObjOK(s, n, new[s][n])
    BY <1>2 DEF DbOK
  <2> HIDE DEF new
  <2>1. CASE s = sec
    BY <1>2, <1>4, <2>1
  <2>2. CASE s # sec
    BY <1>2, <2>2 DEF DbOK
  <2> QED
    BY <2>1, <2>2
<1> HIDE DEF new
<1> QED
  BY <1>2, <1>5, <1>6 DEF new

\* A section may be emptied.
LEMMA SectionEmptied ==
    ASSUME NEW d, DbOK(d), NEW sec \in Sections
    PROVE  DbOK([d EXCEPT ![sec] = NoFields])
BY DEF DbOK, NoFields

\* Marking the objects that are used keeps them, and marks those rules use.
LEMMA UsageMarked ==
    ASSUME NEW d, DbOK(d), NEW l
    PROVE  /\ DbOK(mark_usage(d, l))
           /\ \A sec \in Sections :
                 /\ DOMAIN mark_usage(d, l)[sec] = DOMAIN d[sec]
                 /\ \A n \in DOMAIN d[sec] :
                       /\ mark_usage(d, l)[sec][n].null = d[sec][n].null
                       /\ mark_usage(d, l)[sec][n].val = d[sec][n].val
                       /\ mark_usage(d, l)[sec][n].used = (n \in UsedNames(l, sec) /\ ~d[sec][n].null)
<1> DEFINE obj(sec, n) == [d[sec][n] EXCEPT !.used = n \in UsedNames(l, sec) /\ ~d[sec][n].null]
<1>1. mark_usage(d, l) = [sec \in Sections |-> [n \in DOMAIN d[sec] |-> obj(sec, n)]]
  BY DEF mark_usage
<1>2. ASSUME NEW sec \in Sections, NEW n \in DOMAIN d[sec]
      PROVE  /\ ObjOK(sec, n, obj(sec, n))
             /\ obj(sec, n).null = d[sec][n].null
             /\ obj(sec, n).val = d[sec][n].val
             /\ obj(sec, n).used = (n \in UsedNames(l, sec) /\ ~d[sec][n].null)
  <2> DEFINE o == d[sec][n]
             u == n \in UsedNames(l, sec) /\ ~d[sec][n].null
  <2>1. ObjOK(sec, n, o) /\ u \in BOOLEAN /\ (o.null => ~u)
    BY DEF DbOK
  <2>2. obj(sec, n) = [o EXCEPT !.used = u]
    OBVIOUS
  <2> HIDE DEF o, u
  <2>3. [o EXCEPT !.used = u] = [null |-> o.null, val |-> o.val, used |-> u]
    <3> DEFINE a == o.null
               b == o.val
               c == o.used
    <3>1. o = [null |-> a, val |-> b, used |-> c]
      BY <2>1 DEF ObjOK
    <3> HIDE DEF a, b, c
    <3>2. [[null |-> a, val |-> b, used |-> c] EXCEPT !.used = u] = [null |-> a, val |-> b, used |-> u]
      OBVIOUS
    <3>3. [o EXCEPT !.used = u] = [null |-> a, val |-> b, used |-> u]
      BY <3>1, <3>2
    <3> QED
      BY <3>3 DEF a, b
  <2>4. ObjOK(sec, n, [null |-> o.null, val |-> o.val, used |-> u])
    BY <2>1 DEF ObjOK
  <2> HIDE DEF obj
  <2> QED
    BY <2>2, <2>3, <2>4 DEF o, u
<1> HIDE DEF obj
<1> QED
  BY <1>1, <1>2 DEF DbOK

-----------------------------------------------------------------------------
(* The objects are those of the entries.                                   *)

\* Whether an entry is accepted does not depend on the objects there are, and
\* neither does what is made of it in the sections that are written in full.
LEMMA LoadAnywhere ==
    ASSUME NEW d, NEW sec \in Sections, NEW e
    PROVE  /\ LoadEntry(d, sec, e) # {} <=> Loadable(sec, e)
           /\ sec \in FullSections => LoadEntry(d, sec, e) = LoadEntry(EmptyDb, sec, e)
<1>1. CASE sec \notin {"auth_profiles", "routing"}
  <2>1. LoadEntry(d, sec, e) = LoadEntry(EmptyDb, sec, e)
    BY <1>1 DEF LoadEntry, Sections
  <2> QED
    BY <2>1 DEF Loadable
<1>2. CASE sec = "auth_profiles"
  <2>1. \A x : LoadEntry(x, sec, e) = load_db_prof_auth(x, e)
    BY <1>2 DEF LoadEntry
  <2>2. \A x : load_db_prof_auth(x, e) # {}
    BY DEF load_db_prof_auth
  <2> QED
    BY <1>2, <2>1, <2>2 DEF Loadable, FullSections
<1>3. CASE sec = "routing"
  <2>1. \A x : LoadEntry(x, sec, e) = load_db_routing(x, e)
    BY <1>3 DEF LoadEntry
  <2>2. \A x : load_db_routing(x, e) # {}
    BY DEF load_db_routing
  <2> QED
    BY <1>3, <2>1, <2>2 DEF Loadable, FullSections
<1> QED
  BY <1>1, <1>2, <1>3

\* Loading a section brings it up to date, unless an object stands where an
\* entry is not accepted.
LEMMA SectionCurrent ==
    ASSUME NEW d, NEW sec \in Sections, NEW entries,
           \A n \in DOMAIN entries : Present(d[sec], n) => Loadable(sec, entries[n])
    PROVE  CurrentIn(sec, entries, Objects(d, sec, entries))
<1> DEFINE made == {n \in DOMAIN entries : LoadEntry(d, sec, entries[n]) # {}}
           objs == Objects(d, sec, entries)
<1>1. /\ DOMAIN objs = DOMAIN d[sec] \cup made
      /\ \A n \in DOMAIN d[sec] \cup made :
            objs[n] = IF n \in made THEN Object(TheOne(LoadEntry(d, sec, entries[n]))) ELSE d[sec][n]
  BY DEF Objects
<1>2. \A n \in DOMAIN entries : n \in made <=> Loadable(sec, entries[n])
  BY LoadAnywhere
<1>3. \A n \in DOMAIN entries : sec \in Basic => LoadEntry(d, sec, entries[n]) = LoadEntry(EmptyDb, sec, entries[n])
  BY LoadAnywhere DEF Basic, FullSections
<1> HIDE DEF objs, made
<1>4. \A v : ~Object(v).null /\ Object(v).val = v
  BY DEF Object
<1> SUFFICES ASSUME NEW n \in DOMAIN entries
             PROVE  /\ Loadable(sec, entries[n]) <=> Present(objs, n)
                    /\ sec \in Basic /\ Loadable(sec, entries[n]) =>
                          objs[n].val = TheOne(LoadEntry(EmptyDb, sec, entries[n]))
  BY DEF CurrentIn, objs
<1>5. CASE n \in made
  <2>1. n \in DOMAIN objs /\ objs[n] = Object(TheOne(LoadEntry(d, sec, entries[n])))
    BY <1>1, <1>5
  <2>2. ~objs[n].null /\ objs[n].val = TheOne(LoadEntry(d, sec, entries[n]))
    BY <1>4, <2>1
  <2> QED
    BY <1>2, <1>3, <1>5, <2>1, <2>2 DEF Present
<1>6. CASE n \notin made
  <2>1. ~Loadable(sec, entries[n])
    BY <1>2, <1>6
  <2>2. n \in DOMAIN objs => n \in DOMAIN d[sec] /\ objs[n] = d[sec][n]
    BY <1>1, <1>6
  <2> QED
    BY <2>1, <2>2 DEF Present
<1> QED
  BY <1>5, <1>6

\* What LoadSection leaves in the sections.
LEMMA SectionStep ==
    ASSUME NEW d, DOMAIN d = Sections, NEW sec \in Sections, NEW entries
    PROVE  /\ DOMAIN LoadSection(d, sec, entries) = Sections
           /\ LoadSection(d, sec, entries)[sec] = Objects(d, sec, entries)
           /\ \A s \in Sections : s # sec => LoadSection(d, sec, entries)[s] = d[s]
<1> DEFINE objs == Objects(d, sec, entries)
<1>1. LoadSection(d, sec, entries) = [d EXCEPT ![sec] = objs]
  BY DEF LoadSection
<1> HIDE DEF objs
<1>2. /\ DOMAIN [d EXCEPT ![sec] = objs] = Sections
      /\ [d EXCEPT ![sec] = objs][sec] = objs
      /\ \A s \in Sections : s # sec => [d EXCEPT ![sec] = objs][s] = d[s]
  OBVIOUS
<1> QED
  BY <1>1, <1>2 DEF objs

LEMMA SectionMade ==
    ASSUME NEW d, DOMAIN d = Sections, NEW sec \in Sections, NEW entries
    PROVE  LoadSection(d, sec, entries)[sec] = Objects(d, sec, entries)
BY SectionStep

\* The loaders of load_config work on a section each, and leave tls_ca.
LEMMA ObjectsOf ==
    ASSUME NEW d, DOMAIN d = Sections, NEW obj
    PROVE  /\ \A sec \in Sections \ {"tls_ca"} :
                 \E x : x[sec] = d[sec] /\ LoadObjects(d, obj)[sec] = Objects(x, sec, obj[sec])
           /\ LoadObjects(d, obj)["tls_ca"] = d["tls_ca"]
           /\ DOMAIN LoadObjects(d, obj) = Sections
<1> DEFINE load(acc, sec) == LoadSection(acc, sec, obj[sec])
           Done(acc, sec, new) ==
               /\ DOMAIN new = Sections
               /\ new[sec] = Objects(acc, sec, obj[sec])
               /\ \A s \in Sections : s # sec => new[s] = acc[s]
           d1 == load(d, "address_objects")
           d2 == load(d1, "port_objects")
           d3 == load(d2, "proto_objects")
           d4 == load(d3, "detection_profiles")
           d5 == load(d4, "content_profiles")
           d6 == load(d5, "tls_profiles")
           d7 == load(d6, "alg_dns_profiles")
           d8 == load(d7, "auth_profiles")
           d9 == load(d8, "routing")
<1>1. ASSUME NEW acc, DOMAIN acc = Sections, NEW sec \in Sections
      PROVE  Done(acc, sec, load(acc, sec))
  BY <1>1, SectionStep
<1>2. LoadObjects(d, obj) = d9
  BY DEF LoadObjects
<1>3. {"address_objects", "port_objects", "proto_objects", "detection_profiles", "content_profiles",
       "tls_profiles", "alg_dns_profiles", "auth_profiles", "routing", "tls_ca"} = Sections
  BY DEF Sections
<1> HIDE DEF load
<1>4. Done(d, "address_objects", d1)
  BY <1>1, <1>3
<1> HIDE DEF d1
<1>5. Done(d1, "port_objects", d2)
  BY <1>1, <1>3, <1>4
<1> HIDE DEF d2
<1>6. Done(d2, "proto_objects", d3)
  BY <1>1, <1>3, <1>5
<1> HIDE DEF d3
<1>7. Done(d3, "detection_profiles", d4)
  BY <1>1, <1>3, <1>6
<1> HIDE DEF d4
<1>8. Done(d4, "content_profiles", d5)
  BY <1>1, <1>3, <1>7
<1> HIDE DEF d5
<1>9. Done(d5, "tls_profiles", d6)
  BY <1>1, <1>3, <1>8
<1> HIDE DEF d6
<1>10. Done(d6, "alg_dns_profiles", d7)
  BY <1>1, <1>3, <1>9
<1> HIDE DEF d7
<1>11. Done(d7, "auth_profiles", d8)
  BY <1>1, <1>3, <1>10
<1> HIDE DEF d8
<1>12. Done(d8, "routing", d9)
  BY <1>1, <1>3, <1>11
<1> HIDE DEF d9
<1>13. \E x : x["address_objects"] = d["address_objects"] /\ d9["address_objects"] = Objects(x, "address_objects", obj["address_objects"])
  BY <1>3, <1>4, <1>5, <1>6, <1>7, <1>8, <1>9, <1>10, <1>11, <1>12
<1>14. \E x : x["port_objects"] = d["port_objects"] /\ d9["port_objects"] = Objects(x, "port_objects", obj["port_objects"])
  BY <1>3, <1>4, <1>5, <1>6, <1>7, <1>8, <1>9, <1>10, <1>11, <1>12
<1>15. \E x : x["proto_objects"] = d["proto_objects"] /\ d9["proto_objects"] = Objects(x, "proto_objects", obj["proto_objects"])
  BY <1>3, <1>4, <1>5, <1>6, <1>7, <1>8, <1>9, <1>10, <1>11, <1>12
<1>16. \E x : x["detection_profiles"] = d["detection_profiles"] /\ d9["detection_profiles"] = Objects(x, "detection_profiles", obj["detection_profiles"])
  BY <1>3, <1>4, <1>5, <1>6, <1>7, <1>8, <1>9, <1>10, <1>11, <1>12
<1>17. \E x : x["content_profiles"] = d["content_profiles"] /\ d9["content_profiles"] = Objects(x, "content_profiles", obj["content_profiles"])
  BY <1>3, <1>4, <1>5, <1>6, <1>7, <1>8, <1>9, <1>10, <1>11, <1>12
<1>18. \E x : x["tls_profiles"] = d["tls_profiles"] /\ d9["tls_profiles"] = Objects(x, "tls_profiles", obj["tls_profiles"])
  BY <1>3, <1>4, <1>5, <1>6, <1>7, <1>8, <1>9, <1>10, <1>11, <1>12
<1>19. \E x : x["alg_dns_profiles"] = d["alg_dns_profiles"] /\ d9["alg_dns_profiles"] = Objects(x, "alg_dns_profiles", obj["alg_dns_profiles"])
  BY <1>3, <1>4, <1>5, <1>6, <1>7, <1>8, <1>9, <1>10, <1>11, <1>12
<1>20. \E x : x["auth_profiles"] = d["auth_profiles"] /\ d9["auth_profiles"] = Objects(x, "auth_profiles", obj["auth_profiles"])
  BY <1>3, <1>4, <1>5, <1>6, <1>7, <1>8, <1>9, <1>10, <1>11, <1>12
<1>21. \E x : x["routing"] = d["routing"] /\ d9["routing"] = Objects(x, "routing", obj["routing"])
  BY <1>3, <1>4, <1>5, <1>6, <1>7, <1>8, <1>9, <1>10, <1>11, <1>12
<1>22. d9["tls_ca"] = d["tls_ca"] /\ DOMAIN d9 = Sections
  BY <1>3, <1>4, <1>5, <1>6, <1>7, <1>8, <1>9, <1>10, <1>11, <1>12
<1>23. ASSUME NEW sec \in Sections \ {"tls_ca"}
       PROVE  \E x : x[sec] = d[sec] /\ d9[sec] = Objects(x, sec, obj[sec])
  BY <1>3, <1>13, <1>14, <1>15, <1>16, <1>17, <1>18, <1>19, <1>20, <1>21
<1> QED
  BY <1>2, <1>22, <1>23

\* So everything is up to date when load_config is through.
LEMMA ObjectsCurrent ==
    ASSUME NEW d, DbOK(d), NEW file,
           \A sec \in Sections : \A n \in DOMAIN file.obj[sec] :
               Present(d[sec], n) => Loadable(sec, file.obj[sec][n])
    PROVE  Current(file, LoadObjects(d, file.obj))
<1> DEFINE obj == file.obj
           new == LoadObjects(d, obj)
<1>1. /\ \A sec \in Sections \ {"tls_ca"} : \E x : x[sec] = d[sec] /\ new[sec] = Objects(x, sec, obj[sec])
      /\ new["tls_ca"] = d["tls_ca"]
  BY ObjectsOf DEF DbOK
<1> SUFFICES ASSUME NEW sec \in Sections PROVE CurrentIn(sec, obj[sec], new[sec])
  BY DEF Current
<1> HIDE DEF new
<1>2. CASE sec # "tls_ca"
  <2>1. PICK x : x[sec] = d[sec] /\ new[sec] = Objects(x, sec, obj[sec])
    BY <1>1, <1>2
  <2>2. \A n \in DOMAIN obj[sec] : Present(x[sec], n) => Loadable(sec, obj[sec][n])
    BY <2>1
  <2> HIDE DEF obj
  <2>3. CurrentIn(sec, obj[sec], Objects(x, sec, obj[sec]))
    BY <2>2, SectionCurrent
  <2> QED
    BY <2>1, <2>3
<1>3. CASE sec = "tls_ca"
  <2>1. \A e : ~Loadable(sec, e)
    BY <1>3 DEF Loadable, LoadEntry, load_db_tls_ca
  <2>2. \A n \in DOMAIN obj[sec] : ~Present(new[sec], n)
    BY <1>1, <1>3, <2>1
  <2> HIDE DEF obj
  <2> QED
    BY <2>1, <2>2 DEF CurrentIn
<1> QED
  BY <1>2, <1>3

\* The ports of redirect_warning_ports, all that a refused command can change,
\* play no part in this.
LEMMA SameLoads ==
    ASSUME NEW sec \in Sections, NEW a, NEW b, Same(a, b)
    PROVE  /\ Loadable(sec, a) <=> Loadable(sec, b)
           /\ sec \in Basic => LoadEntry(EmptyDb, sec, a) = LoadEntry(EmptyDb, sec, b)
<1>1. DOMAIN a = DOMAIN b /\ \A f \in DOMAIN a \ {"redirect_warning_ports"} : a[f] = b[f]
  BY DEF Same
<1>2. CASE sec = "address_objects"
  <2>1. LoadEntry(EmptyDb, sec, a) = load_db_address(a) /\ LoadEntry(EmptyDb, sec, b) = load_db_address(b)
    BY <1>2 DEF LoadEntry
  <2>2. /\ Has(a, {"value"}) <=> Has(b, {"value"})
        /\ Has(a, {"value"}) => a.value = b.value
        /\ load_if_exists(a, "type", "") = load_if_exists(b, "type", "")
        /\ \A u \in DOMAIN a \cap {"cidr", "fqdn"} : a[u] = b[u]
    BY <1>1 DEF Has, load_if_exists
  <2> DEFINE t == load_if_exists(a, "type", "")
             old(e) == {CfgAddress(x, e[x]) : x \in {u \in DOMAIN e \cap {"cidr", "fqdn"} : t = IF u = "cidr" THEN "0" ELSE "1"}}
             new(e) == {CfgAddress(x, e.value) : x \in {t} \cap {"cidr", "fqdn"}}
  <2>3. /\ load_db_address(a) = IF Has(a, {"value"}) THEN new(a) ELSE old(a)
        /\ load_db_address(b) = IF Has(b, {"value"}) THEN new(b) ELSE old(b)
    BY <2>2 DEF load_db_address
  <2> HIDE DEF t
  <2>4. Has(a, {"value"}) => new(a) = new(b)
    BY <2>2
  <2>5. old(a) = old(b)
    BY <1>1, <2>2
  <2> HIDE DEF old, new
  <2>6. load_db_address(a) = load_db_address(b)
    <3>1. CASE Has(a, {"value"})
      <4>1. load_db_address(a) = new(a) /\ load_db_address(b) = new(b)
        BY <2>2, <2>3, <3>1
      <4> QED
        BY <2>4, <3>1, <4>1
    <3>2. CASE ~Has(a, {"value"})
      <4>1. load_db_address(a) = old(a) /\ load_db_address(b) = old(b)
        BY <2>2, <2>3, <3>2
      <4> QED
        BY <2>5, <4>1
    <3> QED
      BY <3>1, <3>2
  <2> QED
    BY <2>1, <2>6 DEF Loadable
<1>3. CASE sec = "port_objects"
  <2>1. LoadEntry(EmptyDb, sec, a) = load_db_port(a) /\ LoadEntry(EmptyDb, sec, b) = load_db_port(b)
    BY <1>3 DEF LoadEntry
  <2>2. /\ Has(a, {"start", "end"}) <=> Has(b, {"start", "end"})
        /\ Has(a, {"start", "end"}) => a.start = b.start /\ a.end = b.end
    BY <1>1 DEF Has
  <2>3. load_db_port(a) = load_db_port(b)
    BY <2>2 DEF load_db_port
  <2> QED
    BY <2>1, <2>3 DEF Loadable
<1>4. CASE sec = "proto_objects"
  <2>1. LoadEntry(EmptyDb, sec, a) = load_db_proto(a) /\ LoadEntry(EmptyDb, sec, b) = load_db_proto(b)
    BY <1>4 DEF LoadEntry
  <2>2. /\ Has(a, {"id"}) <=> Has(b, {"id"})
        /\ Has(a, {"id"}) => a.id = b.id
    BY <1>1 DEF Has
  <2>3. load_db_proto(a) = load_db_proto(b)
    BY <2>2 DEF load_db_proto
  <2> QED
    BY <2>1, <2>3 DEF Loadable
<1>5. CASE sec \in {"detection_profiles", "content_profiles", "tls_profiles"}
  <2> DEFINE f == CASE sec = "detection_profiles" -> "mode" [] sec = "content_profiles" -> "write_payload"
                    [] sec = "tls_profiles" -> "inspect"
  <2>1. \A e : Loadable(sec, e) <=> Has(e, {f})
    BY <1>5 DEF Loadable, LoadEntry, load_db_prof_detection, load_db_prof_content, load_db_prof_tls
  <2>2. Has(a, {f}) <=> Has(b, {f})
    BY <1>1 DEF Has
  <2> QED
    BY <1>5, <2>1, <2>2 DEF Basic
<1>6. CASE sec \in {"alg_dns_profiles", "auth_profiles", "routing"}
  <2>1. \A e : Loadable(sec, e)
    BY <1>6 DEF Loadable, LoadEntry, load_db_prof_alg_dns, load_db_prof_auth, load_db_routing
  <2> QED
    BY <1>6, <2>1 DEF Basic
<1>7. CASE sec = "tls_ca"
  <2>1. \A e : ~Loadable(sec, e)
    BY <1>7 DEF Loadable, LoadEntry, load_db_tls_ca
  <2> QED
    BY <1>7, <2>1 DEF Basic
<1> QED
  BY <1>2, <1>3, <1>4, <1>5, <1>6, <1>7 DEF Sections

\* What is up to date for a tree is so for one with the same entries or fewer.
LEMMA CurrentGrown ==
    ASSUME NEW c, NEW f, Grown(c, f), NEW d, Current(c, d)
    PROVE  Current(f, d)
<1> SUFFICES ASSUME NEW sec \in Sections, NEW n \in DOMAIN f.obj[sec]
             PROVE  /\ Loadable(sec, f.obj[sec][n]) <=> Present(d[sec], n)
                    /\ sec \in Basic /\ Loadable(sec, f.obj[sec][n]) =>
                          d[sec][n].val = TheOne(LoadEntry(EmptyDb, sec, f.obj[sec][n]))
  BY DEF Current, CurrentIn
<1> DEFINE a == c.obj[sec][n]
           b == f.obj[sec][n]
<1>1. n \in DOMAIN c.obj[sec] /\ Same(a, b)
  BY DEF Grown
<1>2. /\ Loadable(sec, a) <=> Present(d[sec], n)
      /\ sec \in Basic /\ Loadable(sec, a) => d[sec][n].val = TheOne(LoadEntry(EmptyDb, sec, a))
  BY <1>1 DEF Current, CurrentIn
<1> HIDE DEF a, b
<1>3. /\ Loadable(sec, a) <=> Loadable(sec, b)
      /\ sec \in Basic => LoadEntry(EmptyDb, sec, a) = LoadEntry(EmptyDb, sec, b)
  BY <1>1, SameLoads
<1> QED
  BY <1>2, <1>3 DEF b

\* The loaders of load_config, one after the other.
LEMMA ObjectsLoaded ==
    ASSUME NEW d, DbOK(d), NEW file, FileOK(file)
    PROVE  DbOK(LoadObjects(d, file.obj))
<1> DEFINE load(acc, sec) == LoadSection(acc, sec, file.obj[sec])
           d1 == load(d, "address_objects")
           d2 == load(d1, "port_objects")
           d3 == load(d2, "proto_objects")
           d4 == load(d3, "detection_profiles")
           d5 == load(d4, "content_profiles")
           d6 == load(d5, "tls_profiles")
           d7 == load(d6, "alg_dns_profiles")
           d8 == load(d7, "auth_profiles")
           d9 == load(d8, "routing")
<1>1. ASSUME NEW acc, DbOK(acc), NEW sec \in Sections
      PROVE  DbOK(load(acc, sec))
  <2>1. EntriesOK(sec, file.obj[sec])
    BY SectionOK
  <2> QED
    BY <1>1, <2>1, SectionLoaded
<1>2. LoadObjects(d, file.obj) = d9
  BY DEF LoadObjects
<1>3. {"address_objects", "port_objects", "proto_objects", "detection_profiles", "content_profiles",
       "tls_profiles", "alg_dns_profiles", "auth_profiles", "routing"} \subseteq Sections
  BY DEF Sections
<1> HIDE DEF load
<1>4. DbOK(d1)
  BY <1>1, <1>3
<1> HIDE DEF d1
<1>5. DbOK(d2)
  BY <1>1, <1>3, <1>4
<1> HIDE DEF d2
<1>6. DbOK(d3)
  BY <1>1, <1>3, <1>5
<1> HIDE DEF d3
<1>7. DbOK(d4)
  BY <1>1, <1>3, <1>6
<1> HIDE DEF d4
<1>8. DbOK(d5)
  BY <1>1, <1>3, <1>7
<1> HIDE DEF d5
<1>9. DbOK(d6)
  BY <1>1, <1>3, <1>8
<1> HIDE DEF d6
<1>10. DbOK(d7)
  BY <1>1, <1>3, <1>9
<1> HIDE DEF d7
<1>11. DbOK(d8)
  BY <1>1, <1>3, <1>10
<1> HIDE DEF d8
<1>12. DbOK(d9)
  BY <1>1, <1>3, <1>11
<1> HIDE DEF d9
<1> QED
  BY <1>2, <1>12

-----------------------------------------------------------------------------
(* Rules made of the same entries.                                         *)

\* A name that is up to date is found, or not, wherever the tree is loaded.
LEMMA FoundAlike ==
    ASSUME NEW c, NEW d, NEW e, DbOK(d), DbOK(e), Current(c, d), Current(c, e),
           NEW sec \in Sections, NEW n, Clean(c, d, sec, n), Clean(c, e, sec, n)
    PROVE  /\ n \in DOMAIN d[sec] <=> n \in DOMAIN e[sec]
           /\ lookup(d, sec, n) = {} <=> lookup(e, sec, n) = {}
           /\ sec \in Basic => lookup(d, sec, n) = lookup(e, sec, n)
<1>1. n \in DOMAIN d[sec] => n \in DOMAIN c.obj[sec] /\ Present(d[sec], n)
  BY DEF Clean, Present
<1>2. n \in DOMAIN e[sec] => n \in DOMAIN c.obj[sec] /\ Present(e[sec], n)
  BY DEF Clean, Present
<1>3. n \in DOMAIN c.obj[sec] =>
          /\ Present(d[sec], n) <=> Present(e[sec], n)
          /\ sec \in Basic /\ Present(d[sec], n) => d[sec][n].val = e[sec][n].val
  BY DEF Current, CurrentIn
<1>4. n \in DOMAIN d[sec] <=> n \in DOMAIN e[sec]
  BY <1>1, <1>2, <1>3 DEF Present
<1>5. CASE n \notin DOMAIN d[sec]
  BY <1>4, <1>5 DEF lookup
<1>6. CASE n \in DOMAIN d[sec]
  <2>1. lookup(d, sec, n) = {Ref(n, d[sec][n].val)} /\ lookup(e, sec, n) = {Ref(n, e[sec][n].val)}
    BY <1>1, <1>2, <1>4, <1>6 DEF lookup, Present
  <2>2. sec \in Basic => d[sec][n].val = e[sec][n].val
    BY <1>1, <1>3, <1>6
  <2> QED
    BY <1>4, <2>1, <2>2
<1> QED
  BY <1>4, <1>5, <1>6

\* A profile has a section.
LEMMA ProfilesFiled ==
    ASSUME NEW e, NEW f \in ProfileNames(e)
    PROVE  f \in DOMAIN ProfileSection /\ f \in DOMAIN e /\ ProfileSection[f] \in Sections
<1>1. f \in DOMAIN ProfileSection /\ f \in DOMAIN e
  BY DEF ProfileNames
<1>2. \A g \in DOMAIN ProfileSection : ProfileSection[g] \in Sections
  BY DEF ProfileSection, Sections
<1> QED
  BY <1>1, <1>2

\* So an entry of the policy is accepted or not, and comes to the same.
LEMMA EntryAlike ==
    ASSUME NEW c, NEW d, NEW e, DbOK(d), DbOK(e), Current(c, d), Current(c, e), NEW x,
           \A sec \in Sections : \A n \in EntryNames(x, sec) : Clean(c, d, sec, n) /\ Clean(c, e, sec, n)
    PROVE  /\ RuleError(d, x) <=> RuleError(e, x)
           /\ ~RuleError(d, x) => SameVerdict(MakeRule(d, x), MakeRule(e, x))
<1> DEFINE action == load_if_exists(x, "action", "deny")
           named == IF action = "accept" THEN ProfileNames(x) ELSE {}
<1>0. Basic \subseteq Sections
  BY DEF Basic, Sections
<1>1. Has(x, {"proto"}) => lookup_proto(d, x.proto) = lookup_proto(e, x.proto)
  <2> SUFFICES ASSUME Has(x, {"proto"}) PROVE lookup_proto(d, x.proto) = lookup_proto(e, x.proto)
    OBVIOUS
  <2> DEFINE n == x.proto
             sec == "proto_objects"
  <2>1. n \in EntryNames(x, sec)
    BY DEF EntryNames
  <2>2. sec \in Basic
    BY DEF Basic
  <2>3. /\ n \in DOMAIN d[sec] <=> n \in DOMAIN e[sec]
        /\ lookup(d, sec, n) = lookup(e, sec, n)
    <3> HIDE DEF n, sec
    <3> QED
      BY <1>0, <2>1, <2>2, FoundAlike
  <2> QED
    BY <2>3 DEF lookup_proto
<1>2. ASSUME NEW f \in GroupFields, NEW i \in DOMAIN Group(x, f)
      PROVE  lookup_group(d, f, Group(x, f)[i]) = lookup_group(e, f, Group(x, f)[i])
  <2> DEFINE n == Group(x, f)[i]
  <2>0. n \in Range(Group(x, f))
    BY DEF Range
  <2>1. CASE f \in {"src", "dst"}
    <3>1. n \in EntryNames(x, "address_objects")
      BY <2>0, <2>1 DEF EntryNames
    <3> HIDE DEF n
    <3>2. lookup(d, "address_objects", n) = lookup(e, "address_objects", n)
      BY <1>0, <3>1, FoundAlike DEF Basic
    <3>3. \A y : lookup_group(y, f, n) = lookup(y, "address_objects", n)
      BY <2>1 DEF lookup_group
    <3> QED
      BY <3>2, <3>3 DEF n
  <2>2. CASE f \in {"sport", "dport"}
    <3>1. n \in EntryNames(x, "port_objects")
      BY <2>0, <2>2 DEF EntryNames
    <3> HIDE DEF n
    <3>2. /\ n \in DOMAIN d["port_objects"] <=> n \in DOMAIN e["port_objects"]
          /\ lookup(d, "port_objects", n) = lookup(e, "port_objects", n)
      BY <1>0, <3>1, FoundAlike DEF Basic
    <3>3. lookup_port(d, n) = lookup_port(e, n)
      BY <3>2 DEF lookup_port
    <3>4. \A y : lookup_group(y, f, n) = lookup_port(y, n)
      BY <2>2 DEF lookup_group
    <3> QED
      BY <3>3, <3>4 DEF n
  <2>3. CASE f = "features"
    BY <2>3 DEF lookup_group
  <2> QED
    BY <2>1, <2>2, <2>3 DEF GroupFields
<1>3. ASSUME NEW f \in ProfileNames(x)
      PROVE  lookup(d, ProfileSection[f], x[f]) = {} <=> lookup(e, ProfileSection[f], x[f]) = {}
  <2> DEFINE n == x[f]
             sec == ProfileSection[f]
  <2>1. sec \in Sections
    BY ProfilesFiled
  <2>2. n \in EntryNames(x, sec)
    BY DEF EntryNames
  <2>3. lookup(d, sec, n) = {} <=> lookup(e, sec, n) = {}
    <3> HIDE DEF n, sec
    <3> QED
      BY <2>1, <2>2, FoundAlike
  <2> QED
    BY <2>3
<1>4. RuleError(d, x) <=> RuleError(e, x)
  BY <1>1, <1>2, <1>3 DEF RuleError
<1>5. ASSUME ~RuleError(d, x)
      PROVE  SameVerdict(MakeRule(d, x), MakeRule(e, x))
  <2> DEFINE r == MakeRule(d, x)
             q == MakeRule(e, x)
             group(y, f) == [i \in DOMAIN Group(x, f) |-> TheOne(lookup_group(y, f, Group(x, f)[i]))]
             proto(y) == IF Has(x, {"proto"}) THEN TheOne(lookup_proto(y, x.proto)) ELSE Ref("", [id |-> 0])
             prof(y) == [f \in named |-> TheOne(lookup(y, ProfileSection[f], x[f]))]
             a == load_if_exists(x, "disabled", FALSE)
             b == load_if_exists(x, "nat", "")
  <2>1. /\ r = [disabled |-> a, proto |-> proto(d), group |-> [f \in GroupFields |-> group(d, f)],
                action |-> action, nat |-> b, prof |-> prof(d)]
        /\ q = [disabled |-> a, proto |-> proto(e), group |-> [f \in GroupFields |-> group(e, f)],
                action |-> action, nat |-> b, prof |-> prof(e)]
    BY DEF MakeRule
  <2>2. proto(d) = proto(e)
    BY <1>1
  <2>3. \A f \in GroupFields : group(d, f) = group(e, f)
    BY <1>2
  <2>4. \A f \in named : lookup(d, ProfileSection[f], x[f]) # {} /\ lookup(e, ProfileSection[f], x[f]) # {}
    BY <1>3, <1>5 DEF RuleError
  <2>5. ASSUME NEW f \in named, NEW y \in {d, e}
        PROVE  prof(y)[f].name = x[f]
    <3> DEFINE z == TheOne(lookup(y, ProfileSection[f], x[f]))
               sec == ProfileSection[f]
    <3>1. z \in lookup(y, sec, x[f])
      BY <2>4, OneOf
    <3>2. prof(y)[f] = z
      OBVIOUS
    <3> HIDE DEF z, sec, prof
    <3>3. z.name = x[f]
      BY <3>1, FoundIsThere
    <3> QED
      BY <3>2, <3>3
  <2>6. DOMAIN prof(d) = named /\ DOMAIN prof(e) = named
    OBVIOUS
  <2> HIDE DEF r, q, group, proto, prof, a, b, action, named
  <2>7. /\ r.disabled = a /\ r.proto = proto(d) /\ r.group = [f \in GroupFields |-> group(d, f)]
        /\ r.action = action /\ r.nat = b /\ r.prof = prof(d)
    BY <2>1
  <2>8. /\ q.disabled = a /\ q.proto = proto(e) /\ q.group = [f \in GroupFields |-> group(e, f)]
        /\ q.action = action /\ q.nat = b /\ q.prof = prof(e)
    BY <2>1
  <2>9. r.group = q.group
    BY <2>3, <2>7, <2>8
  <2>10. DOMAIN r.prof = DOMAIN q.prof /\ \A f \in DOMAIN r.prof : r.prof[f].name = q.prof[f].name
    BY <2>5, <2>6, <2>7, <2>8
  <2>11. SameVerdict(r, q)
    BY <2>2, <2>7, <2>8, <2>9, <2>10 DEF SameVerdict
  <2> QED
    BY <2>11 DEF r, q
<1> QED
  BY <1>4, <1>5

\* And so does the whole policy.
LEMMA SameRules ==
    ASSUME NEW c, FileOK(c), NEW d, NEW e, DbOK(d), DbOK(e), Current(c, d), Current(c, e),
           NoStrays(c, d), NoStrays(c, e)
    PROVE  Alike(load_db_policy(d, c.policy), load_db_policy(e, c.policy))
<1> DEFINE s == c.policy
           n == Len(s)
<1>1. s \in Seq(Range(s))
  BY DEF FileOK
<1>2. n \in Nat /\ DOMAIN s = 1..n
  BY <1>1
<1>3. ASSUME NEW i \in 1..n
      PROVE  /\ RuleError(d, s[i]) <=> RuleError(e, s[i])
             /\ ~RuleError(d, s[i]) => SameVerdict(MakeRule(d, s[i]), MakeRule(e, s[i]))
  <2>1. \A sec \in Sections : \A m \in EntryNames(s[i], sec) : Clean(c, d, sec, m) /\ Clean(c, e, sec, m)
    BY <1>2 DEF NoStrays, Clean
  <2> DEFINE x == s[i]
  <2> HIDE DEF x
  <2>2. \A sec \in Sections : \A m \in EntryNames(x, sec) : Clean(c, d, sec, m) /\ Clean(c, e, sec, m)
    BY <2>1 DEF x
  <2>3. /\ RuleError(d, x) <=> RuleError(e, x)
        /\ ~RuleError(d, x) => SameVerdict(MakeRule(d, x), MakeRule(e, x))
    BY <2>2, EntryAlike
  <2> QED
    BY <2>3 DEF x
<1> HIDE DEF s
<1>4. Good(d, s) = Good(e, s)
  BY <1>3 DEF Good
<1>5. PICK f : Loop(Good(d, s), Made(d, s), f, n) /\ load_db_policy(d, s) = f[n]
  BY <1>2, PolicyLoop
<1>6. PICK g : Loop(Good(d, s), Made(e, s), g, n) /\ load_db_policy(e, s) = g[n]
  BY <1>2, <1>4, PolicyLoop
<1> HIDE DEF n
<1>7. /\ Len(f[n]) \in Nat /\ Len(g[n]) = Len(f[n])
      /\ \A m \in 1..Len(f[n]) : \E i \in 1..n : Good(d, s)[i] /\ f[n][m] = Made(d, s)[i] /\ g[n][m] = Made(e, s)[i]
  <2>1. Paired(Good(d, s), Made(d, s), Made(e, s), n, f[n], g[n])
    BY <1>2, <1>5, <1>6, Lockstep
  <2> QED
    BY <2>1 DEF Paired
<1>8. \A i \in 1..n : Good(d, s)[i] => SameVerdict(Made(d, s)[i], Made(e, s)[i])
  BY <1>3 DEF Good, Made, n
<1>9. Alike(f[n], g[n])
  BY <1>7, <1>8 DEF Alike
<1> QED
  BY <1>5, <1>6, <1>9 DEF s

\* A process that starts with a tree has no objects but those of the tree.
LEMMA FreshClean ==
    ASSUME NEW file, FileOK(file)
    PROVE  /\ DbOK(Fresh(file)) /\ Current(file, Fresh(file))
           /\ \A sec \in Sections : \A n \in DOMAIN Fresh(file)[sec] : n \in DOMAIN file.obj[sec] /\ Present(Fresh(file)[sec], n)
           /\ NoStrays(file, Fresh(file))
<1> DEFINE obj == file.obj
           new == LoadObjects(EmptyDb, obj)
<1>1. DbOK(EmptyDb) /\ \A sec \in Sections : DOMAIN EmptyDb[sec] = {}
  BY DEF DbOK, EmptyDb, NoFields
<1>2. DbOK(new)
  BY <1>1, ObjectsLoaded
<1>3. Current(file, new)
  BY <1>1, ObjectsCurrent DEF Present
<1>4. /\ \A sec \in Sections \ {"tls_ca"} : \E x : x[sec] = EmptyDb[sec] /\ new[sec] = Objects(x, sec, obj[sec])
      /\ new["tls_ca"] = EmptyDb["tls_ca"]
  BY <1>1, ObjectsOf DEF DbOK
<1> HIDE DEF new
<1>5. ASSUME NEW sec \in Sections, NEW n \in DOMAIN new[sec]
      PROVE  n \in DOMAIN obj[sec] /\ Present(new[sec], n)
  <2>1. sec # "tls_ca"
    BY <1>1, <1>4
  <2>2. PICK x : x[sec] = EmptyDb[sec] /\ new[sec] = Objects(x, sec, obj[sec])
    BY <1>4, <2>1
  <2> DEFINE entries == obj[sec]
             made == {m \in DOMAIN entries : LoadEntry(x, sec, entries[m]) # {}}
             objs == Objects(x, sec, entries)
  <2>3. /\ DOMAIN objs = DOMAIN x[sec] \cup made
        /\ \A m \in made : objs[m] = Object(TheOne(LoadEntry(x, sec, entries[m])))
    BY DEF Objects
  <2>4. \A v : ~Object(v).null
    BY DEF Object
  <2>5. made \subseteq DOMAIN entries
    OBVIOUS
  <2> HIDE DEF objs, made, entries
  <2>6. new[sec] = objs /\ n \in made
    BY <1>1, <2>2, <2>3 DEF objs, entries
  <2> QED
    BY <2>3, <2>4, <2>5, <2>6 DEF Present, entries
<1>6. NoStrays(file, new)
  BY <1>5 DEF NoStrays, Present
<1> QED
  BY <1>2, <1>3, <1>5, <1>6 DEF new, Fresh

\* Names only come in between two commands that are applied, so strays stay.
LEMMA StraysStay ==
    ASSUME NEW f, NEW d, NEW e, Current(f, d), Current(f, e),
           \A sec \in Sections : DOMAIN d[sec] \subseteq DOMAIN e[sec], NoStrays(f, e)
    PROVE  NoStrays(f, d)
<1> SUFFICES ASSUME NEW i \in DOMAIN f.policy, NEW sec \in Sections, NEW n \in EntryNames(f.policy[i], sec),
                    n \in DOMAIN d[sec]
             PROVE  n \in DOMAIN f.obj[sec] /\ ~d[sec][n].null
  BY DEF NoStrays
<1>1. n \in DOMAIN e[sec]
  OBVIOUS
<1>2. n \in DOMAIN f.obj[sec] /\ Present(e[sec], n)
  BY <1>1 DEF NoStrays, Present
<1>3. Present(d[sec], n)
  BY <1>2 DEF Current, CurrentIn
<1> QED
  BY <1>2, <1>3 DEF Present

-----------------------------------------------------------------------------
(* Loading and saving.                                                     *)

\* After the rules have been made of the tree c and the objects d, everything
\* fits, whatever was there before (ApplyPolicy, load_config).
LEMMA PolicyApplied ==
    ASSUME NEW c, FileOK(c), NEW d, DbOK(d), Current(c, d)
    PROVE  Running(c, c, mark_usage(d, load_db_policy(d, c.policy)), load_db_policy(d, c.policy))
<1> DEFINE l == load_db_policy(d, c.policy)
           m == mark_usage(d, l)
<1>1. l \in Seq(Accepted(d, c.policy))
  BY PolicyLoaded DEF FileOK
<1> HIDE DEF l
<1>2. ListOK(l) /\ Backed(l, d)
  BY <1>1, LoadedList, LoadedBacked
<1>3. DbOK(m)
  BY UsageMarked
<1>4. \A sec \in Sections :
          /\ DOMAIN m[sec] = DOMAIN d[sec]
          /\ \A n \in DOMAIN d[sec] :
                /\ m[sec][n].null = d[sec][n].null
                /\ m[sec][n].val = d[sec][n].val
                /\ m[sec][n].used = (n \in UsedNames(l, sec) /\ ~d[sec][n].null)
  BY UsageMarked
<1> HIDE DEF m
<1>5. Backed(l, m)
  BY <1>2, <1>4 DEF Backed
<1>6. Registered(c, c, l, m)
  BY <1>2, <1>4 DEF Backed, Registered
<1>7. Grown(c, c)
  BY DEF Grown, Same
<1>8. Current(c, m)
  <2>1. ASSUME NEW sec \in Sections, NEW n
        PROVE  /\ Present(m[sec], n) <=> Present(d[sec], n)
               /\ Present(d[sec], n) => m[sec][n].val = d[sec][n].val
    BY <1>4 DEF Present
  <2> QED
    BY <2>1 DEF Current, CurrentIn
<1>9. Decided(c, m, l)
  <2> SUFFICES ASSUME NoStrays(c, m) PROVE Alike(l, load_db_policy(Fresh(c), c.policy))
    BY DEF Decided
  <2>1. NoStrays(c, d)
    BY <1>4, <1>8, StraysStay
  <2>2. DbOK(Fresh(c)) /\ Current(c, Fresh(c)) /\ NoStrays(c, Fresh(c))
    BY FreshClean
  <2> DEFINE e == Fresh(c)
  <2> HIDE DEF e
  <2>3. DbOK(e) /\ Current(c, e) /\ NoStrays(c, e)
    BY <2>2 DEF e
  <2>4. Alike(load_db_policy(d, c.policy), load_db_policy(e, c.policy))
    BY <2>1, <2>3, SameRules
  <2> QED
    BY <2>4 DEF e, l
<1> QED
  BY <1>2, <1>3, <1>5, <1>6, <1>7, <1>8, <1>9 DEF Running, l, m

\* The options of a configuration that is read.
OptionsRead(o, file) ==
    load_debug(load_captures(load_settings(load_portal(o, file.opt), file.opt), file.opt), file.opt)

\* What load_config makes, part by part.
LEMMA ConfigMade ==
    ASSUME NEW file, NEW d, NEW o, NEW starting \in BOOLEAN,
           NEW before, before = (IF starting THEN d ELSE cleanup(d)),
           NEW objects, objects = LoadObjects(before, file.obj),
           NEW rules, rules = load_db_policy(objects, file.policy),
           NEW s, s = load_config(file, d, o, starting)
    PROVE  /\ s.cfg = file
           /\ DOMAIN s = {"cfg", "db", "list", "opt"}
           /\ s.list = rules
           /\ s.db = mark_usage(objects, rules)
<1> DEFINE options == OptionsRead(o, file)
           made(dd, l) == [cfg |-> file, db |-> mark_usage(dd, l), list |-> l,
                           opt |-> IF starting THEN load_start_options(options, file.opt) ELSE options]
<1>1. s = TheOne(UNION {{made(dd, l) : l \in {load_db_policy(dd, file.policy)}} : dd \in {objects}})
  BY DEF load_config, OptionsRead
<1>2. UNION {{made(dd, l) : l \in {load_db_policy(dd, file.policy)}} : dd \in {objects}}
          = {made(objects, rules)}
  <2> HIDE DEF made
  <2> QED
    OBVIOUS
<1>3. s = made(objects, rules)
  <2> HIDE DEF made
  <2> QED
    BY <1>1, <1>2 DEF TheOne
<1> HIDE DEF options
<1>4. /\ s.cfg = file /\ s.list = rules /\ s.db = mark_usage(objects, rules)
      /\ DOMAIN s = {"cfg", "db", "list", "opt"}
  BY <1>3
<1> QED
  BY <1>4

\* The same for a process that starts.
LEMMA FreshConfig ==
    ASSUME NEW file, NEW o
    PROVE  LET s == load_config(file, EmptyDb, o, TRUE)
           IN  /\ s.list = load_db_policy(Fresh(file), file.policy)
               /\ s.db = mark_usage(Fresh(file), s.list)
               /\ s.opt = load_start_options(OptionsRead(o, file), file.opt)
<1> DEFINE s == load_config(file, EmptyDb, o, TRUE)
           objects == Fresh(file)
           rules == load_db_policy(objects, file.policy)
           now == load_start_options(OptionsRead(o, file), file.opt)
           made(dd, l) == [cfg |-> file, db |-> mark_usage(dd, l), list |-> l, opt |-> now]
<1>1. s = TheOne(UNION {{made(dd, l) : l \in {load_db_policy(dd, file.policy)}} : dd \in {objects}})
  BY DEF load_config, OptionsRead, Fresh
<1>2. UNION {{made(dd, l) : l \in {load_db_policy(dd, file.policy)}} : dd \in {objects}}
          = {made(objects, rules)}
  <2> HIDE DEF made, objects
  <2> QED
    OBVIOUS
<1> HIDE DEF objects, now, s
<1>3. s = made(objects, rules)
  <2> HIDE DEF made
  <2> QED
    BY <1>1, <1>2 DEF TheOne
<1>4. s.list = rules /\ s.db = mark_usage(objects, rules) /\ s.opt = now
  BY <1>3
<1> HIDE DEF rules
<1>5. s.list = rules /\ s.db = mark_usage(objects, s.list) /\ s.opt = now
  BY <1>4
<1> QED
  BY <1>5 DEF objects, now, rules, s

\* What there is under the name of an authority is null.
LEMMA AuthoritiesNull ==
    ASSUME NEW d, DbOK(d), NEW n
    PROVE  ~Present(d["tls_ca"], n)
<1>1. "tls_ca" \in Sections
  BY DEF Sections
<1>2. \A v : ~ValOK("tls_ca", v)
  BY DEF ValOK
<1> QED
  BY <1>1, <1>2 DEF DbOK, ObjOK, Present

\* A process that has loaded a file runs with it.
LEMMA ConfigLoaded ==
    ASSUME NEW file, FileOK(file), NEW d, DbOK(d), NEW o, NEW starting \in BOOLEAN,
           starting => \A sec \in Sections : \A n \in DOMAIN file.obj[sec] :
                           Present(d[sec], n) => Loadable(sec, file.obj[sec][n])
    PROVE  /\ load_config(file, d, o, starting).cfg = file
           /\ DOMAIN load_config(file, d, o, starting) = {"cfg", "db", "list", "opt"}
           /\ LET s == load_config(file, d, o, starting) IN Running(file, file, s.db, s.list)
<1> DEFINE before == IF starting THEN d ELSE cleanup(d)
           objects == LoadObjects(before, file.obj)
           rules == load_db_policy(objects, file.policy)
           s == load_config(file, d, o, starting)
<1>1. DbOK(before)
  BY DEF DbOK, cleanup, NoFields
<1>1a. \A sec \in Sections : \A n \in DOMAIN file.obj[sec] : Present(before[sec], n) => Loadable(sec, file.obj[sec][n])
  <2>1. CASE starting
    BY <2>1
  <2>2. CASE ~starting
    <3>1. \A sec \in Sections : sec \notin {"routing", "tls_ca"} => before[sec] = NoFields
      BY <2>2 DEF cleanup
    <3>2. \A e : Loadable("routing", e)
      BY DEF Loadable, LoadEntry, load_db_routing
    <3>3. \A n : ~Present(NoFields, n)
      BY DEF Present, NoFields
    <3>4. \A n : ~Present(before["tls_ca"], n)
      BY <1>1, AuthoritiesNull
    <3> HIDE DEF before
    <3> QED
      BY <3>1, <3>2, <3>3, <3>4
  <2> QED
    BY <2>1, <2>2
<1> HIDE DEF before
<1>2. DbOK(objects) /\ Current(file, objects)
  BY <1>1, <1>1a, ObjectsLoaded, ObjectsCurrent
<1>3. /\ s.cfg = file
      /\ DOMAIN s = {"cfg", "db", "list", "opt"}
      /\ s.list = rules
      /\ s.db = mark_usage(objects, rules)
  <2>1. before = IF starting THEN d ELSE cleanup(d)
    BY DEF before
  <2>2. objects = LoadObjects(before, file.obj) /\ rules = load_db_policy(objects, file.policy) /\ s = load_config(file, d, o, starting)
    OBVIOUS
  <2> HIDE DEF objects, rules, s
  <2> QED
    BY <2>1, <2>2, ConfigMade
<1> HIDE DEF objects, s
<1>4. Running(file, file, mark_usage(objects, rules), rules)
  BY <1>2, PolicyApplied
<1> HIDE DEF rules
<1>5. Running(file, file, s.db, s.list)
  BY <1>3, <1>4
<1> QED
  BY <1>3, <1>5 DEF s

\* What is saved is a file that can be read.
LEMMA SavedReadable ==
    ASSUME NEW d, DbOK(d), NEW l, ListOK(l), NEW o
    PROVE  FileOK(save_config(d, l, o))
<1> DEFINE named(sec) == {n \in DOMAIN d[sec] : ~d[sec][n].null}
           obj == [sec \in Sections |-> [n \in named(sec) |-> SaveObject(sec, d[sec][n].val)]]
           policy == [i \in 1..Len(l) |-> save_policy(l[i])]
           file == save_config(d, l, o)
           x == SaveOptions(o)
           v == SCHEMA_VERSION
<1>1. file = [obj |-> obj, policy |-> policy, opt |-> x, schema |-> v, version |-> "current"]
  BY DEF save_config
<1> HIDE DEF file, obj, policy, x, v
<1>2. Shape(file) /\ file.obj = obj /\ file.policy = policy
  BY <1>1 DEF Shape
<1>3. DOMAIN obj = Sections /\ \A sec \in Sections : obj[sec] = [n \in named(sec) |-> SaveObject(sec, d[sec][n].val)]
  BY DEF obj
<1>4. \A sec \in Sections : \A n \in named(sec) : ObjOK(sec, n, d[sec][n]) /\ ~d[sec][n].null
  BY DEF DbOK
<1>5. \A sec \in Sections : "" \notin DOMAIN obj[sec]
  BY <1>3, <1>4 DEF ObjOK
<1>6. policy \in Seq(Range(policy))
  <2>1. Len(l) \in Nat
    <3>1. l \in Seq(Range(l))
      BY DEF ListOK
    <3> QED
      BY <3>1
  <2>2. DOMAIN policy = 1..Len(l) /\ policy = [i \in 1..Len(l) |-> policy[i]]
    BY DEF policy
  <2> QED
    BY <2>1, <2>2 DEF Range
<1>6a. \A i \in DOMAIN policy : Grouped(policy[i])
  <2>1. \A r : DOMAIN save_policy(r) = {"disabled", "proto", "action", "nat", "routing"} \cup GroupFields \cup DOMAIN r.prof
    BY DEF save_policy
  <2>2. \A r : Grouped(save_policy(r))
    BY <2>1 DEF Grouped, Has, GroupFields
  <2> QED
    BY <2>2 DEF policy
<1>7. ASSUME NEW n \in DOMAIN obj["port_objects"]
      PROVE  Numbered(obj["port_objects"][n], {"start", "end"})
  <2>1. n \in named("port_objects") /\ obj["port_objects"][n] = SaveObject("port_objects", d["port_objects"][n].val)
    BY <1>3 DEF Sections
  <2>1a. \A w : SaveObject("port_objects", w) = w
    BY DEF SaveObject, save_port_objects
  <2>2. obj["port_objects"][n] = d["port_objects"][n].val
    BY <2>1, <2>1a, SMTT(30)
  <2>3. d["port_objects"][n].val.start \in Int /\ d["port_objects"][n].val.end \in Int
    BY <1>4, <2>1 DEF ObjOK, ValOK, Sections
  <2> QED
    BY <2>2, <2>3 DEF Numbered
<1>8. ASSUME NEW n \in DOMAIN obj["proto_objects"]
      PROVE  Numbered(obj["proto_objects"][n], {"id"})
  <2>1. n \in named("proto_objects") /\ obj["proto_objects"][n] = SaveObject("proto_objects", d["proto_objects"][n].val)
    BY <1>3 DEF Sections
  <2>1a. \A w : SaveObject("proto_objects", w) = w
    BY DEF SaveObject, save_proto_objects
  <2>2. obj["proto_objects"][n] = d["proto_objects"][n].val
    BY <2>1, <2>1a
  <2>3. d["proto_objects"][n].val.id \in Int
    <3>1. d["proto_objects"][n].val.id \in 0..255
      BY <1>4, <2>1 DEF ObjOK, ValOK, Sections
    <3>2. 0..255 \subseteq Int
      OBVIOUS
    <3> QED
      BY <3>1, <3>2, ZenonT(40)
  <2> QED
    BY <2>2, <2>3 DEF Numbered
<1> QED
  BY <1>2, <1>3, <1>5, <1>6, <1>6a, <1>7, <1>8 DEF FileOK, file

\* Every entry that is written is accepted again, and in the sections that are
\* written in full it gives the same object.
LEMMA SavedLoads ==
    ASSUME NEW sec \in Sections, NEW v, ValOK(sec, v)
    PROVE  /\ Loadable(sec, SaveObject(sec, v))
           /\ sec \in FullSections => \A d : LoadEntry(d, sec, SaveObject(sec, v)) = {v}
<1>1. ASSUME sec \in FullSections, NEW d
      PROVE  LoadEntry(d, sec, SaveObject(sec, v)) = {v}
  <2>1. CASE sec = "address_objects"
    <3> DEFINE x == IF v.type = "cidr" THEN CidrText[v.value] ELSE v.value
               e == [type |-> v.type, value |-> x]
    <3>1. SaveObject(sec, v) = e /\ LoadEntry(d, sec, e) = load_db_address(e)
      BY <2>1 DEF SaveObject, save_address_objects, LoadEntry
    <3>2. /\ v = [type |-> v.type, value |-> v.value] /\ v.type \in {"cidr", "fqdn"}
          /\ v.type = "cidr" => v.value \in KnownBlocks
      BY <2>1 DEF ValOK
    <3>3. v.value = IF v.type = "cidr" THEN CidrAddress(x) ELSE x
      BY <3>2, CidrTextAssumption
    <3> HIDE DEF x
    <3>4. load_if_exists(e, "type", "") = v.type /\ Has(e, {"value"}) /\ e.value = x
      BY DEF load_if_exists, Has
    <3> HIDE DEF e
    <3>5. load_db_address(e) = {CfgAddress(t, x) : t \in {v.type} \cap {"cidr", "fqdn"}}
      BY <3>4 DEF load_db_address
    <3>6. {v.type} \cap {"cidr", "fqdn"} = {v.type}
      BY <3>2
    <3>7. load_db_address(e) = {CfgAddress(v.type, x)}
      BY <3>5, <3>6
    <3>8. CfgAddress(v.type, x) = v
      BY <3>2, <3>3, AddressMade
    <3> QED
      BY <3>1, <3>7, <3>8
  <2>2. CASE sec = "port_objects"
    <3>1. SaveObject(sec, v) = v /\ LoadEntry(d, sec, v) = load_db_port(v)
      BY <2>2 DEF SaveObject, save_port_objects, LoadEntry
    <3>2. v = [start |-> v.start, end |-> v.end] /\ v.start <= v.end
      BY <2>2 DEF ValOK
    <3>3. DOMAIN v = {"start", "end"}
      BY <3>2
    <3>4. Has(v, {"start", "end"})
      BY <3>3 DEF Has
    <3>5. load_db_port(v) = {[start |-> v.start, end |-> v.end]}
      BY <3>2, <3>4 DEF load_db_port
    <3> QED
      BY <3>1, <3>2, <3>5
  <2>3. CASE sec = "proto_objects"
    <3>1. SaveObject(sec, v) = v /\ LoadEntry(d, sec, v) = load_db_proto(v)
      BY <2>3 DEF SaveObject, save_proto_objects, LoadEntry
    <3>2. v = [id |-> v.id] /\ v.id \in 0..255
      BY <2>3 DEF ValOK
    <3>3. Has(v, {"id"})
      BY <3>2 DEF Has
    <3>4. v.id % 256 = v.id
      BY <3>2
    <3>5. load_db_proto(v) = {[id |-> v.id]}
      BY <3>3, <3>4 DEF load_db_proto
    <3> QED
      BY <3>1, <3>2, <3>5
  <2>4. CASE sec = "detection_profiles"
    <3>1. SaveObject(sec, v) = v /\ LoadEntry(d, sec, v) = load_db_prof_detection(v)
      BY <2>4 DEF SaveObject, save_detection_profiles, LoadEntry
    <3>2. v = [f \in DOMAIN ProfileDetection |-> v[f]]
      BY <2>4 DEF ValOK
    <3>3. "mode" \in DOMAIN ProfileDetection
      BY DEF ProfileDetection
    <3>4. DOMAIN v = DOMAIN ProfileDetection
      BY <3>2
    <3>5. Has(v, {"mode"})
      BY <3>3, <3>4 DEF Has
    <3>6. Filled(v, ProfileDetection) = [f \in DOMAIN ProfileDetection |-> v[f]]
      BY <3>4 DEF Filled, load_if_exists
    <3>7. load_db_prof_detection(v) = {v}
      BY <3>2, <3>5, <3>6 DEF load_db_prof_detection
    <3> QED
      BY <3>1, <3>7
  <2>5. CASE sec = "alg_dns_profiles"
    <3>1. SaveObject(sec, v) = v /\ LoadEntry(d, sec, v) = load_db_prof_alg_dns(v)
      BY <2>5 DEF SaveObject, save_alg_dns_profiles, LoadEntry
    <3>2. v = [f \in DOMAIN ProfileAlgDns |-> v[f]]
      BY <2>5 DEF ValOK
    <3>3. DOMAIN v = DOMAIN ProfileAlgDns
      BY <3>2
    <3>4. Filled(v, ProfileAlgDns) = [f \in DOMAIN ProfileAlgDns |-> v[f]]
      BY <3>3 DEF Filled, load_if_exists
    <3>5. load_db_prof_alg_dns(v) = {v}
      BY <3>2, <3>4 DEF load_db_prof_alg_dns
    <3> QED
      BY <3>1, <3>5
  <2>6. CASE sec = "tls_profiles"
    <3> DEFINE arrays == {"sni_filter_bypass", "redirect_warning_ports"}
               left == {f \in DOMAIN v : f \in arrays => v[f] # <<>>}
               w == Restrict(v, left)
    <3>1. SaveObject(sec, v) = w /\ LoadEntry(d, sec, w) = load_db_prof_tls(w)
      BY <2>6 DEF SaveObject, save_tls_profiles, LoadEntry
    <3>2. v = [f \in DOMAIN ProfileTls |-> v[f]]
      BY <2>6 DEF ValOK
    <3>3. /\ "inspect" \in DOMAIN ProfileTls
          /\ ProfileTls["sni_filter_bypass"] = <<>> /\ ProfileTls["redirect_warning_ports"] = <<>>
      BY DEF ProfileTls
    <3>4. DOMAIN v = DOMAIN ProfileTls
      BY <3>2
    <3>5. w = [f \in left |-> v[f]] /\ "inspect" \in left
      BY <3>3, <3>4 DEF Restrict
    <3> HIDE DEF w
    <3>6. DOMAIN w = left /\ \A f \in left : w[f] = v[f]
      BY <3>5
    <3>7. ASSUME NEW f \in DOMAIN ProfileTls
          PROVE  load_if_exists(w, f, ProfileTls[f]) = v[f]
      <4>1. CASE f \in left
        BY <3>6, <4>1 DEF load_if_exists
      <4>2. CASE f \notin left
        <5>1. f \in arrays /\ v[f] = <<>>
          BY <3>4, <4>2
        <5>2. ProfileTls[f] = <<>>
          BY <3>3, <5>1
        <5> QED
          BY <3>6, <4>2, <5>1, <5>2 DEF load_if_exists
      <4> QED
        BY <4>1, <4>2
    <3> HIDE DEF left
    <3>8. Filled(w, ProfileTls) = [f \in DOMAIN ProfileTls |-> v[f]]
      BY <3>7 DEF Filled
    <3>9. Has(w, {"inspect"})
      BY <3>5, <3>6 DEF Has
    <3>10. load_db_prof_tls(w) = {v}
      BY <3>2, <3>8, <3>9 DEF load_db_prof_tls
    <3> QED
      BY <3>1, <3>10
  <2> QED
    BY <1>1, <2>1, <2>2, <2>3, <2>4, <2>5, <2>6 DEF FullSections
<1>2. CASE sec \in FullSections
  <2>1. LoadEntry(EmptyDb, sec, SaveObject(sec, v)) = {v}
    BY <1>1, <1>2
  <2> QED
    BY <1>1, <2>1 DEF Loadable
<1>3. CASE sec = "content_profiles"
  <2>1. SaveObject(sec, v) = save_content_profiles(v) /\ LoadEntry(EmptyDb, sec, save_content_profiles(v)) = load_db_prof_content(save_content_profiles(v))
    BY <1>3 DEF SaveObject, LoadEntry
  <2>2. "write_payload" \in DOMAIN v
    BY <1>3 DEF ValOK
  <2>3. DOMAIN save_content_profiles(v) = DOMAIN v
    BY DEF save_content_profiles
  <2>4. Has(save_content_profiles(v), {"write_payload"})
    BY <2>2, <2>3 DEF Has
  <2>5. load_db_prof_content(save_content_profiles(v)) # {}
    BY <2>4 DEF load_db_prof_content
  <2> QED
    BY <1>3, <2>1, <2>5 DEF Loadable, FullSections
<1>4. CASE sec \in {"auth_profiles", "routing"}
  <2>1. \A e : Loadable(sec, e)
    BY <1>4 DEF Loadable, LoadEntry, load_db_prof_auth, load_db_routing
  <2> QED
    BY <1>4, <2>1 DEF FullSections
<1>5. CASE sec = "tls_ca"
  BY <1>5 DEF ValOK
<1> QED
  BY <1>2, <1>3, <1>4, <1>5 DEF Sections, FullSections

\* The entries that are written.
LEMMA SavedEntries ==
    ASSUME NEW d, NEW l, NEW o, NEW sec \in Sections
    PROVE  /\ DOMAIN save_config(d, l, o).obj[sec] = {n \in DOMAIN d[sec] : ~d[sec][n].null}
           /\ \A n \in DOMAIN d[sec] : ~d[sec][n].null =>
                 save_config(d, l, o).obj[sec][n] = SaveObject(sec, d[sec][n].val)
<1> DEFINE named(s) == {n \in DOMAIN d[s] : ~d[s][n].null}
           obj == [s \in Sections |-> [n \in named(s) |-> SaveObject(s, d[s][n].val)]]
<1>1. save_config(d, l, o).obj = obj
  BY DEF save_config
<1>2. obj[sec] = [n \in named(sec) |-> SaveObject(sec, d[sec][n].val)]
  OBVIOUS
<1> QED
  BY <1>1, <1>2

LEMMA SavedAccepted ==
    ASSUME NEW d, DbOK(d), NEW l, NEW o
    PROVE  \A sec \in Sections : \A n \in DOMAIN save_config(d, l, o).obj[sec] :
               Loadable(sec, save_config(d, l, o).obj[sec][n])
<1> SUFFICES ASSUME NEW sec \in Sections, NEW n \in DOMAIN save_config(d, l, o).obj[sec]
             PROVE  Loadable(sec, save_config(d, l, o).obj[sec][n])
  OBVIOUS
<1>1. n \in DOMAIN d[sec] /\ ~d[sec][n].null
  BY SavedEntries
<1>2. save_config(d, l, o).obj[sec][n] = SaveObject(sec, d[sec][n].val)
  BY <1>1, SavedEntries
<1>3. ValOK(sec, d[sec][n].val)
  BY <1>1 DEF DbOK, ObjOK
<1> QED
  BY <1>2, <1>3, SavedLoads

\* How a process comes up with s, what it read of the file.
BootOf(file, s, b) ==
    LET o == Upgraded(file, s.opt)
        new == save_config(s.db, s.list, o)
    IN  \/ b = [run |-> s, disk |-> file, saved |-> <<>>]
        \/ b = [run |-> [s EXCEPT !.opt = o], disk |-> file, saved |-> <<>>]
        \/ b = [run |-> load_config(new, s.db, o, TRUE), disk |-> new,
                saved |-> <<[db |-> s.db, list |-> s.list, opt |-> o]>>]

LEMMA BootCases ==
    ASSUME NEW file, NEW b \in Boot(file)
    PROVE  BootOf(file, load_config(file, EmptyDb, [p \in {} |-> ""], TRUE), b)
<1> DEFINE s == load_config(file, EmptyDb, [p \in {} |-> ""], TRUE)
           old == UpToDate(file)
           o == Upgraded(file, s.opt)
           new == save_config(s.db, s.list, o)
           first == [run |-> s, disk |-> file, saved |-> <<>>]
           unwritten(x) == [run |-> [s EXCEPT !.opt = x], disk |-> file, saved |-> <<>>]
           written(x, y) == [run |-> load_config(y, s.db, x, TRUE), disk |-> y,
                             saved |-> <<[db |-> s.db, list |-> s.list, opt |-> x]>>]
<1>1. b \in upgrade_and_save(file, s)
  <2>1. b \in UNION {upgrade_and_save(file, x) : x \in {s}}
    BY DEF Boot
  <2> HIDE DEF s
  <2> QED
    BY <2>1
<1> HIDE DEF s
<1>2. b \in IF old THEN {first}
            ELSE UNION {{unwritten(x)} \cup {written(x, y) : y \in {save_config(s.db, s.list, x)}} : x \in {o}}
  BY <1>1 DEF upgrade_and_save
<1>3. b = first \/ b = unwritten(o) \/ b = written(o, new)
  <2> HIDE DEF first, unwritten, written, old, o
  <2> QED
    BY <1>2
<1>4. BootOf(file, s, b)
  BY <1>3 DEF BootOf
<1> QED
  BY <1>4 DEF s

\* However a process starts from a file, with or without upgrade, whether the
\* new file can be written or not, it runs and leaves a file that can be read.
LEMMA BootRuns ==
    ASSUME NEW file, FileOK(file), NEW b \in Boot(file)
    PROVE  /\ FileOK(b.disk)
           /\ Running(b.run.cfg, b.run.cfg, b.run.db, b.run.list)
<1> DEFINE none == [p \in {} |-> ""]
           s == load_config(file, EmptyDb, none, TRUE)
           o == Upgraded(file, s.opt)
           new == save_config(s.db, s.list, o)
           again == load_config(new, s.db, o, TRUE)
<1>1. DbOK(EmptyDb)
  BY DEF DbOK, EmptyDb, NoFields
<1>1a. \A sec \in Sections : \A n : ~Present(EmptyDb[sec], n)
  BY DEF EmptyDb, Present, NoFields
<1> HIDE DEF none
<1>2. s.cfg = file /\ DOMAIN s = {"cfg", "db", "list", "opt"} /\ Running(file, file, s.db, s.list)
  BY <1>1, <1>1a, ConfigLoaded
<1>4. \/ b = [run |-> s, disk |-> file, saved |-> <<>>]
      \/ b = [run |-> [s EXCEPT !.opt = o], disk |-> file, saved |-> <<>>]
      \/ b = [run |-> again, disk |-> new, saved |-> <<[db |-> s.db, list |-> s.list, opt |-> o]>>]
  <2>1. BootOf(file, s, b)
    BY BootCases DEF none
  <2> HIDE DEF s
  <2> QED
    BY <2>1 DEF BootOf
<1> HIDE DEF s
<1> HIDE DEF o
<1>5. DbOK(s.db) /\ ListOK(s.list)
  BY <1>2 DEF Running
<1>6. FileOK(new)
  BY <1>5, SavedReadable
<1>6a. \A sec \in Sections : \A n \in DOMAIN new.obj[sec] : Loadable(sec, new.obj[sec][n])
  BY <1>5, SavedAccepted
<1> HIDE DEF new
<1>7. again.cfg = new /\ Running(new, new, again.db, again.list)
  BY <1>5, <1>6, <1>6a, ConfigLoaded
<1> HIDE DEF again
<1>8. CASE b = [run |-> s, disk |-> file, saved |-> <<>>]
  BY <1>2, <1>8
<1>9. CASE b = [run |-> [s EXCEPT !.opt = o], disk |-> file, saved |-> <<>>]
  <2> DEFINE t == [s EXCEPT !.opt = o]
  <2>1. t.cfg = s.cfg /\ t.db = s.db /\ t.list = s.list
    BY <1>2
  <2> HIDE DEF t
  <2>2. b.run = t /\ b.disk = file
    BY <1>9 DEF t
  <2> QED
    BY <1>2, <2>1, <2>2
<1>10. CASE b = [run |-> again, disk |-> new, saved |-> <<[db |-> s.db, list |-> s.list, opt |-> o]>>]
  <2>1. b.run = again /\ b.disk = new
    BY <1>10
  <2> QED
    BY <1>6, <1>7, <2>1
<1> QED
  BY <1>4, <1>8, <1>9, <1>10

\* A field of an entry that is a number is written as a number.
LEMMA WrittenNumbered ==
    ASSUME NEW d, NEW sec, NEW e, NEW f, NEW args,
           NEW fields \in {{"start", "end"}, {"id"}}, Numbered(e, fields)
    PROVE  Numbered(cfg_write_value(d, sec, e, f, args).entry, fields)
<1> DEFINE first == IF args = <<>> THEN "" ELSE args[1]
           v == CHOOSE x \in write_value(d, sec, e, f, first) : TRUE
           w == cfg_write_value(d, sec, e, f, args)
<1>1. f \in {"start", "end", "id"} =>
          f \in IntFields /\ f \notin BoolFields /\ f \notin ListFields /\ f # "redirect_warning_ports"
  <2> SUFFICES ASSUME f \in {"start", "end", "id"}
               PROVE  f \in IntFields /\ f \notin BoolFields /\ f \notin ListFields /\ f # "redirect_warning_ports"
    OBVIOUS
  <2>1. f \in IntFields /\ f \notin ListFields /\ f # "redirect_warning_ports"
    BY DEF IntFields, ListFields
  <2>2. f \notin DOMAIN ProfileAlgDns
    BY DEF ProfileAlgDns
  <2>3. f \notin DOMAIN ProfileTls
    BY DEF ProfileTls
  <2>4. f \notin BoolFields
    BY <2>2, <2>3 DEF BoolFields
  <2> QED
    BY <2>1, <2>4
<1>2. \A x : make_int(x) \subseteq Int
  <2>1. \A t \in DOMAIN Numbers : Numbers[t] \in Int
    BY CfgObjectsAssumption
  <2> SUFFICES ASSUME NEW x PROVE make_int(x) \subseteq Int
    OBVIOUS
  <2>2. CASE x = ""
    <3>1. make_int(x) = {0}
      BY <2>2 DEF make_int
    <3>2. 0 \in Int
      OBVIOUS
    <3> QED
      BY <3>1, <3>2
  <2>3. CASE x # "" /\ x \in DOMAIN Numbers
    BY <2>1, <2>3 DEF make_int
  <2>4. CASE x # "" /\ x \notin DOMAIN Numbers
    BY <2>4 DEF make_int
  <2> QED
    BY <2>2, <2>3, <2>4
<1>3. f \in {"start", "end", "id"} => write_value(d, sec, e, f, first) \subseteq Int
  <2> HIDE DEF first
  <2> QED
    BY <1>1, <1>2 DEF write_value
<1>4. ASSUME NEW x, f \in fields => x \in Int
      PROVE  Numbered([e EXCEPT ![f] = x], fields)
  BY <1>4 DEF Numbered
<1>5. f \in fields => f \in {"start", "end", "id"}
  OBVIOUS
<1>6. CASE f = "redirect_warning_ports"
  <2>1. w.entry = [e EXCEPT ![f] = write_ports(e[f], args).new]
    BY <1>6 DEF cfg_write_value
  <2> QED
    BY <1>1, <1>4, <1>5, <1>6, <2>1
<1>7. CASE f # "redirect_warning_ports" /\ f \in ListFields
  <2>1. w.entry = e \/ w.entry = [e EXCEPT ![f] = args]
    BY <1>7 DEF cfg_write_value
  <2> QED
    BY <1>1, <1>4, <1>5, <1>7, <2>1
<1>8. CASE f # "redirect_warning_ports" /\ f \notin ListFields
  <2>1. CASE write_value(d, sec, e, f, first) = {}
    <3>1. w.entry = e
      BY <1>8, <2>1 DEF cfg_write_value
    <3> QED
      BY <3>1
  <2>2. CASE write_value(d, sec, e, f, first) # {}
    <3>1. w.entry = [e EXCEPT ![f] = v]
      BY <1>8, <2>2 DEF cfg_write_value
    <3>2. v \in write_value(d, sec, e, f, first)
      BY <2>2
    <3> HIDE DEF v, first, w
    <3>3. f \in fields => v \in Int
      BY <1>3, <1>5, <3>2
    <3>4. Numbered([e EXCEPT ![f] = v], fields)
      BY <1>4, <3>3
    <3> QED
      BY <3>1, <3>4 DEF w
  <2> QED
    BY <2>1, <2>2
<1> QED
  BY <1>6, <1>7, <1>8

-----------------------------------------------------------------------------
(* Edits of the tree.                                                      *)

\* The tree with other entries in a section.
Put(c, sec, entries) == [c EXCEPT !.obj[sec] = entries]
SectionOf(c, sec) == c.obj[sec]

\* The registries with one of them emptied.
Emptied(d, sec) == [d EXCEPT ![sec] = NoFields]

\* It is a proper tree, and other sections and the policy are as before.
LEMMA SectionPut ==
    ASSUME NEW c, FileOK(c), NEW sec \in Sections, NEW entries, EntriesOK(sec, entries),
           NEW t, t = Put(c, sec, entries)
    PROVE  /\ FileOK(t)
           /\ SectionOf(t, sec) = entries
           /\ \A s \in Sections : s # sec => SectionOf(t, s) = SectionOf(c, s)
<1> DEFINE a == c.obj
           b == c.policy
           x == c.opt
           y == c.schema
           z == c.version
           obj == [a EXCEPT ![sec] = entries]
           new == t
<1>1. c = [obj |-> a, policy |-> b, opt |-> x, schema |-> y, version |-> z]
  BY DEF FileOK, Shape
<1>2. new = [c EXCEPT !.obj = obj]
  BY DEF Put
<1>3. /\ DOMAIN a = Sections
      /\ \A s \in Sections : EntriesOK(s, a[s])
      /\ b \in Seq(Range(b)) /\ \A i \in DOMAIN b : Grouped(b[i])
  BY SectionOK DEF FileOK
<1> HIDE DEF a, b, x, y, z, new
<1>4. DOMAIN obj = Sections /\ \A s \in Sections : obj[s] = IF s = sec THEN entries ELSE a[s]
  BY <1>3
<1> HIDE DEF obj
<1>5. new = [obj |-> obj, policy |-> b, opt |-> x, schema |-> y, version |-> z]
  BY <1>1, <1>2
<1>6. Shape(new) /\ new.obj = obj /\ new.policy = b
  BY <1>5 DEF Shape
<1>7. \A s \in Sections : EntriesOK(s, obj[s])
  BY <1>3, <1>4
<1>8. {"port_objects", "proto_objects"} \subseteq Sections
  BY DEF Sections
<1>9. FileOK(new)
  BY <1>3, <1>4, <1>6, <1>7, <1>8 DEF FileOK, EntriesOK
<1>10. new.obj[sec] = entries /\ \A s \in Sections : s # sec => new.obj[s] = c.obj[s]
  BY <1>4, <1>6 DEF a
<1> QED
  BY <1>9, <1>10 DEF new, SectionOf

\* The same for the tree of the process.
LEMMA TreePut ==
    ASSUME FileOK(cfg), NEW sec \in Sections, NEW entries, EntriesOK(sec, entries),
           cfg' = Put(cfg, sec, entries)
    PROVE  /\ FileOK(cfg')
           /\ SectionOf(cfg', sec) = entries
           /\ \A s \in Sections : s # sec => SectionOf(cfg', s) = SectionOf(cfg, s)
<1>1. FileOK(cfg')
  BY SectionPut
<1>2. SectionOf(cfg', sec) = entries
  BY SectionPut
<1>3. \A s \in Sections : s # sec => SectionOf(cfg', s) = SectionOf(cfg, s)
  BY SectionPut
<1> QED
  BY <1>1, <1>2, <1>3

\* The entries of the policy have their groups.
LEMMA PolicyGrouped ==
    ASSUME NEW c, FileOK(c)
    PROVE  \A e \in Range(c.policy) : Grouped(e)
BY DEF FileOK, Range

\* Putting a list in the place of the policy.
LEMMA PolicyPut ==
    ASSUME NEW c, FileOK(c), NEW S, NEW p \in Seq(S), \A e \in S : Grouped(e)
    PROVE  FileOK([c EXCEPT !.policy = p]) /\ [c EXCEPT !.policy = p].obj = c.obj
<1> DEFINE a == c.obj
           b == c.policy
           x == c.opt
           y == c.schema
           z == c.version
           new == [c EXCEPT !.policy = p]
<1>1. c = [obj |-> a, policy |-> b, opt |-> x, schema |-> y, version |-> z]
  BY DEF FileOK, Shape
<1> HIDE DEF a, b, x, y, z
<1>2. new = [obj |-> a, policy |-> p, opt |-> x, schema |-> y, version |-> z]
  BY <1>1
<1> HIDE DEF new
<1>3. Shape(new) /\ new.obj = a /\ new.policy = p
  BY <1>2 DEF Shape
<1>4. p \in Seq(Range(p))
  <2>1. DOMAIN p = 1..Len(p) /\ Len(p) \in Nat /\ p = [i \in 1..Len(p) |-> p[i]]
    OBVIOUS
  <2> QED
    BY <2>1 DEF Range
<1>4a. \A i \in DOMAIN p : Grouped(p[i])
  OBVIOUS
<1>5. FileOK(new)
  BY <1>3, <1>4, <1>4a DEF FileOK, a
<1> QED
  BY <1>3, <1>5 DEF new, a

\* Setting an option.
LEMMA OptionPut ==
    ASSUME NEW c, Shape(c), NEW o
    PROVE  /\ Shape([c EXCEPT !.opt = o])
           /\ [c EXCEPT !.opt = o].obj = c.obj
           /\ [c EXCEPT !.opt = o].policy = c.policy
           /\ FileOK(c) => FileOK([c EXCEPT !.opt = o])
<1> DEFINE a == c.obj
           b == c.policy
           x == c.opt
           y == c.schema
           z == c.version
           new == [c EXCEPT !.opt = o]
<1>1. c = [obj |-> a, policy |-> b, opt |-> x, schema |-> y, version |-> z]
  BY DEF Shape
<1> HIDE DEF a, b, x, y, z
<1>2. new = [obj |-> a, policy |-> b, opt |-> o, schema |-> y, version |-> z]
  BY <1>1
<1> HIDE DEF new
<1>3. Shape(new) /\ new.obj = a /\ new.policy = b
  BY <1>2 DEF Shape
<1>4. FileOK(c) => FileOK(new)
  BY <1>3 DEF FileOK, a, b
<1> QED
  BY <1>3, <1>4 DEF new, a, b

\* A section that is emptied and loaded is up to date with the tree, if the
\* others were.
LEMMA SectionRenewed ==
    ASSUME NEW c, NEW t, NEW d, DbOK(d), Current(c, d), NEW sec \in Sections,
           \A s \in Sections : s # sec => SectionOf(t, s) = SectionOf(c, s),
           NEW e, e = Emptied(d, sec)
    PROVE  Current(t, LoadSection(e, sec, t.obj[sec]))
<1> DEFINE new == LoadSection(e, sec, t.obj[sec])
<1>1. DOMAIN e = Sections /\ e[sec] = NoFields /\ \A s \in Sections : s # sec => e[s] = d[s]
  BY DEF DbOK, Emptied
<1>2. new[sec] = Objects(e, sec, t.obj[sec]) /\ \A s \in Sections : s # sec => new[s] = e[s]
  BY <1>1, SectionStep
<1>3. \A n : ~Present(e[sec], n)
  BY <1>1 DEF Present, NoFields
<1>4. CurrentIn(sec, t.obj[sec], Objects(e, sec, t.obj[sec]))
  BY <1>3, SectionCurrent
<1> HIDE DEF new
<1>5. \A s \in Sections : CurrentIn(s, t.obj[s], new[s])
  BY <1>1, <1>2, <1>4 DEF Current, SectionOf
<1> QED
  BY <1>5 DEF Current, new

\* A new entry is accepted (but nothing ever is in tls_ca).
LEMMA NewLoads ==
    ASSUME NEW sec \in Sections, sec # "tls_ca"
    PROVE  Loadable(sec, NewEntry(sec))
<1>1. CASE sec = "address_objects"
  <2>1. NewEntry(sec) = new_address_object /\ LoadEntry(EmptyDb, sec, new_address_object) = load_db_address(new_address_object)
    BY <1>1 DEF NewEntry, LoadEntry
  <2>2. DOMAIN new_address_object = {"type", "value"} /\ new_address_object.type = "cidr"
    BY DEF new_address_object
  <2>3. Has(new_address_object, {"value"}) /\ load_if_exists(new_address_object, "type", "") = "cidr"
    BY <2>2 DEF Has, load_if_exists
  <2>4. load_db_address(new_address_object) # {}
    BY <2>3 DEF load_db_address
  <2> QED
    BY <2>1, <2>4 DEF Loadable
<1>2. CASE sec = "port_objects"
  <2>1. NewEntry(sec) = new_port_object /\ LoadEntry(EmptyDb, sec, new_port_object) = load_db_port(new_port_object)
    BY <1>2 DEF NewEntry, LoadEntry
  <2>2. Has(new_port_object, {"start", "end"})
    BY DEF new_port_object, Has
  <2>3. load_db_port(new_port_object) # {}
    BY <2>2 DEF load_db_port
  <2> QED
    BY <2>1, <2>3 DEF Loadable
<1>3. CASE sec = "proto_objects"
  <2>1. NewEntry(sec) = new_proto_object /\ LoadEntry(EmptyDb, sec, new_proto_object) = load_db_proto(new_proto_object)
    BY <1>3 DEF NewEntry, LoadEntry
  <2>2. Has(new_proto_object, {"id"})
    BY DEF new_proto_object, Has
  <2> QED
    BY <2>1, <2>2 DEF Loadable, load_db_proto
<1>4. CASE sec = "detection_profiles"
  <2>1. NewEntry(sec) = new_detection_profile
    BY <1>4 DEF NewEntry
  <2>2. Has(new_detection_profile, {"mode"})
    BY DEF new_detection_profile, Has
  <2> QED
    BY <1>4, <2>1, <2>2 DEF Loadable, LoadEntry, load_db_prof_detection
<1>5. CASE sec = "content_profiles"
  <2>1. NewEntry(sec) = new_content_profile
    BY <1>5 DEF NewEntry
  <2>2. Has(new_content_profile, {"write_payload"})
    BY DEF new_content_profile, Has
  <2> QED
    BY <1>5, <2>1, <2>2 DEF Loadable, LoadEntry, load_db_prof_content
<1>6. CASE sec = "tls_profiles"
  <2>1. NewEntry(sec) = new_tls_profile
    BY <1>6 DEF NewEntry
  <2> DEFINE left == DOMAIN ProfileTls \ {"alpn_block"}
  <2>2. "inspect" \in left
    BY DEF ProfileTls
  <2> HIDE DEF left
  <2>3. DOMAIN Restrict(ProfileTls, left) = left
    BY DEF Restrict
  <2>4. DOMAIN new_tls_profile = DOMAIN Restrict(ProfileTls, left)
    BY DEF new_tls_profile, left
  <2>5. Has(new_tls_profile, {"inspect"})
    BY <2>2, <2>3, <2>4 DEF Has
  <2> QED
    BY <1>6, <2>1, <2>5 DEF Loadable, LoadEntry, load_db_prof_tls
<1>7. CASE sec \in {"alg_dns_profiles", "auth_profiles", "routing"}
  BY <1>7 DEF Loadable, LoadEntry, load_db_prof_alg_dns, load_db_prof_auth, load_db_routing
<1> QED
  BY <1>1, <1>2, <1>3, <1>4, <1>5, <1>6, <1>7 DEF Sections

\* A command that is refused changes ports at most.
LEMMA RefusedWrites ==
    ASSUME NEW d, NEW sec, NEW e, NEW f, NEW args, ~cfg_write_value(d, sec, e, f, args).ok
    PROVE  Same(cfg_write_value(d, sec, e, f, args).entry, e)
<1> DEFINE w == cfg_write_value(d, sec, e, f, args)
<1>1. CASE f = "redirect_warning_ports"
  <2>1. w.entry = [e EXCEPT ![f] = write_ports(e[f], args).new]
    BY <1>1 DEF cfg_write_value
  <2> HIDE DEF w
  <2>2. Same(w.entry, e)
    BY <1>1, <2>1 DEF Same
  <2> QED
    BY <2>2 DEF w
<1>2. CASE f # "redirect_warning_ports"
  <2>1. w.entry = e
    <3> DEFINE first == IF args = <<>> THEN "" ELSE args[1]
               Ok == \A i \in DOMAIN args : value_check(d, sec, f, args[i])
               vals == write_value(d, sec, e, f, first)
    <3>1. w = IF f \in ListFields
              THEN IF Ok THEN [ok |-> TRUE, entry |-> [e EXCEPT ![f] = args]] ELSE [ok |-> FALSE, entry |-> e]
              ELSE IF vals = {} THEN [ok |-> FALSE, entry |-> e]
              ELSE [ok |-> TRUE, entry |-> [e EXCEPT ![f] = CHOOSE v \in vals : TRUE]]
      BY <1>2 DEF cfg_write_value
    <3> HIDE DEF first, Ok, vals
    <3>2. ~w.ok
      OBVIOUS
    <3> HIDE DEF w
    <3>3. w = [ok |-> FALSE, entry |-> e]
      BY <3>1, <3>2
    <3> QED
      BY <3>3
  <2> QED
    BY <2>1 DEF Same
<1> QED
  BY <1>1, <1>2

\* The same verdict is owed as before when names only came in.
LEMMA StillDecided ==
    ASSUME NEW c, NEW t, NEW f, NEW d, NEW e, NEW l, Grown(c, f), Grown(t, f), Current(c, d), Current(t, e),
           \A sec \in Sections : DOMAIN d[sec] \subseteq DOMAIN e[sec], Decided(f, d, l)
    PROVE  Decided(f, e, l)
<1>1. Current(f, d) /\ Current(f, e)
  BY CurrentGrown
<1>2. NoStrays(f, e) => NoStrays(f, d)
  BY <1>1, StraysStay
<1> QED
  BY <1>2 DEF Decided

-----------------------------------------------------------------------------
(* Every command preserves the invariant.                                  *)

\* A command counts.
LEMMA Counted ==
    ASSUME cmds \in 0..MaxCmds, NEW kind, Command(kind)
    PROVE  cmds' \in 0..MaxCmds
<1>1. MaxCmds \in Nat
  BY CfgObjectsAssumption
<1> QED
  BY <1>1 DEF Command

\* Making the rules again leaves everything fitting.
LEMMA Applied ==
    ASSUME NEW c, FileOK(c), NEW d, DbOK(d), Current(c, d), ApplyPolicy(c, d)
    PROVE  Running(cfg', filed', db', list')
<1>1. cfg' = c /\ filed' = c /\ list' = load_db_policy(d, c.policy) /\ db' = mark_usage(d, list')
  BY DEF ApplyPolicy
<1>2. db' = mark_usage(d, load_db_policy(d, c.policy))
  BY <1>1
<1> QED
  BY <1>1, <1>2, PolicyApplied

\* So does a start of the process.
LEMMA Crashed ==
    ASSUME FileOK(disk), Crash
    PROVE  Running(cfg', filed', db', list') /\ FileOK(disk')
<1>1. PICK b \in Boot(disk) : Up(b)
  BY DEF Crash
<1>2. FileOK(b.disk) /\ Running(b.run.cfg, b.run.cfg, b.run.db, b.run.list)
  BY BootRuns
<1> QED
  BY <1>1, <1>2 DEF Up

\* The first start.
LEMMA InitInv == Init => Inv
<1> SUFFICES ASSUME Init PROVE Inv
  OBVIOUS
<1>0. PICK file \in InitDisks : \E b \in Boot(file) :
          /\ cfg = b.run.cfg /\ db = b.run.db /\ list = b.run.list
          /\ disk = b.disk /\ filed = b.run.cfg /\ cmds = 0
  BY DEF Init
<1>1. PICK b \in Boot(file) :
          /\ cfg = b.run.cfg /\ db = b.run.db /\ list = b.run.list
          /\ disk = b.disk /\ filed = b.run.cfg /\ cmds = 0
  BY <1>0
<1>2. FileOK(file) /\ MaxCmds \in Nat
  BY CfgObjectsAssumption
<1>3. FileOK(b.disk) /\ Running(b.run.cfg, b.run.cfg, b.run.db, b.run.list)
  BY <1>2, BootRuns
<1> QED
  BY <1>1, <1>2, <1>3 DEF Inv

\* The entry of a new object has numbers where they belong.
LEMMA NewNumbered ==
    /\ Numbered(NewEntry("port_objects"), {"start", "end"})
    /\ Numbered(NewEntry("proto_objects"), {"id"})
<1>1. NewEntry("port_objects") = [start |-> 0, end |-> 65535] /\ NewEntry("proto_objects") = [id |-> 0]
  BY DEF NewEntry, new_port_object, new_proto_object
<1>2. Numbered([start |-> 0, end |-> 65535], {"start", "end"})
  BY DEF Numbered
<1>3. Numbered([id |-> 0], {"id"})
  BY DEF Numbered
<1> QED
  BY <1>1, <1>2, <1>3

\* `add <name>`.  The objects of the section are new and no rule is registered
\* with them, but then the tree has a name that filed does not have.
LEMMA AddInv ==
    ASSUME Inv, NEW sec \in Sections, NEW n, n # "", Add(sec, n)
    PROVE  Inv'
<1> DEFINE entries == [x \in DOMAIN cfg.obj[sec] \cup {n} |-> IF x = n THEN NewEntry(sec) ELSE cfg.obj[sec][x]]
<1>1. /\ Command("add") /\ n \notin DOMAIN cfg.obj[sec]
      /\ cfg' = [cfg EXCEPT !.obj[sec] = entries]
      /\ db' = LoadSection(db, sec, cfg'.obj[sec])
      /\ list' = list /\ disk' = disk /\ filed' = filed
  BY DEF Add
<1>2. /\ FileOK(cfg) /\ DbOK(db) /\ Grown(cfg, filed) /\ Backed(list, db) /\ Registered(cfg, filed, list, db)
      /\ Current(cfg, db) /\ Decided(filed, db, list)
  BY DEF Inv, Running
<1>3. EntriesOK(sec, cfg.obj[sec])
  BY <1>2, SectionOK
<1>4. DOMAIN entries = DOMAIN cfg.obj[sec] \cup {n}
  OBVIOUS
<1>4a. entries[n] = NewEntry(sec) /\ \A x \in DOMAIN cfg.obj[sec] : x # n => entries[x] = cfg.obj[sec][x]
  OBVIOUS
<1>5. EntriesOK(sec, entries)
  <2>1. /\ sec = "port_objects" => Numbered(NewEntry(sec), {"start", "end"})
        /\ sec = "proto_objects" => Numbered(NewEntry(sec), {"id"})
    BY NewNumbered
  <2> QED
    BY <1>3, <2>1 DEF EntriesOK
<1> HIDE DEF entries
<1>6. /\ FileOK(cfg') /\ cfg'.obj[sec] = entries
      /\ \A s \in Sections : s # sec => cfg'.obj[s] = cfg.obj[s]
  <2>1. FileOK(cfg)
    BY <1>2
  <2>2. cfg' = Put(cfg, sec, entries)
    BY <1>1 DEF Put
  <2>3. /\ FileOK(cfg')
        /\ SectionOf(cfg', sec) = entries
        /\ \A s \in Sections : s # sec => SectionOf(cfg', s) = SectionOf(cfg, s)
    BY <1>5, <2>1, <2>2, TreePut
  <2> QED
    BY <2>3 DEF SectionOf
<1>7. db' = LoadSection(db, sec, entries)
  BY <1>1, <1>6
<1>8. /\ DbOK(db')
      /\ \A s \in Sections : s # sec => db'[s] = db[s]
      /\ \A m \in DOMAIN db[sec] : m \in DOMAIN db'[sec] /\ (~db[sec][m].null => ~db'[sec][m].null)
  BY <1>2, <1>5, <1>7, SectionLoaded
<1>9. Backed(list', db')
  BY <1>1, <1>2, <1>8 DEF Backed
<1>10. Grown(cfg', filed)
  <2> SUFFICES ASSUME NEW s \in Sections, NEW m \in DOMAIN filed.obj[s]
               PROVE  m \in DOMAIN cfg'.obj[s] /\ Same(cfg'.obj[s][m], filed.obj[s][m])
    BY DEF Grown
  <2>1. m \in DOMAIN cfg.obj[s] /\ Same(cfg.obj[s][m], filed.obj[s][m])
    BY <1>2 DEF Grown
  <2>2. CASE s # sec
    BY <1>6, <2>1, <2>2
  <2>3. CASE s = sec
    <3>1. m # n
      BY <1>1, <2>1, <2>3
    <3>2. m \in DOMAIN entries /\ entries[m] = cfg.obj[s][m]
      BY <1>4, <1>4a, <2>1, <2>3, <3>1
    <3> QED
      BY <1>6, <2>1, <2>3, <3>2
  <2> QED
    BY <2>2, <2>3
<1>10a. Current(cfg', db')
  <2>1. ASSUME NEW m \in DOMAIN entries, Present(db[sec], m)
        PROVE  Loadable(sec, entries[m])
    <3>1. CASE m # n
      <4>1. m \in DOMAIN cfg.obj[sec] /\ entries[m] = cfg.obj[sec][m]
        BY <1>4, <1>4a, <3>1
      <4> QED
        BY <1>2, <2>1, <4>1 DEF Current, CurrentIn
    <3>2. CASE m = n /\ sec # "tls_ca"
      BY <1>4a, <3>2, NewLoads
    <3>3. CASE sec = "tls_ca"
      <4>1. ObjOK(sec, m, db[sec][m]) /\ ~db[sec][m].null
        BY <1>2, <2>1 DEF DbOK, Present
      <4> QED
        BY <3>3, <4>1 DEF ObjOK, ValOK
    <3> QED
      BY <3>1, <3>2, <3>3
  <2>2. CurrentIn(sec, entries, Objects(db, sec, entries))
    BY <2>1, SectionCurrent
  <2>3. db'[sec] = Objects(db, sec, entries)
    <3>1. DOMAIN db = Sections
      BY <1>2 DEF DbOK
    <3>2. LoadSection(db, sec, entries)[sec] = Objects(db, sec, entries)
      BY <3>1, SectionMade, Zenon
    <3> QED
      BY <1>7, <3>2
  <2>4. ASSUME NEW s \in Sections
        PROVE  CurrentIn(s, cfg'.obj[s], db'[s])
    <3>1. CASE s = sec
      BY <1>6, <2>2, <2>3, <3>1
    <3>2. CASE s # sec
      BY <1>2, <1>6, <1>8, <3>2 DEF Current
    <3> QED
      BY <3>1, <3>2
  <2> QED
    BY <2>4 DEF Current
<1>10b. Decided(filed, db', list)
  <2>1. \A s \in Sections : DOMAIN db[s] \subseteq DOMAIN db'[s]
    BY <1>8
  <2> QED
    BY <1>2, <1>10, <1>10a, <2>1, StillDecided
<1>11. Registered(cfg', filed', list', db')
  <2> SUFFICES ASSUME NEW s \in Sections, DOMAIN cfg'.obj[s] = DOMAIN filed.obj[s],
                      NEW m \in UsedNames(list, s), m # ""
               PROVE  db'[s][m].used
    BY <1>1 DEF Registered
  <2>1. s # sec
    BY <1>1, <1>2, <1>4, <1>6 DEF Grown
  <2> QED
    BY <1>2, <1>6, <1>8, <2>1 DEF Registered
<1>12. cmds' \in 0..MaxCmds
  BY <1>1, Counted DEF Inv
<1> QED
  BY <1>1, <1>6, <1>8, <1>9, <1>10, <1>10a, <1>10b, <1>11, <1>12 DEF Inv, Running

\* `add` in the policy.
LEMMA AddPolicyInv ==
    ASSUME Inv, AddPolicy
    PROVE  Inv'
<1> DEFINE p == Append(cfg.policy, new_policy)
           c == [cfg EXCEPT !.policy = p]
<1>1. FileOK(cfg) /\ DbOK(db) /\ Current(cfg, db) /\ cfg.policy \in Seq(Range(cfg.policy))
  BY DEF Inv, Running, FileOK
<1>2. p \in Seq(Range(cfg.policy) \cup {new_policy})
  BY <1>1
<1>2a. DOMAIN new_policy = {"disabled", "proto", "action", "nat"} \cup GroupFields \cup DOMAIN ProfileSection
  BY DEF new_policy
<1>2b. Grouped(new_policy)
  BY <1>2a DEF Grouped, Has, GroupFields
<1>2c. \A e \in Range(cfg.policy) \cup {new_policy} : Grouped(e)
  BY <1>1, <1>2b, PolicyGrouped
<1>3. ApplyPolicy(c, db) /\ Command("add") /\ disk' = disk
  BY DEF AddPolicy
<1> HIDE DEF p
<1>4. FileOK(c) /\ c.obj = cfg.obj
  BY <1>1, <1>2, <1>2c, PolicyPut
<1> HIDE DEF c
<1>4a. Current(c, db)
  BY <1>1, <1>4 DEF Current
<1>5. Running(cfg', filed', db', list')
  BY <1>1, <1>3, <1>4, <1>4a, Applied
<1>6. cmds' \in 0..MaxCmds
  BY <1>3, Counted DEF Inv
<1> QED
  BY <1>3, <1>5, <1>6 DEF Inv

\* A step that starts the process again.
LEMMA CrashInv ==
    ASSUME Inv, NEW kind, Command(kind), Crash
    PROVE  Inv'
<1>1. FileOK(disk)
  BY DEF Inv
<1>2. Running(cfg', filed', db', list') /\ FileOK(disk')
  BY <1>1, Crashed
<1>3. cmds' \in 0..MaxCmds
  BY Counted DEF Inv
<1> QED
  BY <1>2, <1>3 DEF Inv

\* A step that makes the rules again of a proper tree and proper objects.
LEMMA ApplyInv ==
    ASSUME Inv, NEW kind, Command(kind), NEW c, FileOK(c), NEW d, DbOK(d), Current(c, d), ApplyPolicy(c, d),
           disk' = disk
    PROVE  Inv'
<1>1. Running(cfg', filed', db', list')
  BY Applied
<1>2. cmds' \in 0..MaxCmds
  BY Counted DEF Inv
<1> QED
  BY <1>1, <1>2 DEF Inv

\* The entry a `set` leaves can take the place of the one before.
LEMMA EntryWritten ==
    ASSUME NEW c, FileOK(c), NEW sec \in Sections, NEW n \in DOMAIN c.obj[sec], NEW d, NEW f, NEW args
    PROVE  EntriesOK(sec, [c.obj[sec] EXCEPT ![n] = cfg_write_value(d, sec, c.obj[sec][n], f, args).entry])
<1> DEFINE old == c.obj[sec]
           e == cfg_write_value(d, sec, old[n], f, args).entry
<1>1. EntriesOK(sec, old)
  BY SectionOK
<1>2. sec = "port_objects" => Numbered(e, {"start", "end"})
  BY <1>1, WrittenNumbered DEF EntriesOK
<1>3. sec = "proto_objects" => Numbered(e, {"id"})
  BY <1>1, WrittenNumbered DEF EntriesOK
<1> HIDE DEF e, old
<1>4. n \in DOMAIN old
  BY DEF old
<1>5. EntriesOK(sec, [old EXCEPT ![n] = e])
  BY <1>1, <1>2, <1>3, <1>4 DEF EntriesOK
<1> QED
  BY <1>5 DEF old, e

\* `set` of a field of an object.
LEMMA SetObjectInv ==
    ASSUME Inv, NEW sec \in Sections, NEW n, NEW f, NEW args, SetObject(sec, n, f, args)
    PROVE  Inv'
<1> DEFINE w == cfg_write_value(db, sec, cfg.obj[sec][n], f, dedup(args))
           entries == [cfg.obj[sec] EXCEPT ![n] = w.entry]
           c == [cfg EXCEPT !.obj[sec][n] = w.entry]
           d == [db EXCEPT ![sec] = NoFields]
<1>1. n \in DOMAIN cfg.obj[sec]
  BY DEF SetObject
<1>2. \/ Command("set") /\ apply_config_change(c, sec) /\ disk' = disk
      \/ Command("crash") /\ Crash
      \/ Command("refused") /\ cfg' = c /\ ~w.ok /\ UNCHANGED <<db, list, opt, disk, filed, saved>>
  BY DEF SetObject
<1>2a. ~w.ok => Same(w.entry, cfg.obj[sec][n])
  BY RefusedWrites
<1>3. /\ FileOK(cfg) /\ DbOK(db) /\ Grown(cfg, filed) /\ Registered(cfg, filed, list, db)
      /\ Current(cfg, db) /\ Decided(filed, db, list)
  BY DEF Inv, Running
<1>3a. entries[n] = w.entry /\ \A m \in DOMAIN cfg.obj[sec] : m # n => entries[m] = cfg.obj[sec][m]
  BY <1>1
<1>4. EntriesOK(sec, entries) /\ DOMAIN entries = DOMAIN cfg.obj[sec]
  BY <1>1, <1>3, EntryWritten
<1>5. c = Put(cfg, sec, entries)
  BY DEF Put
<1> HIDE DEF c, w, entries
<1>6. /\ FileOK(c)
      /\ SectionOf(c, sec) = entries
      /\ \A s \in Sections : s # sec => SectionOf(c, s) = SectionOf(cfg, s)
  BY <1>3, <1>4, <1>5, SectionPut
<1>7. CASE Command("set") /\ apply_config_change(c, sec) /\ disk' = disk
  <2> DEFINE new == LoadSection(d, sec, c.obj[sec])
  <2>1. ApplyPolicy(c, new)
    BY <1>7 DEF apply_config_change
  <2>2. DbOK(d)
    BY <1>3, SectionEmptied
  <2>3. EntriesOK(sec, c.obj[sec])
    BY <1>6, SectionOK
  <2>0. d = Emptied(db, sec)
    BY DEF Emptied
  <2>3a. Current(c, new)
    <3> HIDE DEF d, new
    <3>1. Current(c, LoadSection(d, sec, c.obj[sec]))
      BY <1>3, <1>6, <2>0, SectionRenewed
    <3> QED
      BY <3>1 DEF new
  <2> HIDE DEF d
  <2>4. DbOK(new)
    BY <2>2, <2>3, SectionLoaded
  <2> HIDE DEF new
  <2> QED
    BY <1>6, <1>7, <2>1, <2>3a, <2>4, ApplyInv
<1>8. CASE Command("crash") /\ Crash
  BY <1>8, CrashInv
<1>9. CASE Command("refused") /\ cfg' = c /\ ~w.ok /\ UNCHANGED <<db, list, opt, disk, filed, saved>>
  <2>0. \A s \in Sections : \A m \in DOMAIN cfg.obj[s] :
            m \in DOMAIN cfg'.obj[s] /\ Same(cfg'.obj[s][m], cfg.obj[s][m])
    <3> SUFFICES ASSUME NEW s \in Sections, NEW m \in DOMAIN cfg.obj[s]
                 PROVE  m \in DOMAIN cfg'.obj[s] /\ Same(cfg'.obj[s][m], cfg.obj[s][m])
      OBVIOUS
    <3>1. CASE s # sec
      BY <1>6, <1>9, <3>1 DEF SectionOf, Same
    <3>2. CASE s = sec /\ m # n
      BY <1>3a, <1>4, <1>6, <1>9, <3>2 DEF SectionOf, Same
    <3>3. CASE s = sec /\ m = n
      BY <1>2a, <1>3a, <1>4, <1>6, <1>9, <3>3 DEF SectionOf
    <3> QED
      BY <3>1, <3>2, <3>3
  <2>1. \A s \in Sections : DOMAIN cfg'.obj[s] = DOMAIN cfg.obj[s]
    BY <1>4, <1>6, <1>9 DEF SectionOf
  <2>2. Registered(cfg', filed', list', db')
    BY <1>3, <1>9, <2>1 DEF Registered
  <2>2a. Grown(cfg', filed)
    BY <1>3, <2>0 DEF Grown, Same
  <2>2b. Grown(cfg, cfg')
    BY <2>0, <2>1 DEF Grown, Same
  <2>2c. Current(cfg', db)
    BY <1>3, <2>2b, CurrentGrown
  <2>3. FileOK(cfg')
    BY <1>6, <1>9
  <2>4. cmds' \in 0..MaxCmds
    BY <1>9, Counted DEF Inv
  <2> QED
    BY <1>9, <2>2, <2>2a, <2>2c, <2>3, <2>4 DEF Inv, Running
<1> QED
  BY <1>2, <1>7, <1>8, <1>9

\* Whatever is written, an entry keeps its fields.
LEMMA EntryFields ==
    ASSUME NEW d, NEW sec, NEW e, NEW f, NEW args
    PROVE  DOMAIN cfg_write_value(d, sec, e, f, args).entry = DOMAIN e
BY DEF cfg_write_value

\* `set` and `toggle` of a field of a policy entry.
LEMMA WritePolicyInv ==
    ASSUME Inv, NEW i \in DOMAIN cfg.policy, NEW f, NEW args, WritePolicy(i, f, args)
    PROVE  Inv'
<1> DEFINE w == cfg_write_value(db, "policy", cfg.policy[i], f, args)
           p == [cfg.policy EXCEPT ![i] = w.entry]
           c == [cfg EXCEPT !.policy[i] = w.entry]
<1>1. \/ Command("set") /\ ApplyPolicy(c, db) /\ disk' = disk
      \/ Command("refused") /\ UNCHANGED <<cfg, db, list, opt, disk, filed, saved>>
  BY DEF WritePolicy
<1>2. FileOK(cfg) /\ DbOK(db) /\ Current(cfg, db) /\ cfg.policy \in Seq(Range(cfg.policy))
  BY DEF Inv, Running, FileOK
<1>3. c = [cfg EXCEPT !.policy = p]
  OBVIOUS
<1>3a. DOMAIN w.entry = DOMAIN cfg.policy[i]
  BY EntryFields
<1> HIDE DEF w
<1>4. p \in Seq(Range(cfg.policy) \cup {w.entry})
  BY <1>2
<1>4a. \A e \in Range(cfg.policy) : Grouped(e)
  BY <1>2, PolicyGrouped
<1>4b. \A e \in Range(cfg.policy) \cup {w.entry} : Grouped(e)
  BY <1>3a, <1>4a DEF Grouped, Has, Range
<1> HIDE DEF p, c
<1>5. FileOK(c) /\ c.obj = cfg.obj
  BY <1>2, <1>3, <1>4, <1>4b, PolicyPut
<1>5a. Current(c, db)
  BY <1>2, <1>5 DEF Current
<1>6. CASE Command("set") /\ ApplyPolicy(c, db) /\ disk' = disk
  BY <1>2, <1>5, <1>5a, <1>6, ApplyInv
<1>7. CASE Command("refused") /\ UNCHANGED <<cfg, db, list, opt, disk, filed, saved>>
  <2>1. cmds' \in 0..MaxCmds
    BY <1>7, Counted DEF Inv
  <2> QED
    BY <1>7, <2>1 DEF Inv
<1> QED
  BY <1>1, <1>6, <1>7

\* `set` of an option.
LEMMA SetOptionInv ==
    ASSUME Inv, NEW p, NEW v, SetOption(p, v)
    PROVE  Inv'
<1>0. PICK t \in OptionText(p, v) :
        /\ Command("option") /\ cfg' = [cfg EXCEPT !.opt[p] = t]
        /\ filed' = [filed EXCEPT !.opt = cfg'.opt]
        /\ db' = db /\ list' = list /\ disk' = disk
  BY DEF SetOption
<1> DEFINE o == [cfg.opt EXCEPT ![p] = t]
<1>1. /\ Command("option") /\ cfg' = [cfg EXCEPT !.opt = o]
      /\ filed' = [filed EXCEPT !.opt = cfg'.opt]
      /\ db' = db /\ list' = list /\ disk' = disk
  BY <1>0
<1>2. /\ FileOK(cfg) /\ Shape(cfg) /\ Shape(filed) /\ FileOK(filed)
      /\ Grown(cfg, filed) /\ Registered(cfg, filed, list, db)
      /\ Current(cfg, db) /\ Decided(filed, db, list)
  BY DEF Inv, Running, FileOK
<1> HIDE DEF o
<1>3. FileOK(cfg') /\ cfg'.obj = cfg.obj
  BY <1>1, <1>2, OptionPut
<1>4. FileOK(filed') /\ filed'.obj = filed.obj /\ filed'.policy = filed.policy
  BY <1>1, <1>2, OptionPut
<1>5. Grown(cfg', filed') /\ Registered(cfg', filed', list', db')
  BY <1>1, <1>2, <1>3, <1>4 DEF Grown, Registered
<1>5a. Current(cfg', db')
  BY <1>1, <1>2, <1>3 DEF Current
<1>5b. Decided(filed', db', list')
  <2>1. Fresh(filed') = Fresh(filed)
    BY <1>4 DEF Fresh
  <2>2. NoStrays(filed', db) => NoStrays(filed, db)
    BY <1>4 DEF NoStrays
  <2> QED
    BY <1>1, <1>2, <1>4, <2>1, <2>2 DEF Decided
<1>6. cmds' \in 0..MaxCmds
  BY <1>1, Counted DEF Inv
<1> QED
  BY <1>1, <1>3, <1>4, <1>5, <1>5a, <1>5b, <1>6 DEF Inv, Running

\* Looking names up keeps what is there; what comes in is null.
LEMMA NamesLooked ==
    ASSUME NEW d, DbOK(d), NEW sec \in Sections, NEW names
    PROVE  /\ DbOK(section_element(d, sec, names))
           /\ \A s \in Sections : \A n \in DOMAIN d[s] :
                 /\ n \in DOMAIN section_element(d, sec, names)[s]
                 /\ section_element(d, sec, names)[s][n] = d[s][n]
           /\ \A s \in Sections : \A n : Present(section_element(d, sec, names)[s], n) => Present(d[s], n)
<1> DEFINE new == [n \in DOMAIN d[sec] \cup names |-> IF n \in DOMAIN d[sec] THEN d[sec][n] ELSE NullObject]
           e == section_element(d, sec, names)
<1>1. e = [d EXCEPT ![sec] = new]
  BY DEF section_element
<1>2. DOMAIN new = DOMAIN d[sec] \cup names
  OBVIOUS
<1>3. \A n \in DOMAIN d[sec] : new[n] = d[sec][n]
  OBVIOUS
<1>4. \A n \in DOMAIN new \ DOMAIN d[sec] : new[n] = NullObject
  OBVIOUS
<1> HIDE DEF new, e
<1>5. DOMAIN e = Sections /\ e[sec] = new /\ \A s \in Sections : s # sec => e[s] = d[s]
  BY <1>1 DEF DbOK
<1>6. \A n : ObjOK(sec, n, NullObject)
  BY DEF ObjOK, NullObject
<1>7. \A n \in DOMAIN new : ObjOK(sec, n, new[n])
  BY <1>3, <1>4, <1>6 DEF DbOK
<1>8. DbOK(e)
  BY <1>5, <1>7 DEF DbOK
<1>9. \A s \in Sections : \A n \in DOMAIN d[s] : n \in DOMAIN e[s] /\ e[s][n] = d[s][n]
  BY <1>2, <1>3, <1>5
<1>10. ASSUME NEW s \in Sections, NEW n, Present(e[s], n)
       PROVE  Present(d[s], n)
  <2>1. NullObject.null
    BY DEF NullObject
  <2> QED
    BY <1>3, <1>4, <1>5, <1>10, <2>1 DEF Present
<1> QED
  BY <1>8, <1>9, <1>10 DEF e

\* The section without the names that are removed.
Without(entries, names) == Restrict(entries, DOMAIN entries \ (names \cap DOMAIN entries))

LEMMA EntriesRemoved ==
    ASSUME NEW sec, NEW entries, EntriesOK(sec, entries), NEW names
    PROVE  EntriesOK(sec, Without(entries, names))
<1> DEFINE w == Without(entries, names)
<1>1. w = [x \in DOMAIN entries \ (names \cap DOMAIN entries) |-> entries[x]]
  BY DEF Without, Restrict
<1> HIDE DEF w
<1>2. DOMAIN w = DOMAIN entries \ names /\ \A x \in DOMAIN w : w[x] = entries[x]
  BY <1>1
<1>3. EntriesOK(sec, w)
  BY <1>2 DEF EntriesOK
<1> QED
  BY <1>3 DEF w

\* `remove`: either everything is made again, or only null entries come in.
LEMMA RemoveObjectInv ==
    ASSUME Inv, NEW sec \in Sections, NEW names, RemoveObject(sec, names)
    PROVE  Inv'
<1> DEFINE look == Looked(sec, names)
           d == section_element(db, sec, look.names)
           entries == Without(cfg.obj[sec], Range(names))
           c == [cfg EXCEPT !.obj[sec] = entries]
           e == [d EXCEPT ![sec] = NoFields]
<1>1. \/ Command("remove") /\ ApplyPolicy(c, LoadSection(e, sec, c.obj[sec])) /\ disk' = disk
      \/ Command("refused") /\ db' = d /\ UNCHANGED <<cfg, list, opt, disk, filed, saved>>
  BY DEF RemoveObject, Without
<1>0. /\ FileOK(cfg) /\ Grown(cfg, filed) /\ DbOK(db) /\ ListOK(list)
      /\ Backed(list, db) /\ Registered(cfg, filed, list, db)
      /\ Current(cfg, db) /\ Decided(filed, db, list) /\ FileOK(filed)
  BY DEF Inv, Running
<1>2. /\ FileOK(cfg) /\ Shape(filed) /\ Grown(cfg, filed) /\ DbOK(db) /\ ListOK(list)
      /\ Backed(list, db) /\ Registered(cfg, filed, list, db)
      /\ Current(cfg, db) /\ Decided(filed, db, list) /\ FileOK(filed)
  BY <1>0 DEF FileOK
<1> HIDE DEF look
<1>3. /\ DbOK(d)
      /\ \A s \in Sections : \A n \in DOMAIN db[s] : n \in DOMAIN d[s] /\ d[s][n] = db[s][n]
  BY <1>2, NamesLooked
<1>3a. \A s \in Sections : \A n : Present(d[s], n) => Present(db[s], n)
  BY <1>2, NamesLooked
<1>4. EntriesOK(sec, entries)
  BY <1>2, SectionOK, EntriesRemoved
<1>5. c = Put(cfg, sec, entries)
  BY DEF Put
<1> HIDE DEF d, entries, c
<1>5a. Current(cfg, d)
  <2>1. ASSUME NEW s \in Sections, NEW n
        PROVE  /\ Present(d[s], n) <=> Present(db[s], n)
               /\ Present(db[s], n) => d[s][n].val = db[s][n].val
    BY <1>3, <1>3a DEF Present
  <2> QED
    BY <1>2, <2>1 DEF Current, CurrentIn
<1>6. CASE Command("remove") /\ ApplyPolicy(c, LoadSection(e, sec, c.obj[sec])) /\ disk' = disk
  <2> DEFINE new == LoadSection(e, sec, c.obj[sec])
  <2>1. FileOK(c) /\ \A s \in Sections : s # sec => SectionOf(c, s) = SectionOf(cfg, s)
    BY <1>2, <1>4, <1>5, SectionPut
  <2>2. DbOK(e)
    BY <1>3, SectionEmptied
  <2>3. EntriesOK(sec, c.obj[sec])
    BY <2>1, SectionOK
  <2>0. e = Emptied(d, sec)
    BY DEF Emptied
  <2>3a. Current(c, new)
    <3> HIDE DEF e, new
    <3>1. Current(c, LoadSection(e, sec, c.obj[sec]))
      BY <1>3, <1>5a, <2>0, <2>1, SectionRenewed
    <3> QED
      BY <3>1 DEF new
  <2> HIDE DEF e
  <2>4. DbOK(new)
    BY <2>2, <2>3, SectionLoaded
  <2>5. ApplyPolicy(c, new)
    BY <1>6
  <2> HIDE DEF new
  <2> QED
    BY <1>6, <2>1, <2>3a, <2>4, <2>5, ApplyInv
<1>7. CASE Command("refused") /\ db' = d /\ UNCHANGED <<cfg, list, opt, disk, filed, saved>>
  <2>1. Backed(list, d)
    BY <1>2, <1>3 DEF Backed
  <2>2. Registered(cfg, filed, list, d)
    BY <1>2, <1>3 DEF Backed, Registered
  <2>3. cmds' \in 0..MaxCmds
    BY <1>7, Counted DEF Inv
  <2>3a. Decided(filed, d, list)
    BY <1>2, <1>3, <1>5a, StillDecided
  <2>4. Running(cfg, filed, d, list)
    BY <1>2, <1>3, <1>5a, <2>1, <2>2, <2>3a DEF Running
  <2> QED
    BY <1>7, <2>3, <2>4 DEF Inv
<1> QED
  BY <1>1, <1>6, <1>7

\* A list without one of its elements is a list.
LEMMA ListWithout ==
    ASSUME NEW S, NEW s \in Seq(S), NEW k \in 1..Len(s)
    PROVE  RemoveAt(s, k) \in Seq(S)
<1> DEFINE a == SubSeq(s, 1, k - 1)
           b == SubSeq(s, k + 1, Len(s))
<1>1. Len(s) \in Nat /\ \A i \in 1..Len(s) : s[i] \in S
  BY LenProperties, ElementOfSeq
<1>2. a \in Seq(S)
  <2>1. \A i \in 1..(k - 1) : s[i] \in S
    BY <1>1
  <2> QED
    BY <1>1, <2>1, SubSeqProperties
<1>3. b \in Seq(S)
  <2>1. \A i \in (k + 1)..Len(s) : s[i] \in S
    BY <1>1
  <2> QED
    BY <1>1, <2>1, SubSeqProperties
<1>4. RemoveAt(s, k) = a \o b
  BY DEF RemoveAt
<1> HIDE DEF a, b
<1> QED
  BY <1>2, <1>3, <1>4, ConcatProperties

\* `remove [i]` in the policy.
LEMMA RemovePolicyInv ==
    ASSUME Inv, NEW i \in DOMAIN cfg.policy, RemovePolicy(i)
    PROVE  Inv'
<1> DEFINE p == RemoveAt(cfg.policy, i)
           c == [cfg EXCEPT !.policy = p]
<1>1. FileOK(cfg) /\ DbOK(db) /\ Current(cfg, db) /\ cfg.policy \in Seq(Range(cfg.policy))
  BY DEF Inv, Running, FileOK
<1>2. i \in 1..Len(cfg.policy)
  BY <1>1
<1>3. p \in Seq(Range(cfg.policy))
  BY <1>1, <1>2, ListWithout
<1>4. ApplyPolicy(c, db) /\ Command("remove") /\ disk' = disk
  BY DEF RemovePolicy
<1> HIDE DEF p
<1>5. FileOK(c) /\ c.obj = cfg.obj
  BY <1>1, <1>3, PolicyGrouped, PolicyPut
<1> HIDE DEF c
<1>6. Current(c, db)
  BY <1>1, <1>5 DEF Current
<1> QED
  BY <1>1, <1>4, <1>5, <1>6, ApplyInv

\* `save config`.
LEMMA SaveInv ==
    ASSUME Inv, Save
    PROVE  Inv'
<1>1. /\ Command("save") /\ disk' = save_config(db, list, opt)
      /\ UNCHANGED <<cfg, db, list, opt, filed>>
  BY DEF Save
<1>2. FileOK(disk')
  BY <1>1, SavedReadable DEF Inv, Running
<1>3. cmds' \in 0..MaxCmds
  BY <1>1, Counted DEF Inv
<1> QED
  BY <1>1, <1>2, <1>3 DEF Inv

\* A reload.
LEMMA ReloadInv ==
    ASSUME Inv, Reload
    PROVE  Inv'
<1> DEFINE s == load_config(disk, db, opt, FALSE)
<1>1. /\ Command("reload") /\ disk' = disk
      /\ cfg' = s.cfg /\ db' = s.db /\ list' = s.list /\ filed' = s.cfg
  BY DEF Reload
<1>2. FileOK(disk) /\ DbOK(db)
  BY DEF Inv, Running
<1>3. s.cfg = disk /\ Running(disk, disk, s.db, s.list)
  BY <1>2, ConfigLoaded
<1> HIDE DEF s
<1>4. cmds' \in 0..MaxCmds
  BY <1>1, Counted DEF Inv
<1> QED
  BY <1>1, <1>2, <1>3, <1>4 DEF Inv

\* A step of any kind.
LEMMA NextInv ==
    ASSUME Inv, [Next]_vars
    PROVE  Inv'
<1>0. /\ \A a \in Adds : a[1] \in Sections /\ a[2] # ""
      /\ \A s \in ObjectSets : s.sec \in Sections
      /\ \A r \in Removes : r[1] \in Sections
  BY CfgObjectsAssumption
<1>1. ASSUME NEW a \in Adds, Add(a[1], a[2]) PROVE Inv'
  BY <1>0, <1>1, AddInv
<1>2. CASE AddPolicy
  BY <1>2, AddPolicyInv
<1>3. ASSUME NEW s \in ObjectSets, SetObject(s.sec, s.obj, s.field, s.args) PROVE Inv'
  BY <1>0, <1>3, SetObjectInv
<1>4. ASSUME NEW s \in PolicySets, SetPolicy(s.obj, s.field, s.args) PROVE Inv'
  BY <1>4, WritePolicyInv DEF SetPolicy
<1>5. ASSUME NEW s \in Toggles, TogglePolicy(s.obj, s.field, s.args) PROVE Inv'
  BY <1>5, WritePolicyInv DEF TogglePolicy
<1>6. ASSUME NEW n \in PortToggles, TogglePorts(n) PROVE Inv'
  BY <1>6, CrashInv DEF TogglePorts
<1>7. ASSUME NEW s \in OptionSets, SetOption(s[1], s[2]) PROVE Inv'
  BY <1>7, SetOptionInv
<1>8. ASSUME NEW r \in Removes, RemoveObject(r[1], r[2]) PROVE Inv'
  BY <1>0, <1>8, RemoveObjectInv
<1>9. ASSUME NEW i \in DOMAIN cfg.policy, RemovePolicy(i) PROVE Inv'
  BY <1>9, RemovePolicyInv
<1>10. CASE Save
  BY <1>10, SaveInv
<1>11. CASE Reload
  BY <1>11, ReloadInv
<1>12. CASE Restart
  BY <1>12, CrashInv DEF Restart
<1>13. CASE UNCHANGED vars
  BY <1>13 DEF vars, Inv
<1> QED
  BY <1>1, <1>2, <1>3, <1>4, <1>5, <1>6, <1>7, <1>8, <1>9, <1>10, <1>11, <1>12, <1>13 DEF Next

-----------------------------------------------------------------------------
(* Theorems.                                                               *)

\* Objects, rules and options keep their shape (load_db_port, load_db_proto,
\* load_db_policy, check_deps): ranges are ordered, ids fit a byte, what is
\* null is not used, and a rule has an action.
THEOREM TypeCorrect == Spec => []TypeOK
<1>1. Inv => TypeOK
  <2>1. {"port_objects", "proto_objects"} \subseteq Sections
    BY DEF Sections
  <2> QED
    BY <2>1 DEF Inv, Running, DbOK, ObjOK, ValOK, ListOK, RuleOK, TypeOK
<1> QED
  BY <1>1, InitInv, NextInv, PTL DEF Spec

\* `remove` of names that a rule refers to is refused: what it takes away was
\* looked up (check_deps), and an object of a used name knows that it is used.
LEMMA RemovedUnused ==
    ASSUME Inv, NEW sec \in Sections, NEW names \in Seq(STRING), RemoveObject(sec, names),
           last' = "remove",
           NEW s \in Sections, DOMAIN cfg.obj[s] = DOMAIN filed.obj[s],
           NEW n \in DOMAIN cfg.obj[s] \ DOMAIN cfg'.obj[s]
    PROVE  n \notin UsedNames(list, s)
<1> DEFINE entries == Without(cfg.obj[sec], Range(names))
           c == [cfg EXCEPT !.obj[sec] = entries]
<1>1. Looked(sec, names).free /\ cfg' = c
  <2>1. last' # "refused"
    OBVIOUS
  <2> QED
    BY <2>1 DEF RemoveObject, Without, Command, ApplyPolicy
<1>2. /\ FileOK(cfg) /\ Backed(list, db) /\ Registered(cfg, filed, list, db)
  BY DEF Inv, Running
<1>3. EntriesOK(sec, cfg.obj[sec])
  BY <1>2, SectionOK
<1>4. EntriesOK(sec, entries) /\ DOMAIN entries = DOMAIN cfg.obj[sec] \ Range(names)
  <2>1. EntriesOK(sec, entries)
    BY <1>3, EntriesRemoved
  <2>2. DOMAIN entries = DOMAIN cfg.obj[sec] \ Range(names)
    BY DEF Without, Restrict
  <2> QED
    BY <2>1, <2>2
<1> HIDE DEF entries
<1>5. /\ SectionOf(cfg', sec) = entries
      /\ \A x \in Sections : x # sec => SectionOf(cfg', x) = SectionOf(cfg, x)
  <2>1. cfg' = Put(cfg, sec, entries)
    BY <1>1 DEF Put
  <2> QED
    BY <1>2, <1>4, <2>1, TreePut
<1>6. s = sec /\ n \in Range(names)
  BY <1>4, <1>5 DEF SectionOf
<1>7. n # ""
  BY <1>3, <1>6 DEF EntriesOK
<1>8. PICK i \in 1..Len(names) : names[i] = n
  BY <1>6 DEF Range
<1>9. ~(n \in DOMAIN db[sec] /\ db[sec][n].used)
  BY <1>1, <1>8 DEF Looked
<1> QED
  BY <1>2, <1>6, <1>7, <1>9 DEF Backed, Registered

\* An object that a rule in force is made of is not taken from the tree,
\* whatever was added, set, removed, saved and loaded before (check_deps,
\* usage_add), as long as nothing was added to its section since the rules were
\* made.
THEOREM UsedStays == Spec => UsedNotRemoved
<1> DEFINE Kept(sec) == (DOMAIN cfg.obj[sec] \ DOMAIN cfg'.obj[sec]) \cap UsedNames(list, sec) = {}
           Quiet(sec) == DOMAIN cfg.obj[sec] = DOMAIN filed.obj[sec]
           Step == last' = "remove" => \A sec \in Sections : Quiet(sec) => Kept(sec)
<1>1. Inv /\ [Next]_vars => [Step]_vars
  <2> SUFFICES ASSUME Inv, Next, last' = "remove", NEW sec \in Sections, Quiet(sec)
               PROVE  Kept(sec)
    OBVIOUS
  <2>1. CASE \E r \in Removes : RemoveObject(r[1], r[2])
    <3>1. \A r \in Removes : r[1] \in Sections /\ r[2] \in Seq(STRING)
      BY CfgObjectsAssumption
    <3>2. PICK r \in Removes : RemoveObject(r[1], r[2])
      BY <2>1
    <3>3. \A n \in DOMAIN cfg.obj[sec] \ DOMAIN cfg'.obj[sec] : n \notin UsedNames(list, sec)
      BY <3>1, <3>2, RemovedUnused
    <3> QED
      BY <3>3
  <2>2. CASE \E i \in DOMAIN cfg.policy : RemovePolicy(i)
    <3>1. PICK i \in DOMAIN cfg.policy : RemovePolicy(i)
      BY <2>2
    <3> DEFINE p == RemoveAt(cfg.policy, i)
    <3>2. FileOK(cfg) /\ cfg.policy \in Seq(Range(cfg.policy))
      BY DEF Inv, Running, FileOK
    <3>3. i \in 1..Len(cfg.policy)
      BY <3>2
    <3>4. p \in Seq(Range(cfg.policy)) /\ cfg' = [cfg EXCEPT !.policy = p]
      BY <3>1, <3>2, <3>3, ListWithout DEF RemovePolicy, ApplyPolicy
    <3> HIDE DEF p
    <3>5. cfg'.obj = cfg.obj
      BY <3>2, <3>4, PolicyGrouped, PolicyPut
    <3> QED
      BY <3>5
  <2>3. CASE ~(\E r \in Removes : RemoveObject(r[1], r[2])) /\ ~(\E i \in DOMAIN cfg.policy : RemovePolicy(i))
    BY <2>3 DEF Next, Command, Add, AddPolicy, SetObject, SetPolicy, TogglePolicy, WritePolicy, TogglePorts,
                SetOption, Save, Reload, Restart
  <2> QED
    BY <2>1, <2>2, <2>3
<1>2. Inv /\ [Next]_vars => Inv'
  BY NextInv
<1> QED
  BY <1>1, <1>2, InitInv, PTL DEF Spec, UsedNotRemoved

\* A list that decides alike meets a connection with the same rule.
LEMMA MetAlike ==
    ASSUME NEW l, NEW k, Alike(l, k), NEW c, NEW answers
    PROVE  /\ policy_match(l, c, answers) = policy_match(k, c, answers)
           /\ policy_match(l, c, answers) # 0 => policy_match(l, c, answers) \in 1..Len(l)
<1> DEFINE Met(s, m) == RuleMatch(RuleValues(s[m]), c, answers)
           I == {m \in 1..Len(l) : Met(l, m)}
           J == {m \in 1..Len(k) : Met(k, m)}
<1>1. /\ policy_match(l, c, answers) = IF I # {} THEN Min(I) ELSE 0
      /\ policy_match(k, c, answers) = IF J # {} THEN Min(J) ELSE 0
  BY DEF policy_match, SelectInSeq
<1>2. Len(l) \in Nat /\ Len(k) = Len(l) /\ \A m \in 1..Len(l) : SameVerdict(l[m], k[m])
  BY DEF Alike
<1>3. \A m \in 1..Len(l) : RuleValues(l[m]) = RuleValues(k[m])
  BY <1>2 DEF SameVerdict, RuleValues
<1>4. I = J
  BY <1>2, <1>3
<1> HIDE DEF Met
<1>5. I \subseteq Nat /\ I \subseteq 1..Len(l)
  OBVIOUS
<1> HIDE DEF I, J
<1>6. I # {} => Min(I) \in I
  <2> SUFFICES ASSUME I # {} PROVE Min(I) \in I
    OBVIOUS
  <2>1. \E x \in I : \A y \in I : x <= y
    BY <1>5, LeastNumber
  <2> QED
    BY <2>1 DEF Min
<1>7. policy_match(l, c, answers) = policy_match(k, c, answers)
  BY <1>1, <1>4
<1>8. CASE I = {}
  BY <1>1, <1>7, <1>8
<1>9. CASE I # {}
  <2>1. Min(I) \in 1..Len(l)
    BY <1>5, <1>6, <1>9
  <2>2. policy_match(l, c, answers) = Min(I)
    BY <1>1, <1>9
  <2> QED
    BY <1>7, <2>1, <2>2
<1> QED
  BY <1>8, <1>9

\* And comes to the same for it.
LEMMA OutcomeAlike ==
    ASSUME NEW l, NEW k, Alike(l, k), NEW c, NEW answers
    PROVE  Outcome(l, c, answers) = Outcome(k, c, answers)
<1> DEFINE m == policy_match(l, c, answers)
           out(s, i) == [index |-> i, action |-> s[i].action, nat |-> s[i].nat,
                         prof |-> [f \in DOMAIN s[i].prof |-> s[i].prof[f].name]]
<1>1. m = policy_match(k, c, answers) /\ (m # 0 => m \in 1..Len(l))
  BY MetAlike
<1>2. /\ Outcome(l, c, answers) = {out(l, i) : i \in {m} \ {0}}
      /\ Outcome(k, c, answers) = {out(k, i) : i \in {m} \ {0}}
  BY <1>1 DEF Outcome
<1> HIDE DEF m
<1>3. m # 0 => out(l, m) = out(k, m)
  <2> SUFFICES ASSUME m # 0 PROVE out(l, m) = out(k, m)
    OBVIOUS
  <2>1. SameVerdict(l[m], k[m])
    BY <1>1 DEF Alike
  <2> DEFINE p(s) == [f \in DOMAIN s[m].prof |-> s[m].prof[f].name]
  <2>2. p(l) = p(k)
    BY <2>1 DEF SameVerdict
  <2>3. l[m].action = k[m].action /\ l[m].nat = k[m].nat
    BY <2>1 DEF SameVerdict
  <2> QED
    BY <2>2, <2>3
<1> HIDE DEF out
<1> QED
  BY <1>2, <1>3

\* A connection is decided as by a process that starts with the tree as the
\* last applied command left it, after any sequence of commands
\* (apply_config_change, load_db_policy, policy_match).
THEOREM VerdictsFiled == Spec => []VerdictAsFiled
<1>1. Inv => VerdictAsFiled
  <2> SUFFICES ASSUME Inv, NoStrays(filed, db), NEW c \in Conns, NEW answers \in Caches
               PROVE  Outcome(list, c, answers) = Outcome(load_config(filed, EmptyDb, opt, TRUE).list, c, answers)
    BY DEF VerdictAsFiled
  <2> DEFINE fresh == load_config(filed, EmptyDb, opt, TRUE).list
  <2>1. fresh = load_db_policy(Fresh(filed), filed.policy)
    BY FreshConfig
  <2>2. Decided(filed, db, list)
    BY DEF Inv, Running
  <2> HIDE DEF fresh
  <2>3. Alike(list, fresh)
    BY <2>1, <2>2 DEF Decided
  <2>4. Outcome(list, c, answers) = Outcome(fresh, c, answers)
    BY <2>3, OutcomeAlike
  <2> QED
    BY <2>4 DEF fresh
<1> QED
  BY <1>1, InitInv, NextInv, PTL DEF Spec

-----------------------------------------------------------------------------
(* What is saved comes back.                                               *)

\* Options that are written as they are and taken over as they are.
Faithful == SettingsPlain \cup CapturesPlain \cup DebugPlain \cup StartOnly

\* The option p is as in the file.
TakenOver(o, file, p) == p \in DOMAIN o /\ o[p] = file[p]

\* What an update leaves.
LEMMA UpdateAt ==
    ASSUME NEW a, NEW b, NEW p
    PROVE  /\ p \in DOMAIN Update(a, b) <=> p \in DOMAIN a \/ p \in DOMAIN b
           /\ p \in DOMAIN b => Update(a, b)[p] = b[p]
           /\ p \notin DOMAIN b /\ p \in DOMAIN a => Update(a, b)[p] = a[p]
BY DEF Update

LEMMA RestrictAt ==
    ASSUME NEW a, NEW S, NEW p
    PROVE  /\ p \in DOMAIN Restrict(a, S) <=> p \in S
           /\ p \in S => Restrict(a, S)[p] = a[p]
BY DEF Restrict

\* An update from the file takes over what it is about and keeps the rest.
LEMMA FileTaken ==
    ASSUME NEW o, NEW file, NEW S, NEW p, p \in S \/ TakenOver(o, file, p)
    PROVE  TakenOver(Update(o, Restrict(file, S)), file, p)
<1> DEFINE r == Restrict(file, S)
<1>1. (p \in DOMAIN r <=> p \in S) /\ (p \in S => r[p] = file[p])
  BY RestrictAt
<1> HIDE DEF r
<1>2. TakenOver(Update(o, r), file, p)
  <2>1. CASE p \in S
    BY <1>1, <2>1, UpdateAt DEF TakenOver
  <2>2. CASE p \notin S
    BY <1>1, <2>2, UpdateAt DEF TakenOver
  <2> QED
    BY <2>1, <2>2
<1> QED
  BY <1>2 DEF r

\* An update of other options keeps it.
LEMMA OthersTaken ==
    ASSUME NEW o, NEW file, NEW p, TakenOver(o, file, p), NEW b, p \notin DOMAIN b
    PROVE  TakenOver(Update(o, b), file, p)
BY UpdateAt DEF TakenOver

\* These are read from entries of their own.
LEMMA FaithfulApart ==
    /\ "s.nameservers" \notin Faithful /\ "s.certs_ctlog" \notin Faithful
    /\ "d.log.epoll" \notin Faithful /\ "d.log.pkt_dns" \notin Faithful
    /\ "s.udp_quick_ports" \notin Faithful /\ "c.local.pcap_quota" \notin Faithful
BY DEF Faithful, SettingsPlain, CapturesPlain, DebugPlain, StartOnly

\* The settings.
LEMMA SettingsTaken ==
    ASSUME NEW o, NEW file, NEW p \in Faithful \cap DOMAIN file, p \in SettingsPlain
    PROVE  TakenOver(load_settings(o, file), file, p)
<1> DEFINE plain == {q \in DOMAIN file : q \in SettingsPlain \cup {"s.auth_portal.magic_ip", "s.udp_quick_ports"}
                                         \/ (q \in SettingsGuarded /\ Sensible(q, file[q]))}
           names == IF "s.nameservers" \in DOMAIN file
                    THEN [q \in {"s.nameservers"} |-> IF file[q] = "" THEN "1.1.1.1" ELSE file[q]]
                    ELSE [q \in {} |-> ""]
           ctlog == [q \in {"s.certs_ctlog"} |-> IF q \in DOMAIN file THEN file[q]
                                                 ELSE "/etc/smithproxy/ct_log_list.cnf"]
           cleared == [q \in {x \in {"s.http_api.keys"} : DOMAIN file \cap HttpApi # {}} |-> ""]
           o1 == Update(o, cleared)
           o2 == Update(o1, Restrict(file, plain))
           o3 == Update(o2, names)
           o4 == Update(o3, ctlog)
<1>1. load_settings(o, file) = o4
  BY DEF load_settings
<1>2. p \in plain
  OBVIOUS
<1>3. p \notin DOMAIN names
  <2>1. DOMAIN names \subseteq {"s.nameservers"}
    OBVIOUS
  <2> HIDE DEF names
  <2> QED
    BY <2>1, FaithfulApart
<1>4. p \notin DOMAIN ctlog
  BY FaithfulApart
<1> HIDE DEF plain, names, ctlog, o1
<1>5. TakenOver(o2, file, p)
  BY <1>2, FileTaken
<1> HIDE DEF o2
<1>6. TakenOver(o3, file, p)
  BY <1>3, <1>5, OthersTaken
<1> HIDE DEF o3
<1>7. TakenOver(o4, file, p)
  BY <1>4, <1>6, OthersTaken
<1> QED
  BY <1>1, <1>7

\* The captures.
LEMMA CapturesTaken ==
    ASSUME NEW o, NEW file, NEW p \in Faithful \cap DOMAIN file, p \in CapturesPlain \/ TakenOver(o, file, p)
    PROVE  TakenOver(load_captures(o, file), file, p)
<1> DEFINE plain == CapturesPlain \cap DOMAIN file
           here == plain # {} \/ "c.local.pcap_quota" \in DOMAIN file
           single == "c.local.format" \in DOMAIN file /\ file["c.local.format"] = "pcap_single"
           quota == IF single THEN quota_megabytes(file, "c.local.pcap_quota") ELSE [q \in {} |-> ""]
           old == [q \in {x \in DOMAIN OldCaptures : OldCaptures[x] \in DOMAIN file} |-> file[OldCaptures[q]]]
           before == quota_megabytes(file, "s.write_pcap_single_quota")
           o1 == Update(o, Restrict(file, plain))
           o2 == Update(o, old)
<1>1. load_captures(o, file) = IF here THEN Update(o1, quota) ELSE Update(o2, before)
  BY DEF load_captures
<1>2. p # "c.local.pcap_quota"
  BY FaithfulApart
<1>3. p \notin DOMAIN quota /\ p \notin DOMAIN before
  BY <1>2 DEF quota_megabytes
<1>4. p \in CapturesPlain => p \in plain
  OBVIOUS
<1>5. DOMAIN old \subseteq CapturesPlain
  BY DEF OldCaptures, CapturesPlain
<1> HIDE DEF quota, before, old
<1>6. CASE here
  <2>1. TakenOver(o1, file, p)
    <3> HIDE DEF plain
    <3> QED
      BY <1>4, FileTaken
  <2> HIDE DEF o1
  <2>2. TakenOver(Update(o1, quota), file, p)
    BY <1>3, <2>1, OthersTaken
  <2> QED
    BY <1>1, <1>6, <2>2
<1>7. CASE ~here
  <2>1. p \notin CapturesPlain
    BY <1>4, <1>7
  <2>2. TakenOver(o2, file, p)
    BY <1>5, <2>1, OthersTaken
  <2> HIDE DEF o2
  <2>3. TakenOver(Update(o2, before), file, p)
    BY <1>3, <2>2, OthersTaken
  <2> QED
    BY <1>1, <1>7, <2>3
<1> QED
  BY <1>6, <1>7

\* The debugging options.
LEMMA DebugTaken ==
    ASSUME NEW o, NEW file, NEW p \in Faithful \cap DOMAIN file, p \in DebugPlain \/ TakenOver(o, file, p)
    PROVE  TakenOver(load_debug(o, file), file, p)
<1> DEFINE plain == DebugPlain \cap DOMAIN file
           shared == [q \in {"d.log.epoll", "d.log.pkt_dns"} |->
                          IF q = "d.log.epoll" THEN "d.log.proxy" ELSE "d.log.alg_dns"]
           also == {q \in DOMAIN shared : shared[q] \in DOMAIN file}
           b == [q \in also |-> file[shared[q]]]
           o1 == Update(o, Restrict(file, plain))
<1>1. load_debug(o, file) = Update(o1, b)
  BY DEF load_debug
<1>2. p \notin DOMAIN b
  BY FaithfulApart
<1>3. p \in DebugPlain => p \in plain
  OBVIOUS
<1> HIDE DEF plain, b
<1>4. TakenOver(o1, file, p)
  BY <1>3, FileTaken
<1> HIDE DEF o1
<1>5. TakenOver(Update(o1, b), file, p)
  BY <1>2, <1>4, OthersTaken
<1> QED
  BY <1>1, <1>5

\* All of them when the process starts.
LEMMA OptionsTaken ==
    ASSUME NEW o, NEW file, NEW p \in Faithful \cap DOMAIN file.opt
    PROVE  TakenOver(load_start_options(OptionsRead(o, file), file.opt), file.opt, p)
<1> DEFINE t == file.opt
           o1 == load_portal(o, t)
           o2 == load_settings(o1, t)
           o3 == load_captures(o2, t)
           o4 == load_debug(o3, t)
           S == StartOnly \cap DOMAIN t
           o5 == Update(o4, Restrict(t, S))
<1>1. load_start_options(OptionsRead(o, file), t) = o5
  BY DEF load_start_options, OptionsRead
<1>2. p \in Faithful \cap DOMAIN t
  OBVIOUS
<1> HIDE DEF t, o1
<1>3. p \in SettingsPlain => TakenOver(o2, t, p)
  BY <1>2, SettingsTaken
<1> HIDE DEF o2
<1>4. p \in SettingsPlain \cup CapturesPlain => TakenOver(o3, t, p)
  BY <1>2, <1>3, CapturesTaken
<1> HIDE DEF o3
<1>5. p \in SettingsPlain \cup CapturesPlain \cup DebugPlain => TakenOver(o4, t, p)
  BY <1>2, <1>4, DebugTaken
<1> HIDE DEF o4
<1>6. p \in S \/ TakenOver(o4, t, p)
  BY <1>2, <1>5 DEF Faithful
<1> HIDE DEF S
<1>7. TakenOver(o5, t, p)
  BY <1>6, FileTaken
<1> HIDE DEF o5
<1>8. TakenOver(load_start_options(OptionsRead(o, file), t), t, p)
  BY <1>1, <1>7
<1> QED
  BY <1>8 DEF t

\* They are written as they are.
LEMMA OptionsWritten ==
    ASSUME NEW o, NEW p \in Faithful \cap DOMAIN o
    PROVE  p \in DOMAIN SaveOptions(o) /\ SaveOptions(o)[p] = o[p]
<1> DEFINE s == save_settings(o)
           c == save_captures(o)
           d == save_debug(o)
           cd == Update(c, d)
<1>1. (p \in DOMAIN c => c[p] = o[p]) /\ (p \in CapturesPlain => p \in DOMAIN c)
  BY RestrictAt DEF save_captures
<1>2. (p \in DOMAIN d => d[p] = o[p]) /\ (p \in DebugPlain => p \in DOMAIN d)
  BY RestrictAt DEF save_debug
<1>3. (p \in DOMAIN s => s[p] = o[p]) /\ (p \in SettingsPlain \cup StartOnly => p \in DOMAIN s)
  <2> DEFINE kept == {q \in DOMAIN o : q \in SettingsPlain \cup SettingsGuarded \cup StartOnly
                                           \cup {"s.nameservers", "s.certs_ctlog", "s.udp_quick_ports"}}
  <2>1. s = [q \in kept |-> IF q = "s.udp_quick_ports" /\ o[q] = "" THEN "0" ELSE o[q]]
    BY DEF save_settings
  <2>2. p \in SettingsPlain \cup StartOnly => p \in kept
    OBVIOUS
  <2>3. p # "s.udp_quick_ports"
    BY FaithfulApart
  <2> HIDE DEF s, kept
  <2>4. DOMAIN s = kept /\ (p \in kept => s[p] = o[p])
    BY <2>1, <2>3
  <2> QED
    BY <2>2, <2>4
<1> HIDE DEF s, c, d
<1>4. (p \in DOMAIN cd => cd[p] = o[p]) /\ (p \in CapturesPlain \cup DebugPlain => p \in DOMAIN cd)
  BY <1>1, <1>2, UpdateAt
<1> HIDE DEF cd
<1>5. p \in DOMAIN s \/ p \in DOMAIN cd
  BY <1>3, <1>4 DEF Faithful
<1>6. p \in DOMAIN Update(s, cd) /\ Update(s, cd)[p] = o[p]
  BY <1>3, <1>4, <1>5, UpdateAt
<1> QED
  BY <1>6 DEF SaveOptions, s, c, d, cd

\* A process that starts from what was saved has the objects that were saved.
LEMMA FreshSaved ==
    ASSUME NEW d, DbOK(d), NEW l, ListOK(l), NEW o, NEW file, file = save_config(d, l, o)
    PROVE  /\ DbOK(Fresh(file))
           /\ \A sec \in Sections : \A n : n \in DOMAIN Fresh(file)[sec] <=> Present(d[sec], n)
           /\ \A sec \in Sections : \A n \in DOMAIN Fresh(file)[sec] : ~Fresh(file)[sec][n].null
           /\ \A sec \in FullSections : \A n \in DOMAIN Fresh(file)[sec] : Fresh(file)[sec][n].val = d[sec][n].val
<1> DEFINE new == Fresh(file)
           obj == file.obj
<1>1. FileOK(file)
  BY SavedReadable
<1>2. /\ DbOK(new) /\ Current(file, new)
      /\ \A sec \in Sections : \A n \in DOMAIN new[sec] : n \in DOMAIN obj[sec] /\ Present(new[sec], n)
  BY <1>1, FreshClean
<1>3. \A sec \in Sections : \A n \in DOMAIN obj[sec] : Loadable(sec, obj[sec][n])
  BY SavedAccepted
<1>4. ASSUME NEW sec \in Sections
      PROVE  /\ \A n : n \in DOMAIN obj[sec] <=> Present(d[sec], n)
             /\ \A n \in DOMAIN obj[sec] : obj[sec][n] = SaveObject(sec, d[sec][n].val)
  BY SavedEntries DEF Present
<1>5. \A sec \in Sections \ {"tls_ca"} : \E x : new[sec] = Objects(x, sec, obj[sec])
  <2>1. DOMAIN EmptyDb = Sections
    BY DEF EmptyDb
  <2> QED
    BY <2>1, ObjectsOf DEF Fresh
<1> HIDE DEF new, obj
<1>6. \A sec \in Sections : \A n : n \in DOMAIN new[sec] <=> n \in DOMAIN obj[sec]
  <2>1. \A sec \in Sections : \A n \in DOMAIN obj[sec] : Present(new[sec], n)
    BY <1>2, <1>3 DEF Current, CurrentIn, obj
  <2> QED
    BY <1>2, <2>1 DEF Present
<1>7. ASSUME NEW sec \in FullSections, NEW n \in DOMAIN new[sec]
      PROVE  new[sec][n].val = d[sec][n].val
  <2> DEFINE v == d[sec][n].val
  <2>1. sec \in Sections \ {"tls_ca"}
    BY DEF FullSections, Sections
  <2>2. n \in DOMAIN obj[sec] /\ obj[sec][n] = SaveObject(sec, v) /\ Present(d[sec], n)
    BY <1>4, <1>6, <2>1
  <2>3. ValOK(sec, v)
    BY <2>1, <2>2 DEF DbOK, ObjOK, Present
  <2> HIDE DEF v
  <2>4. \A x : LoadEntry(x, sec, obj[sec][n]) = {v}
    BY <2>1, <2>2, <2>3, SavedLoads
  <2>5. PICK x : new[sec] = Objects(x, sec, obj[sec])
    BY <1>5, <2>1
  <2>6. LoadEntry(x, sec, obj[sec][n]) = {v}
    BY <2>4
  <2> DEFINE entries == obj[sec]
             made == {m \in DOMAIN entries : LoadEntry(x, sec, entries[m]) # {}}
             objs == Objects(x, sec, entries)
  <2>7. \A m \in made : objs[m] = Object(TheOne(LoadEntry(x, sec, entries[m])))
    BY DEF Objects
  <2>8. n \in made
    BY <2>2, <2>6
  <2> HIDE DEF made, objs, entries
  <2>9. objs[n] = Object(TheOne({v}))
    BY <2>6, <2>7, <2>8 DEF entries
  <2>10. Object(TheOne({v})).val = v
    BY DEF Object, TheOne
  <2>11. objs[n].val = v
    BY <2>9, <2>10
  <2> QED
    BY <2>5, <2>11 DEF objs, entries, v
<1>8. \A sec \in Sections : \A n \in DOMAIN new[sec] : ~new[sec][n].null
  BY <1>2 DEF Present
<1>9. \A sec \in Sections : \A n : n \in DOMAIN new[sec] <=> Present(d[sec], n)
  BY <1>4, <1>6
<1> QED
  BY <1>2, <1>7, <1>8, <1>9 DEF new

\* The objects of a rule are there.
RuleBacked(r, d) ==
    /\ There(d, "proto_objects", r.proto.name)
    /\ \A f \in {"src", "dst"} : \A i \in DOMAIN r.group[f] : There(d, "address_objects", r.group[f][i].name)
    /\ \A f \in {"sport", "dport"} : \A i \in DOMAIN r.group[f] : There(d, "port_objects", r.group[f][i].name)
    /\ \A f \in DOMAIN r.prof : There(d, ProfileSection[f], r.prof[f].name)

LEMMA BackedRules ==
    ASSUME NEW l, NEW d, Backed(l, d), NEW k \in DOMAIN l, DOMAIN l[k].prof \subseteq DOMAIN ProfileSection
    PROVE  RuleBacked(l[k], d)
<1> DEFINE r == l[k]
           groups(sec) == CASE sec = "address_objects" -> {"src", "dst"}
                            [] sec = "port_objects" -> {"sport", "dport"}
                            [] OTHER -> {}
           refs(q, sec) == (IF sec = "proto_objects" THEN {q.proto} ELSE {})
                           \cup (UNION {Range(q.group[f]) : f \in groups(sec)})
                           \cup {q.prof[f] : f \in {g \in DOMAIN q.prof : ProfileSection[g] = sec}}
<1>1. ASSUME NEW sec \in Sections, NEW x \in refs(r, sec)
      PROVE  There(d, sec, x.name)
  <2>1. UsedNames(l, sec) = {y.name : y \in UNION {refs(q, sec) : q \in Range(l)}}
    BY DEF UsedNames
  <2>2. r \in Range(l)
    BY DEF Range
  <2> HIDE DEF refs
  <2>3. x.name \in UsedNames(l, sec)
    BY <2>1, <2>2
  <2> QED
    BY <2>3 DEF Backed, There
<1>2. {"proto_objects", "address_objects", "port_objects"} \subseteq Sections
      /\ \A f \in DOMAIN ProfileSection : ProfileSection[f] \in Sections
  BY DEF Sections, ProfileSection
<1>3. There(d, "proto_objects", r.proto.name)
  <2>1. r.proto \in refs(r, "proto_objects")
    OBVIOUS
  <2> HIDE DEF refs, r
  <2> QED
    BY <1>1, <1>2, <2>1
<1>4. ASSUME NEW sec \in Sections, NEW f \in groups(sec), NEW i \in DOMAIN r.group[f]
      PROVE  There(d, sec, r.group[f][i].name)
  <2>1. r.group[f][i] \in Range(r.group[f])
    BY DEF Range
  <2> HIDE DEF groups
  <2>2. r.group[f][i] \in refs(r, sec)
    BY <2>1
  <2> HIDE DEF refs, r
  <2> QED
    BY <1>1, <2>2
<1>5. ASSUME NEW f \in DOMAIN r.prof
      PROVE  There(d, ProfileSection[f], r.prof[f].name)
  <2> DEFINE sec == ProfileSection[f]
  <2>1. r.prof[f] \in refs(r, sec) /\ sec \in Sections
    BY <1>2
  <2> HIDE DEF refs, r, sec
  <2>2. There(d, sec, r.prof[f].name)
    BY <1>1, <2>1
  <2> QED
    BY <2>2 DEF sec
<1>6. groups("address_objects") = {"src", "dst"} /\ groups("port_objects") = {"sport", "dport"}
  OBVIOUS
<1> HIDE DEF groups, refs, r
<1>7. RuleBacked(r, d)
  BY <1>2, <1>3, <1>4, <1>5, <1>6 DEF RuleBacked
<1> QED
  BY <1>7 DEF r

\* The fields of the entry that is written for a rule.
WrittenAs(r, e) ==
    /\ DOMAIN e = {"disabled", "proto", "action", "nat", "routing"} \cup GroupFields \cup DOMAIN r.prof
    /\ e.disabled = r.disabled /\ e.proto = r.proto.name /\ e.action = r.action /\ e.nat = r.nat
    /\ \A f \in GroupFields : e[f] = [i \in DOMAIN r.group[f] |-> r.group[f][i].name]
    /\ \A f \in DOMAIN r.prof : e[f] = r.prof[f].name
    /\ "routing" \notin DOMAIN r.prof => e.routing = "none"

LEMMA RuleWritten ==
    ASSUME NEW r, DOMAIN r.prof \subseteq DOMAIN ProfileSection, NEW e, e = save_policy(r)
    PROVE  WrittenAs(r, e)
<1> DEFINE D == {"disabled", "proto", "action", "nat", "routing"} \cup GroupFields \cup DOMAIN r.prof
           v(f) == CASE f = "proto" -> r.proto.name
                     [] f \in GroupFields -> [i \in DOMAIN r.group[f] |-> r.group[f][i].name]
                     [] f \in DOMAIN r.prof -> r.prof[f].name
                     [] f = "routing" /\ f \notin DOMAIN r.prof -> "none"
                     [] OTHER -> r[f]
<1>1. e = [f \in D |-> v(f)]
  BY DEF save_policy
<1>2. /\ DOMAIN ProfileSection = {"tls_profile", "detection_profile", "content_profile", "alg_dns_profile",
                                  "auth_profile", "routing"}
      /\ GroupFields = {"src", "sport", "dst", "dport", "features"}
  BY DEF ProfileSection, GroupFields
<1>3. DOMAIN e = D /\ \A f \in D : e[f] = v(f)
  <2> HIDE DEF v, D
  <2> QED
    BY <1>1
<1>4. v("disabled") = r.disabled /\ v("proto") = r.proto.name /\ v("action") = r.action /\ v("nat") = r.nat
  BY <1>2
<1>5. ASSUME NEW f \in GroupFields
      PROVE  v(f) = [i \in DOMAIN r.group[f] |-> r.group[f][i].name]
  <2>1. f # "proto" /\ f \notin DOMAIN r.prof /\ f # "routing"
    BY <1>2
  <2> QED
    BY <2>1
<1>6. ASSUME NEW f \in DOMAIN r.prof
      PROVE  v(f) = r.prof[f].name
  <2>1. f # "proto" /\ f \notin GroupFields
    BY <1>2
  <2> QED
    BY <2>1
<1>7. "routing" \notin DOMAIN r.prof => v("routing") = "none"
  BY <1>2
<1>8. {"disabled", "proto", "action", "nat", "routing"} \subseteq D /\ GroupFields \subseteq D /\ DOMAIN r.prof \subseteq D
  OBVIOUS
<1> HIDE DEF v
<1> QED
  BY <1>3, <1>4, <1>5, <1>6, <1>7, <1>8 DEF WrittenAs

\* A name that is there is found, and what is found has this name.
FoundAs(S, n) == S # {} /\ TheOne(S).name = n

LEMMA OneFound ==
    ASSUME NEW n, NEW v
    PROVE  FoundAs({Ref(n, v)}, n)
<1>1. TheOne({Ref(n, v)}) = Ref(n, v)
  BY DEF TheOne
<1>2. Ref(n, v).name = n
  BY DEF Ref
<1> QED
  BY <1>1, <1>2 DEF FoundAs

LEMMA ThereFound ==
    ASSUME NEW d, NEW sec, NEW n, There(d, sec, n), \A m \in DOMAIN d[sec] : ~d[sec][m].null
    PROVE  /\ n # "" => FoundAs(lookup(d, sec, n), n)
           /\ sec = "port_objects" => FoundAs(lookup_port(d, n), n)
           /\ sec = "proto_objects" => FoundAs(lookup_proto(d, n), n)
<1>1. CASE n \in DOMAIN d[sec] /\ ~d[sec][n].null
  <2>1. lookup(d, sec, n) = {Ref(n, d[sec][n].val)}
    BY <1>1 DEF lookup
  <2>2. FoundAs(lookup(d, sec, n), n)
    BY <2>1, OneFound
  <2>3. sec = "port_objects" => lookup_port(d, n) = lookup(d, sec, n)
    BY <1>1 DEF lookup_port
  <2>4. sec = "proto_objects" => lookup_proto(d, n) = lookup(d, sec, n)
    BY <1>1 DEF lookup_proto
  <2> QED
    BY <2>2, <2>3, <2>4
<1>2. CASE n = "" /\ n \notin DOMAIN d[sec]
  <2>1. sec = "port_objects" => lookup_port(d, n) = {Ref("", [start |-> -1, end |-> -1])}
    BY <1>2 DEF lookup_port
  <2>2. sec = "proto_objects" => lookup_proto(d, n) = {Ref("", [id |-> 0])}
    BY <1>2 DEF lookup_proto
  <2>3. \A v : FoundAs({Ref("", v)}, "")
    BY OneFound
  <2> QED
    BY <1>2, <2>1, <2>2, <2>3
<1> QED
  BY <1>1, <1>2 DEF There

\* The entry written for a rule is refused if the rule has features, which have
\* no name to be found under, or no nat; otherwise it gives back the names.
LEMMA RuleComesBack ==
    ASSUME NEW r, RuleOK(r), NEW d, \A sec \in Sections : \A n \in DOMAIN d[sec] : ~d[sec][n].null,
           RuleBacked(r, d), NEW e, e = save_policy(r)
    PROVE  /\ RuleError(d, e) <=> ~ReadBack(r)
           /\ ReadBack(r) => Names(MakeRule(d, e)) = Names(r)
<1> DEFINE looked(f, i) == lookup_group(d, f, r.group[f][i].name)
<1>0. /\ DOMAIN r.prof \subseteq DOMAIN ProfileSection
      /\ \A f \in DOMAIN r.prof : r.prof[f].name # "" /\ ~(f = "routing" /\ r.prof[f].name = "none")
      /\ r.action # "accept" => DOMAIN r.prof = {}
      /\ r.action \in {"accept", "deny"}
  BY DEF RuleOK
<1>1. /\ DOMAIN e = {"disabled", "proto", "action", "nat", "routing"} \cup GroupFields \cup DOMAIN r.prof
      /\ e.disabled = r.disabled /\ e.proto = r.proto.name /\ e.action = r.action /\ e.nat = r.nat
      /\ \A f \in GroupFields : e[f] = [i \in DOMAIN r.group[f] |-> r.group[f][i].name]
      /\ \A f \in DOMAIN r.prof : e[f] = r.prof[f].name
      /\ "routing" \notin DOMAIN r.prof => e.routing = "none"
  <2>1. DOMAIN r.prof \subseteq DOMAIN ProfileSection
    BY <1>0
  <2>2. WrittenAs(r, e)
    BY <2>1, RuleWritten
  <2> QED
    BY <2>2 DEF WrittenAs
<1>2. /\ \A f \in GroupFields : Group(e, f) = [i \in DOMAIN r.group[f] |-> r.group[f][i].name]
      /\ Has(e, {"proto"})
      /\ \A x : load_if_exists(e, "action", x) = r.action /\ load_if_exists(e, "nat", x) = r.nat
                /\ load_if_exists(e, "disabled", x) = r.disabled
  BY <1>1 DEF Group, load_if_exists, Has
<1>3. load_if_exists(e, "script_profile", "") = ""
  <2>1. "script_profile" \notin DOMAIN e
    BY <1>0, <1>1 DEF GroupFields, ProfileSection
  <2> QED
    BY <2>1 DEF load_if_exists
<1>4. ProfileNames(e) = DOMAIN r.prof
  <2>1. ASSUME NEW f \in DOMAIN r.prof
        PROVE  f \in ProfileNames(e)
    BY <1>0, <1>1 DEF ProfileNames
  <2>2. ASSUME NEW f \in ProfileNames(e)
        PROVE  f \in DOMAIN r.prof
    <3>1. f \in DOMAIN ProfileSection /\ f \in DOMAIN e /\ ~(f = "routing" /\ e[f] = "none")
      BY DEF ProfileNames
    <3>2. f \in DOMAIN r.prof \/ f = "routing"
      BY <1>1, <3>1 DEF ProfileSection, GroupFields
    <3> QED
      BY <1>1, <3>1, <3>2
  <2> QED
    BY <2>1, <2>2
<1>5. \A f \in DOMAIN r.prof : FoundAs(lookup(d, ProfileSection[f], e[f]), r.prof[f].name)
  <2> SUFFICES ASSUME NEW f \in DOMAIN r.prof
               PROVE  FoundAs(lookup(d, ProfileSection[f], e[f]), r.prof[f].name)
    OBVIOUS
  <2> DEFINE sec == ProfileSection[f]
             n == r.prof[f].name
  <2>1. There(d, sec, n)
    BY DEF RuleBacked
  <2>2. sec \in Sections
    <3>1. \A g \in DOMAIN ProfileSection : ProfileSection[g] \in Sections
      BY DEF ProfileSection, Sections
    <3>2. f \in DOMAIN ProfileSection
      BY <1>0
    <3> QED
      BY <3>1, <3>2
  <2>3. n # "" /\ e[f] = n
    BY <1>0, <1>1
  <2> HIDE DEF sec, n
  <2>4. FoundAs(lookup(d, sec, n), n)
    BY <2>1, <2>2, <2>3, ThereFound
  <2> QED
    BY <2>3, <2>4 DEF sec, n
<1>6. FoundAs(lookup_proto(d, e.proto), r.proto.name)
  <2>1. There(d, "proto_objects", r.proto.name) /\ "proto_objects" \in Sections
    BY DEF RuleBacked, Sections
  <2> QED
    BY <1>1, <2>1, ThereFound
<1>7. ASSUME NEW f \in GroupFields, f # "features", NEW i \in DOMAIN r.group[f]
      PROVE  FoundAs(looked(f, i), r.group[f][i].name)
  <2> DEFINE n == r.group[f][i].name
  <2>1. {"address_objects", "port_objects"} \subseteq Sections
    BY DEF Sections
  <2>2. CASE f \in {"src", "dst"}
    <3>1. There(d, "address_objects", n)
      BY <2>2 DEF RuleBacked
    <3>2. n # ""
      BY <2>2 DEF RuleOK
    <3>3. looked(f, i) = lookup(d, "address_objects", n)
      BY <2>2 DEF lookup_group
    <3> HIDE DEF n
    <3>4. FoundAs(lookup(d, "address_objects", n), n)
      BY <2>1, <3>1, <3>2, ThereFound
    <3> QED
      BY <3>3, <3>4 DEF n
  <2>3. CASE f \in {"sport", "dport"}
    <3>1. There(d, "port_objects", n)
      BY <2>3 DEF RuleBacked
    <3>2. looked(f, i) = lookup_port(d, n)
      BY <2>3 DEF lookup_group
    <3> HIDE DEF n
    <3>3. FoundAs(lookup_port(d, n), n)
      BY <2>1, <3>1, ThereFound
    <3> QED
      BY <3>2, <3>3 DEF n
  <2> QED
    BY <1>7, <2>2, <2>3 DEF GroupFields
<1>8. \A i \in DOMAIN r.group["features"] : looked("features", i) = {}
  <2> SUFFICES ASSUME NEW i \in DOMAIN r.group["features"]
               PROVE  looked("features", i) = {}
    OBVIOUS
  <2>1. r.group["features"][i].name = ""
    BY DEF RuleOK
  <2>2. looked("features", i) = {Ref("", x) : x \in Features \cap {r.group["features"][i].name}}
    BY DEF lookup_group
  <2>3. "" \notin Features
    BY DEF Features
  <2>4. Features \cap {r.group["features"][i].name} = {}
    BY <2>1, <2>3
  <2> QED
    BY <2>2, <2>4
<1> HIDE DEF looked
<1>9. r.nat \in {"auto", "none"} <=> r.nat # ""
  BY DEF RuleOK
<1>10. Has(e, {"proto"}) /\ lookup_proto(d, e.proto) # {}
  BY <1>2, <1>6 DEF FoundAs
<1>11. (\E f \in GroupFields : \E i \in DOMAIN Group(e, f) : lookup_group(d, f, Group(e, f)[i]) = {})
           <=> DOMAIN r.group["features"] # {}
  <2>1. \A f \in GroupFields : /\ DOMAIN Group(e, f) = DOMAIN r.group[f]
                              /\ \A i \in DOMAIN r.group[f] : lookup_group(d, f, Group(e, f)[i]) = looked(f, i)
    BY <1>2 DEF looked
  <2>2. \A f \in GroupFields : f # "features" => \A i \in DOMAIN r.group[f] : looked(f, i) # {}
    BY <1>7 DEF FoundAs
  <2>3. "features" \in GroupFields
    BY DEF GroupFields
  <2> QED
    BY <1>8, <2>1, <2>2, <2>3
<1>12. ~ \E f \in ProfileNames(e) : lookup(d, ProfileSection[f], e[f]) = {}
  BY <1>4, <1>5 DEF FoundAs
<1>13. RuleError(d, e) <=> DOMAIN r.group["features"] # {} \/ r.nat \notin {"auto", "none"}
  BY <1>0, <1>2, <1>3, <1>10, <1>11, <1>12 DEF RuleError
<1>14. RuleError(d, e) <=> ~ReadBack(r)
  BY <1>9, <1>13 DEF ReadBack
<1>15. ASSUME ReadBack(r)
       PROVE  Names(MakeRule(d, e)) = Names(r)
  <2> DEFINE m == MakeRule(d, e)
             gnames(q) == [f \in GroupFields |-> [i \in DOMAIN q.group[f] |-> q.group[f][i].name]]
             pnames(q) == [f \in DOMAIN q.prof |-> q.prof[f].name]
             named == IF r.action = "accept" THEN ProfileNames(e) ELSE {}
  <2>1. /\ m.disabled = r.disabled /\ m.action = r.action /\ m.nat = r.nat
        /\ m.proto = TheOne(lookup_proto(d, e.proto))
        /\ \A f \in GroupFields : m.group[f] = [i \in DOMAIN Group(e, f) |-> TheOne(lookup_group(d, f, Group(e, f)[i]))]
        /\ m.prof = [f \in named |-> TheOne(lookup(d, ProfileSection[f], e[f]))]
    BY <1>2 DEF MakeRule
  <2>2. named = DOMAIN r.prof
    BY <1>0, <1>4
  <2> HIDE DEF m, named
  <2>3. m.proto.name = r.proto.name
    BY <1>6, <2>1 DEF FoundAs
  <2>4. \A f \in GroupFields : m.group[f] = [i \in DOMAIN r.group[f] |-> TheOne(looked(f, i))]
    BY <1>2, <2>1 DEF looked
  <2>5. ASSUME NEW f \in GroupFields
        PROVE  [i \in DOMAIN m.group[f] |-> m.group[f][i].name] = [i \in DOMAIN r.group[f] |-> r.group[f][i].name]
    <3>1. DOMAIN m.group[f] = DOMAIN r.group[f]
      BY <2>4
    <3>2. ASSUME NEW i \in DOMAIN r.group[f]
          PROVE  m.group[f][i].name = r.group[f][i].name
      <4>1. f # "features"
        BY <1>15 DEF ReadBack
      <4>2. m.group[f][i] = TheOne(looked(f, i))
        BY <2>4
      <4> QED
        BY <1>7, <4>1, <4>2 DEF FoundAs
    <3> QED
      BY <3>1, <3>2
  <2>6. gnames(m) = gnames(r)
    BY <2>5
  <2>7. pnames(m) = pnames(r)
    <3>1. DOMAIN m.prof = DOMAIN r.prof
      BY <2>1, <2>2
    <3>2. ASSUME NEW f \in DOMAIN r.prof
          PROVE  m.prof[f].name = r.prof[f].name
      BY <1>5, <2>1, <2>2 DEF FoundAs
    <3> QED
      BY <3>1, <3>2
  <2>8. \A q : Names(q) = [disabled |-> q.disabled, proto |-> q.proto.name, action |-> q.action, nat |-> q.nat,
                          group |-> gnames(q), prof |-> pnames(q)]
    BY DEF Names
  <2> HIDE DEF gnames, pnames
  <2>9. Names(m) = Names(r)
    BY <2>1, <2>3, <2>6, <2>7, <2>8
  <2> QED
    BY <2>9 DEF m
<1> QED
  BY <1>14, <1>15

\* The rules that can be read back come back in their order.
LEMMA RulesComeBack ==
    ASSUME NEW l, ListOK(l), NEW d, \A sec \in Sections : \A n \in DOMAIN d[sec] : ~d[sec][n].null,
           \A k \in DOMAIN l : RuleBacked(l[k], d),
           NEW s, Len(s) = Len(l), \A i \in 1..Len(l) : s[i] = save_policy(l[i])
    PROVE  /\ Len(load_db_policy(d, s)) = Len(ReadBackOf(l))
           /\ \A m \in 1..Len(ReadBackOf(l)) : Names(load_db_policy(d, s)[m]) = Names(ReadBackOf(l)[m])
<1> DEFINE n == Len(l)
           good == [i \in 1..n |-> ReadBack(l[i])]
           same == [i \in 1..n |-> l[i]]
           now == load_db_policy(d, s)
           was == ReadBackOf(l)
<1>1. n \in Nat /\ DOMAIN l = 1..n
  <2>1. l \in Seq(Range(l))
    BY DEF ListOK
  <2> QED
    BY <2>1
<1>2. Len(s) = n /\ \A i \in 1..n : s[i] = save_policy(l[i])
  OBVIOUS
<1>3. ASSUME NEW i \in 1..n
      PROVE  /\ RuleError(d, s[i]) <=> ~ReadBack(l[i])
             /\ ReadBack(l[i]) => Names(MakeRule(d, s[i])) = Names(l[i])
  <2> DEFINE r == l[i]
  <2>1. RuleOK(r) /\ RuleBacked(r, d)
    BY <1>1 DEF ListOK
  <2>2. s[i] = save_policy(r)
    BY <1>2
  <2> HIDE DEF r
  <2>3. (RuleError(d, s[i]) <=> ~ReadBack(r)) /\ (ReadBack(r) => Names(MakeRule(d, s[i])) = Names(r))
    BY <2>1, <2>2, RuleComesBack
  <2> QED
    BY <2>3 DEF r
<1>4. Good(d, s) = good
  <2>1. ASSUME NEW i \in 1..n
        PROVE  ReadBack(l[i]) = ~RuleError(d, s[i])
    <3>1. ReadBack(l[i]) \in BOOLEAN /\ RuleError(d, s[i]) \in BOOLEAN
      BY DEF ReadBack, RuleError
    <3> QED
      BY <1>3, <3>1
  <2> QED
    BY <1>2, <2>1 DEF Good
<1>5. PICK f : Loop(Good(d, s), Made(d, s), f, n) /\ now = f[n]
  BY <1>1, <1>2, PolicyLoop
<1>6. PICK g : Loop(good, same, g, n) /\ was = g[n]
  BY <1>1, ReadBackLoop
<1>7. \A i \in 1..n : (good[i] <=> ReadBack(l[i])) /\ same[i] = l[i]
  OBVIOUS
<1>8. \A i \in 1..n : Made(d, s)[i] = MakeRule(d, s[i])
  BY <1>2 DEF Made
<1> HIDE DEF good, same, now, was, n
<1>9. Loop(good, Made(d, s), f, n)
  BY <1>4, <1>5
<1>10. Paired(good, Made(d, s), same, n, f[n], g[n])
  BY <1>1, <1>6, <1>9, Lockstep
<1>11. Paired(good, Made(d, s), same, n, now, was)
  BY <1>5, <1>6, <1>10
<1>12. Len(now) = Len(was)
  BY <1>11 DEF Paired
<1>13. ASSUME NEW m \in 1..Len(was)
       PROVE  Names(now[m]) = Names(was[m])
  <2>1. m \in 1..Len(now)
    BY <1>12
  <2>2. PICK i \in 1..n : good[i] /\ now[m] = Made(d, s)[i] /\ was[m] = same[i]
    BY <1>11, <2>1 DEF Paired
  <2> QED
    BY <1>3, <1>7, <1>8, <2>2
<1> QED
  BY <1>12, <1>13 DEF now, was

\* What was saved, and that it was proper.
SavedAs(file, w) ==
    /\ file = save_config(w.db, w.list, w.opt)
    /\ DbOK(w.db) /\ ListOK(w.list) /\ Backed(w.list, w.db)

\* A process that starts with the file has it back.
ComesBack(now, was) ==
    /\ \A rules \in {ReadBackOf(was.list)} :
          /\ Len(now.list) = Len(rules)
          /\ \A i \in 1..Len(rules) : Names(now.list[i]) = Names(rules[i])
    /\ \A sec \in FullSections :
          [n \in DOMAIN now.db[sec] |-> now.db[sec][n].val]
          = [n \in {x \in DOMAIN was.db[sec] : ~was.db[sec][x].null} |-> was.db[sec][n].val]
    /\ \A p \in (SettingsPlain \cup CapturesPlain \cup DebugPlain \cup StartOnly) \cap DOMAIN was.opt :
          p \in DOMAIN now.opt /\ now.opt[p] = was.opt[p]

LEMMA FileComesBack ==
    ASSUME NEW file, NEW was, SavedAs(file, was), NEW o
    PROVE  ComesBack(load_config(file, EmptyDb, o, TRUE), was)
<1> DEFINE now == load_config(file, EmptyDb, o, TRUE)
           d == was.db
           l == was.list
           new == Fresh(file)
           s == [i \in 1..Len(l) |-> save_policy(l[i])]
           rules == ReadBackOf(l)
<1>1. file = save_config(d, l, was.opt) /\ DbOK(d) /\ ListOK(l) /\ Backed(l, d)
  BY DEF SavedAs
<1>2. file.policy = s /\ file.opt = SaveOptions(was.opt)
  BY <1>1 DEF save_config
<1>3. /\ now.list = load_db_policy(new, file.policy)
      /\ now.db = mark_usage(new, now.list)
      /\ now.opt = load_start_options(OptionsRead(o, file), file.opt)
  BY FreshConfig
<1> HIDE DEF now, d, l
<1>4. /\ DbOK(new)
      /\ \A sec \in Sections : \A n : n \in DOMAIN new[sec] <=> Present(d[sec], n)
      /\ \A sec \in Sections : \A n \in DOMAIN new[sec] : ~new[sec][n].null
      /\ \A sec \in FullSections : \A n \in DOMAIN new[sec] : new[sec][n].val = d[sec][n].val
  BY <1>1, FreshSaved
<1> HIDE DEF new
<1>5. \A k \in DOMAIN l : RuleBacked(l[k], new)
  <2> SUFFICES ASSUME NEW k \in DOMAIN l PROVE RuleBacked(l[k], new)
    OBVIOUS
  <2>1. Backed(l, new)
    BY <1>1, <1>4 DEF Backed, Present
  <2>2. DOMAIN l[k].prof \subseteq DOMAIN ProfileSection
    BY <1>1 DEF ListOK, RuleOK
  <2> QED
    BY <2>1, <2>2, BackedRules
<1> HIDE DEF s, rules
<1>6. Len(now.list) = Len(rules) /\ \A i \in 1..Len(rules) : Names(now.list[i]) = Names(rules[i])
  <2>0. Len(l) \in Nat
    <3>1. l \in Seq(Range(l))
      BY <1>1 DEF ListOK
    <3> QED
      BY <3>1
  <2>1. Len(s) = Len(l) /\ \A i \in 1..Len(l) : s[i] = save_policy(l[i])
    BY <2>0 DEF s
  <2>2. /\ Len(load_db_policy(new, s)) = Len(rules)
        /\ \A m \in 1..Len(rules) : Names(load_db_policy(new, s)[m]) = Names(rules[m])
    BY <1>1, <1>4, <1>5, <2>1, RulesComeBack DEF rules
  <2> QED
    BY <1>2, <1>3, <2>2
<1>7. ASSUME NEW sec \in FullSections
      PROVE  [n \in DOMAIN now.db[sec] |-> now.db[sec][n].val]
             = [n \in {x \in DOMAIN d[sec] : ~d[sec][x].null} |-> d[sec][n].val]
  <2>0. sec \in Sections
    BY DEF FullSections, Sections
  <2> DEFINE marked == mark_usage(new, now.list)
  <2>1. DOMAIN marked[sec] = DOMAIN new[sec] /\ \A n \in DOMAIN new[sec] : marked[sec][n].val = new[sec][n].val
    BY <1>4, <2>0, UsageMarked
  <2> HIDE DEF marked
  <2>2. now.db = marked
    BY <1>3 DEF marked
  <2>3. DOMAIN now.db[sec] = {x \in DOMAIN d[sec] : ~d[sec][x].null}
    BY <1>4, <2>0, <2>1, <2>2 DEF Present
  <2>4. \A n \in DOMAIN now.db[sec] : now.db[sec][n].val = d[sec][n].val
    BY <1>4, <2>1, <2>2
  <2> QED
    BY <2>3, <2>4
<1>8. ASSUME NEW p \in Faithful \cap DOMAIN was.opt
      PROVE  p \in DOMAIN now.opt /\ now.opt[p] = was.opt[p]
  <2>1. p \in DOMAIN file.opt /\ file.opt[p] = was.opt[p]
    BY <1>2, OptionsWritten
  <2>2. TakenOver(now.opt, file.opt, p)
    BY <1>3, <2>1, OptionsTaken
  <2> QED
    BY <2>1, <2>2 DEF TakenOver
<1>9. ComesBack(now, was)
  BY <1>6, <1>7, <1>8 DEF ComesBack, Faithful, rules, d, l
<1> QED
  BY <1>9 DEF now

LEMMA Single == \A x : <<x>>[1] = x /\ <<x>> # <<>>
OBVIOUS

\* A start leaves the file, or writes the upgraded one.
LEMMA BootWrites ==
    ASSUME NEW file, FileOK(file), NEW b \in Boot(file)
    PROVE  \/ b.saved = <<>> /\ b.disk = file
           \/ b.saved # <<>> /\ SavedAs(b.disk, b.saved[1])
<1> DEFINE none == [p \in {} |-> ""]
           s == load_config(file, EmptyDb, none, TRUE)
           o == Upgraded(file, s.opt)
           w == [db |-> s.db, list |-> s.list, opt |-> o]
<1> HIDE DEF none
<1>1. Running(file, file, s.db, s.list)
  <2>1. DbOK(EmptyDb)
    BY DEF DbOK, EmptyDb, NoFields
  <2>2. \A sec \in Sections : \A n : ~Present(EmptyDb[sec], n)
    BY DEF EmptyDb, Present, NoFields
  <2> QED
    BY <2>1, <2>2, ConfigLoaded
<1>2. \/ b.saved = <<>> /\ b.disk = file
      \/ b.saved = <<w>> /\ b.disk = save_config(s.db, s.list, o)
  <2>1. BootOf(file, s, b)
    BY BootCases DEF none
  <2> DEFINE new == save_config(s.db, s.list, o)
             again == load_config(new, s.db, o, TRUE)
             kept == [s EXCEPT !.opt = o]
  <2> HIDE DEF s
  <2>2. \/ b = [run |-> s, disk |-> file, saved |-> <<>>]
        \/ b = [run |-> kept, disk |-> file, saved |-> <<>>]
        \/ b = [run |-> again, disk |-> new, saved |-> <<w>>]
    BY <2>1 DEF BootOf
  <2> HIDE DEF new, again, kept, w
  <2>3. (b.saved = <<>> /\ b.disk = file) \/ (b.saved = <<w>> /\ b.disk = new)
    BY <2>2
  <2> QED
    BY <2>3 DEF new
<1>3. DbOK(s.db) /\ ListOK(s.list) /\ Backed(s.list, s.db)
  BY <1>1 DEF Running
<1> HIDE DEF s, o
<1>4. w.db = s.db /\ w.list = s.list /\ w.opt = o
  OBVIOUS
<1> HIDE DEF w
<1>5. SavedAs(save_config(s.db, s.list, o), w)
  BY <1>3, <1>4 DEF SavedAs
<1>6. CASE b.saved = <<w>> /\ b.disk = save_config(s.db, s.list, o)
  <2>1. b.saved[1] = w /\ b.saved # <<>>
    BY <1>6, Single, Zenon
  <2> QED
    BY <1>5, <1>6, <2>1
<1> QED
  BY <1>2, <1>6

\* The file is what was written last.
Written == saved # <<>> => SavedAs(disk, saved[1])

\* Only a save and a start write the file.
LEMMA WritesKnown ==
    ASSUME Next
    PROVE  \/ disk' = disk /\ saved' = saved
           \/ Save
           \/ Crash
BY ZenonT(40) DEF Next, Add, AddPolicy, SetObject, SetPolicy, TogglePolicy, WritePolicy, TogglePorts, SetOption,
                  RemoveObject, RemovePolicy, Reload, Restart

LEMMA WrittenStep ==
    ASSUME Inv, Written, [Next]_vars
    PROVE  Written'
<1>1. CASE disk' = disk /\ saved' = saved
  BY <1>1 DEF Written
<1>2. CASE Save
  <2> DEFINE w == [db |-> db, list |-> list, opt |-> opt]
  <2>1. disk' = save_config(db, list, opt) /\ saved' = <<w>>
    BY <1>2 DEF Save
  <2>2. DbOK(db) /\ ListOK(list) /\ Backed(list, db)
    BY DEF Inv, Running
  <2>3. w.db = db /\ w.list = list /\ w.opt = opt
    OBVIOUS
  <2> HIDE DEF w
  <2>4. SavedAs(disk', w)
    BY <2>1, <2>2, <2>3 DEF SavedAs
  <2>5. saved'[1] = w
    BY <2>1
  <2> QED
    BY <2>4, <2>5 DEF Written
<1>3. CASE Crash
  <2>1. PICK b \in Boot(disk) : Up(b) /\ saved' = IF b.saved = <<>> THEN saved ELSE b.saved
    BY <1>3 DEF Crash
  <2>2. FileOK(disk)
    BY DEF Inv
  <2>3. disk' = b.disk
    BY <2>1 DEF Up
  <2>4. \/ b.saved = <<>> /\ b.disk = disk
        \/ b.saved # <<>> /\ SavedAs(b.disk, b.saved[1])
    BY <2>2, BootWrites
  <2>5. CASE b.saved = <<>> /\ b.disk = disk
    BY <2>1, <2>3, <2>5 DEF Written
  <2>6. CASE b.saved # <<>> /\ SavedAs(b.disk, b.saved[1])
    BY <2>1, <2>3, <2>6 DEF Written
  <2> QED
    BY <2>4, <2>5, <2>6
<1>4. CASE vars' = vars
  BY <1>1, <1>4 DEF vars
<1> QED
  BY <1>1, <1>2, <1>3, <1>4, WritesKnown

\* A process that starts from the file written last has the same rules, but
\* for those that cannot be read back, the same objects and the same options
\* (save_config and the loaders of load_config).
THEOREM SavesComeBack == Spec => []SavedComesBack
<1>1. Init => Written
  <2> SUFFICES ASSUME Init PROVE Written
    OBVIOUS
  <2>1. PICK file \in InitDisks : \E b \in Boot(file) : disk = b.disk /\ saved = b.saved
    BY DEF Init
  <2>2. PICK b \in Boot(file) : disk = b.disk /\ saved = b.saved
    BY <2>1
  <2>3. FileOK(file)
    BY CfgObjectsAssumption
  <2>4. b.saved = <<>> \/ SavedAs(b.disk, b.saved[1])
    BY <2>3, BootWrites
  <2> QED
    BY <2>2, <2>4 DEF Written
<1>2. Written => SavedComesBack
  <2> SUFFICES ASSUME Written, saved # <<>>
               PROVE  ComesBack(load_config(disk, EmptyDb, [p \in {} |-> ""], TRUE), saved[1])
    BY ZenonT(40) DEF SavedComesBack, ComesBack
  <2>1. SavedAs(disk, saved[1])
    BY DEF Written
  <2> QED
    BY <2>1, FileComesBack
<1>3. Inv /\ Written /\ [Next]_vars => Written'
  BY WrittenStep
<1> QED
  BY <1>1, <1>2, <1>3, InitInv, NextInv, PTL DEF Spec

-----------------------------------------------------------------------------
(* What `set` accepts can be loaded.                                       *)

\* No entry of the registries is null.
Whole(d) == \A sec \in Sections : \A n \in DOMAIN d[sec] : ~d[sec][n].null

\* Then a name that is there is found, and protocols and ports always are.
LEMMA WholeFinds ==
    ASSUME NEW d, Whole(d), NEW n
    PROVE  /\ lookup_proto(d, n) # {} /\ lookup_port(d, n) # {}
           /\ \A sec \in Sections : lookup(d, sec, n) # {} <=> n \in DOMAIN d[sec]
<1>1. ASSUME NEW sec \in Sections PROVE lookup(d, sec, n) # {} <=> n \in DOMAIN d[sec]
  BY DEF lookup, Whole
<1>2. "proto_objects" \in Sections /\ "port_objects" \in Sections
  BY DEF Sections
<1>3. lookup_proto(d, n) # {}
  BY <1>1, <1>2 DEF lookup_proto
<1>4. lookup_port(d, n) # {}
  BY <1>1, <1>2 DEF lookup_port
<1> QED
  BY <1>1, <1>3, <1>4

\* The sections that groups and profiles refer to.
LEMMA FieldSections ==
    /\ "address_objects" \in Sections /\ "port_objects" \in Sections /\ "proto_objects" \in Sections
    /\ \A f \in DOMAIN ProfileSection : ProfileSection[f] \in Sections
BY DEF ProfileSection, Sections

\* An entry of the policy is still accepted when names only came in.
LEMMA StillAccepted ==
    ASSUME NEW d, Whole(d), NEW e, Whole(e), \A sec \in Sections : DOMAIN d[sec] \subseteq DOMAIN e[sec],
           NEW x, ~RuleError(d, x)
    PROVE  ~RuleError(e, x)
<1>1. \A n : lookup_proto(e, n) # {} /\ lookup_port(e, n) # {}
  BY WholeFinds
<1>2. \A sec \in Sections : \A n : lookup(d, sec, n) # {} => lookup(e, sec, n) # {}
  BY WholeFinds
<1>3. ASSUME NEW f \in GroupFields, NEW n, lookup_group(d, f, n) # {}
      PROVE  lookup_group(e, f, n) # {}
  <2>1. CASE f \in {"src", "dst"}
    BY <1>2, <1>3, <2>1, FieldSections DEF lookup_group
  <2>2. CASE f \in {"sport", "dport"}
    BY <1>1, <2>2 DEF lookup_group
  <2>3. CASE f = "features"
    BY <1>3, <2>3 DEF lookup_group
  <2> QED
    BY <2>1, <2>2, <2>3 DEF GroupFields
<1>4. ~(Has(x, {"proto"}) /\ lookup_proto(e, x.proto) = {})
  BY <1>1
<1>5. ASSUME NEW f \in GroupFields, NEW i \in DOMAIN Group(x, f)
      PROVE  lookup_group(e, f, Group(x, f)[i]) # {}
  <2>1. lookup_group(d, f, Group(x, f)[i]) # {}
    BY <1>5 DEF RuleError
  <2> QED
    BY <1>3, <2>1
<1>6. ASSUME NEW f \in ProfileNames(x), load_if_exists(x, "action", "deny") = "accept"
      PROVE  lookup(e, ProfileSection[f], x[f]) # {}
  <2>1. lookup(d, ProfileSection[f], x[f]) # {}
    BY <1>6 DEF RuleError
  <2> QED
    BY <1>2, <2>1, ProfilesFiled
<1>7. /\ load_if_exists(x, "action", "deny") \in {"accept", "deny"}
      /\ load_if_exists(x, "nat", "none") \in {"auto", "none"}
      /\ ~(load_if_exists(x, "action", "deny") = "accept" /\ load_if_exists(x, "script_profile", "") # "")
  BY DEF RuleError
<1> QED
  BY <1>4, <1>5, <1>6, <1>7 DEF RuleError

\* One field of e is written, with arguments that were checked.
WroteField(d, sec, e, f, args, new) ==
    /\ DOMAIN new = DOMAIN e
    /\ \A g \in DOMAIN e : g # f => new[g] = e[g]
    /\ f \in ListFields => new[f] = args /\ \A i \in DOMAIN args : value_check(d, sec, f, args[i])
    /\ f \notin ListFields /\ f # "redirect_warning_ports" =>
          \E v : new[f] \in write_value(d, sec, e, f, v)

\* That is what a command that is accepted leaves of an entry.
LEMMA FieldWritten ==
    ASSUME NEW d, NEW sec, NEW e, NEW f \in DOMAIN e, NEW args, cfg_write_value(d, sec, e, f, args).ok,
           NEW new, new = cfg_write_value(d, sec, e, f, args).entry
    PROVE  WroteField(d, sec, e, f, args, new)
<1> DEFINE first == IF args = <<>> THEN "" ELSE args[1]
           Ok == \A i \in DOMAIN args : value_check(d, sec, f, args[i])
           vals == write_value(d, sec, e, f, first)
           w == cfg_write_value(d, sec, e, f, args)
<1>1. \A x : /\ DOMAIN [e EXCEPT ![f] = x] = DOMAIN e
             /\ [e EXCEPT ![f] = x][f] = x
             /\ \A g \in DOMAIN e : g # f => [e EXCEPT ![f] = x][g] = e[g]
  OBVIOUS
<1>2. CASE f = "redirect_warning_ports"
  <2>1. w.entry = [e EXCEPT ![f] = write_ports(e[f], args).new]
    BY <1>2 DEF cfg_write_value
  <2>2. f \notin ListFields
    BY <1>2 DEF ListFields
  <2>3. new = w.entry
    OBVIOUS
  <2> HIDE DEF w
  <2> QED
    BY <1>1, <1>2, <2>1, <2>2, <2>3 DEF WroteField
<1>3. CASE f # "redirect_warning_ports" /\ f \in ListFields
  <2>1. w = IF Ok THEN [ok |-> TRUE, entry |-> [e EXCEPT ![f] = args]] ELSE [ok |-> FALSE, entry |-> e]
    BY <1>3 DEF cfg_write_value
  <2>2. w.ok /\ new = w.entry
    OBVIOUS
  <2> HIDE DEF w
  <2>3. Ok /\ new = [e EXCEPT ![f] = args]
    <3> HIDE DEF Ok
    <3> QED
      BY <2>1, <2>2
  <2> QED
    BY <1>1, <1>3, <2>3 DEF WroteField
<1>4. CASE f # "redirect_warning_ports" /\ f \notin ListFields
  <2>1. w = IF vals = {} THEN [ok |-> FALSE, entry |-> e]
            ELSE [ok |-> TRUE, entry |-> [e EXCEPT ![f] = CHOOSE v \in vals : TRUE]]
    BY <1>4 DEF cfg_write_value
  <2>2. w.ok /\ new = w.entry
    OBVIOUS
  <2> HIDE DEF w, first
  <2>3. PICK x \in vals : new = [e EXCEPT ![f] = x]
    <3> HIDE DEF vals
    <3> QED
      BY <2>1, <2>2
  <2> QED
    BY <1>1, <1>4, <2>3 DEF WroteField
<1> QED
  BY <1>2, <1>3, <1>4

\* A field of the policy whose value decides whether it is accepted is written
\* as it is given.
LEMMA PlainFields ==
    ASSUME NEW f, f \in {"action", "nat", "script_profile", "type"} \cup DOMAIN ProfileSection
    PROVE  f \notin BoolFields /\ f \notin IntFields /\ f \notin ListFields /\ f # "redirect_warning_ports"
<1>1. f \in {"action", "nat", "script_profile", "type", "tls_profile", "detection_profile", "content_profile",
             "alg_dns_profile", "auth_profile", "routing"}
  BY DEF ProfileSection
<1>2. f \notin IntFields /\ f \notin ListFields /\ f # "redirect_warning_ports"
  BY <1>1 DEF IntFields, ListFields
<1>3. f \notin DOMAIN ProfileAlgDns
  BY <1>1 DEF ProfileAlgDns
<1>4. f \notin DOMAIN ProfileTls
  BY <1>1 DEF ProfileTls
<1>5. f \notin BoolFields
  BY <1>1, <1>3, <1>4 DEF BoolFields
<1> QED
  BY <1>2, <1>5

\* An entry of an object that was accepted still is after a `set`: no field is
\* lost, and the type of an address is a word the loader knows.
LEMMA StillLoadable ==
    ASSUME NEW d, NEW sec \in Sections, NEW e, NEW f \in DOMAIN e, NEW args,
           cfg_write_value(d, sec, e, f, args).ok, Loadable(sec, e),
           NEW new, new = cfg_write_value(d, sec, e, f, args).entry
    PROVE  Loadable(sec, new)
<1>0. WroteField(d, sec, e, f, args, new)
  BY FieldWritten
<1>1. DOMAIN new = DOMAIN e /\ \A g \in DOMAIN e : g # f => new[g] = e[g]
  BY <1>0 DEF WroteField
<1>2. f = "type" => \E v : new["type"] \in write_value(d, sec, e, f, v)
  <2> SUFFICES ASSUME f = "type" PROVE \E v : new[f] \in write_value(d, sec, e, f, v)
    OBVIOUS
  <2>1. f \notin ListFields /\ f # "redirect_warning_ports"
    BY PlainFields
  <2> QED
    BY <1>0, <2>1 DEF WroteField
<1>3. CASE sec = "address_objects"
  <2>0. \A x : Loadable(sec, x) <=> load_db_address(x) # {}
    BY <1>3 DEF Loadable, LoadEntry
  <2>1. CASE f # "type"
    <3>1. load_if_exists(new, "type", "") = load_if_exists(e, "type", "")
      BY <1>1, <2>1 DEF load_if_exists
    <3>2. Has(new, {"value"}) <=> Has(e, {"value"})
      BY <1>1 DEF Has
    <3>3. load_db_address(e) # {}
      BY <2>0
    <3> DEFINE t == load_if_exists(e, "type", "")
               u == load_if_exists(new, "type", "")
    <3>4. CASE Has(e, {"value"})
      <4>1. load_db_address(e) = {CfgAddress(x, e.value) : x \in {t} \cap {"cidr", "fqdn"}}
        BY <3>4 DEF load_db_address
      <4>2. load_db_address(new) = {CfgAddress(x, new.value) : x \in {u} \cap {"cidr", "fqdn"}}
        BY <3>2, <3>4 DEF load_db_address
      <4> HIDE DEF t, u
      <4>3. t = u
        BY <3>1 DEF t, u
      <4>4. {t} \cap {"cidr", "fqdn"} # {}
        BY <3>3, <4>1
      <4> QED
        BY <2>0, <4>2, <4>3, <4>4
    <3>5. CASE ~Has(e, {"value"})
      <4> DEFINE C(x, v) == {y \in DOMAIN x \cap {"cidr", "fqdn"} : v = IF y = "cidr" THEN "0" ELSE "1"}
      <4>1. load_db_address(e) = {CfgAddress(x, e[x]) : x \in C(e, t)}
        BY <3>5 DEF load_db_address
      <4>2. load_db_address(new) = {CfgAddress(x, new[x]) : x \in C(new, u)}
        BY <3>2, <3>5 DEF load_db_address
      <4> HIDE DEF t, u
      <4>3. C(e, t) = C(new, u)
        BY <1>1, <3>1 DEF t, u
      <4> HIDE DEF C
      <4>4. C(e, t) # {}
        BY <3>3, <4>1
      <4> QED
        BY <2>0, <4>2, <4>3, <4>4
    <3> QED
      BY <3>4, <3>5
  <2>2. CASE f = "type"
    <3>1. PICK v : new["type"] \in write_value(d, sec, e, f, v)
      BY <1>2, <2>2
    <3>2. f \notin BoolFields /\ f \notin IntFields
      BY <2>2, PlainFields
    <3>3. value_check(d, sec, f, v)
      BY <3>1 DEF write_value
    <3>4. v # ""
      BY <1>3, <3>3 DEF value_check, NotEmpty
    <3>5. v \in {"cidr", "fqdn"}
      <4>1. sec # "policy"
        BY <1>3
      <4>2. ObjectFilter(d, sec, f, v)
        BY <3>3, <3>4, <4>1 DEF value_check
      <4>3. f = "type" /\ sec = "address_objects"
        BY <1>3, <2>2
      <4> QED
        BY <4>2, <4>3 DEF ObjectFilter
    <3>6. DOMAIN Numbers \cap {"cidr", "fqdn"} = {}
      BY CfgObjectsAssumption
    <3>7. make_int(v) = {}
      BY <3>4, <3>5, <3>6 DEF make_int
    <3>8. Has(e, {"value"}) /\ new["type"] = v
      BY <2>2, <3>1, <3>2, <3>3, <3>7 DEF write_value
    <3>9. Has(new, {"value"}) /\ load_if_exists(new, "type", "") = v
      BY <1>1, <2>2, <3>8 DEF Has, load_if_exists
    <3>10. load_db_address(new) # {}
      BY <3>5, <3>9 DEF load_db_address
    <3> QED
      BY <2>0, <3>10
  <2> QED
    BY <2>1, <2>2
<1>4. CASE sec = "port_objects"
  <2>1. \A x : Loadable(sec, x) <=> Has(x, {"start", "end"})
    BY <1>4 DEF Loadable, LoadEntry, load_db_port
  <2> QED
    BY <1>1, <2>1 DEF Has
<1>5. CASE sec \in {"proto_objects", "detection_profiles", "content_profiles", "tls_profiles"}
  BY <1>1, <1>5, ZenonT(40) DEF Loadable, LoadEntry, load_db_proto, load_db_prof_detection, load_db_prof_content,
                                load_db_prof_tls, Has
<1>6. CASE sec \in {"alg_dns_profiles", "auth_profiles", "routing"}
  BY <1>6 DEF Loadable, LoadEntry, load_db_prof_alg_dns, load_db_prof_auth, load_db_routing
<1>7. CASE sec = "tls_ca"
  BY <1>7 DEF Loadable, LoadEntry, load_db_tls_ca
<1> QED
  BY <1>3, <1>4, <1>5, <1>6, <1>7 DEF Sections

\* What is left of the arguments of a scalar of the policy was shown to its
\* filter, if it was not empty.
LEMMA ScalarChecked ==
    ASSUME NEW d, NEW e, NEW f, f \in {"action", "nat", "script_profile"} \cup DOMAIN ProfileSection,
           NEW args, NEW new, WroteField(d, "policy", e, f, args, new)
    PROVE  value_check(d, "policy", f, new[f])
<1>1. f \notin BoolFields /\ f \notin IntFields /\ f \notin ListFields /\ f # "redirect_warning_ports"
  BY PlainFields
<1>2. PICK v : new[f] \in write_value(d, "policy", e, f, v)
  BY <1>1 DEF WroteField
<1>3. f # "type"
  BY DEF ProfileSection
<1>4. value_check(d, "policy", f, v)
  BY <1>2 DEF write_value
<1>5. write_value(d, "policy", e, f, v) = {v}
  BY <1>1, <1>3, <1>4 DEF write_value
<1> QED
  BY <1>2, <1>4, <1>5

\* The filter of a profile.
LEMMA ProfileChecked ==
    ASSUME NEW d, NEW f \in DOMAIN ProfileSection, NEW v, v # "", ~(f = "routing" /\ v = "none"),
           value_check(d, "policy", f, v)
    PROVE  v \in DOMAIN d[ProfileSection[f]]
<1>1. PolicyFilter(d, f, v)
  BY DEF value_check
<1>2. f \notin {"proto", "src", "dst", "sport", "dport", "features", "action", "nat"}
  BY DEF ProfileSection
<1>3. CASE f = "routing"
  <2>1. v = "none" \/ is_in_vector(d, "routing", v)
    BY <1>1, <1>3 DEF PolicyFilter
  <2>2. ProfileSection[f] = "routing"
    BY <1>3 DEF ProfileSection
  <2> QED
    BY <1>3, <2>1, <2>2 DEF is_in_vector
<1>4. CASE f # "routing"
  <2>1. is_in_vector(d, ProfileSection[f], v)
    BY <1>1, <1>2, <1>4 DEF PolicyFilter
  <2> QED
    BY <2>1 DEF is_in_vector
<1> QED
  BY <1>3, <1>4

\* The filters of the other fields.
LEMMA Filtered ==
    ASSUME NEW d, NEW f, NEW v, PolicyFilter(d, f, v)
    PROVE  /\ f \in {"src", "dst"} => v \in DOMAIN d["address_objects"]
           /\ f = "features" => v \in Features
           /\ f = "action" => v \in {"accept", "reject"}
           /\ f = "nat" => v \in {"auto", "none"}
<1>1. \A g \in {"src", "dst", "features", "action", "nat"} : g \notin DOMAIN ProfileSection
  BY DEF ProfileSection
<1>2. CASE f \in {"src", "dst"}
  BY <1>1, <1>2 DEF PolicyFilter, is_in_vector
<1>3. CASE f = "features"
  BY <1>1, <1>3 DEF PolicyFilter
<1>4. CASE f = "action"
  BY <1>1, <1>4 DEF PolicyFilter
<1>5. CASE f = "nat"
  BY <1>1, <1>5 DEF PolicyFilter
<1> QED
  BY <1>2, <1>3, <1>4, <1>5

\* The filter of a name in a group.
LEMMA NameChecked ==
    ASSUME NEW d, Whole(d), NEW f \in GroupFields, NEW v, value_check(d, "policy", f, v),
           ~(f = "features" /\ v = "")
    PROVE  lookup_group(d, f, v) # {}
<1>1. CASE f \in {"src", "dst"}
  <2>1. v # ""
    BY <1>1 DEF value_check
  <2>2. PolicyFilter(d, f, v)
    BY <2>1 DEF value_check
  <2>3. v \in DOMAIN d["address_objects"]
    BY <1>1, <2>2, Filtered
  <2>4. lookup(d, "address_objects", v) # {}
    BY <2>3, WholeFinds, FieldSections
  <2> QED
    BY <1>1, <2>4 DEF lookup_group
<1>2. CASE f \in {"sport", "dport"}
  BY <1>2, WholeFinds DEF lookup_group
<1>3. CASE f = "features"
  <2>1. v # ""
    BY <1>3
  <2>2. PolicyFilter(d, f, v)
    BY <2>1 DEF value_check
  <2>3. v \in Features
    BY <1>3, <2>2, Filtered
  <2> QED
    BY <1>3, <2>3 DEF lookup_group
<1> QED
  BY <1>1, <1>2, <1>3 DEF GroupFields

\* An entry of the policy that made a rule still makes one after `set` or
\* `toggle`, but for what the filters let through.
LEMMA StillMade ==
    ASSUME NEW d, Whole(d), NEW e, NEW f \in DOMAIN e, NEW args, NEW new,
           WroteField(d, "policy", e, f, args, new), ~RuleError(d, e), ~LetThrough(e, new)
    PROVE  ~RuleError(d, new)
<1> DEFINE act(x) == load_if_exists(x, "action", "deny")
           nat(x) == load_if_exists(x, "nat", "none")
           script(x) == load_if_exists(x, "script_profile", "")
<1>1. DOMAIN new = DOMAIN e /\ \A g \in DOMAIN e : g # f => new[g] = e[g]
  BY DEF WroteField
<1>2. \A g, v : g # f => load_if_exists(new, g, v) = load_if_exists(e, g, v)
  BY <1>1 DEF load_if_exists
<1>3. \A g, v : g = f => load_if_exists(new, g, v) = new[f]
  BY <1>1 DEF load_if_exists
<1>4. /\ act(e) \in {"accept", "deny"}
      /\ nat(e) \in {"auto", "none"}
      /\ \A g \in GroupFields : \A i \in DOMAIN Group(e, g) : lookup_group(d, g, Group(e, g)[i]) # {}
      /\ act(e) = "accept" => \A g \in ProfileNames(e) : lookup(d, ProfileSection[g], e[g]) # {}
  BY DEF RuleError
<1>5. /\ act(new) # "reject"
      /\ act(new) = "accept" => act(e) = "accept" /\ script(new) = ""
      /\ "" \notin Range(Group(new, "features"))
  BY DEF LetThrough
<1>6. act(new) \in {"accept", "deny"}
  <2>1. CASE f # "action"
    BY <1>2, <1>4, <2>1
  <2>2. CASE f = "action"
    <3>1. value_check(d, "policy", f, new[f])
      BY <2>2, ScalarChecked
    <3>2. new[f] # ""
      BY <2>2, <3>1 DEF value_check, NotEmpty
    <3>3. PolicyFilter(d, f, new[f])
      BY <3>1, <3>2 DEF value_check
    <3>4. new[f] \in {"accept", "reject"}
      BY <2>2, <3>3, Filtered
    <3> QED
      BY <1>3, <1>5, <2>2, <3>4
  <2> QED
    BY <2>1, <2>2
<1>7. nat(new) \in {"auto", "none"}
  <2>1. CASE f # "nat"
    BY <1>2, <1>4, <2>1
  <2>2. CASE f = "nat"
    <3>1. value_check(d, "policy", f, new[f])
      BY <2>2, ScalarChecked
    <3>2. new[f] # ""
      BY <2>2, <3>1 DEF value_check, NotEmpty
    <3>3. PolicyFilter(d, f, new[f])
      BY <3>1, <3>2 DEF value_check
    <3>4. new[f] \in {"auto", "none"}
      BY <2>2, <3>3, Filtered
    <3> QED
      BY <1>3, <2>2, <3>4
  <2> QED
    BY <2>1, <2>2
<1>8. ~(Has(new, {"proto"}) /\ lookup_proto(d, new.proto) = {})
  BY WholeFinds
<1>9. ASSUME NEW g \in GroupFields, NEW i \in DOMAIN Group(new, g)
      PROVE  lookup_group(d, g, Group(new, g)[i]) # {}
  <2>1. CASE g # f
    <3>1. Group(new, g) = Group(e, g)
      BY <1>2, <2>1 DEF Group
    <3> QED
      BY <1>4, <3>1
  <2>2. CASE g = f
    <3>1. f \in ListFields
      BY <2>2 DEF GroupFields, ListFields
    <3>2. Group(new, g) = args /\ value_check(d, "policy", g, args[i])
      <4>1. Group(new, g) = new[f]
        BY <1>3, <2>2 DEF Group
      <4> QED
        BY <2>2, <3>1, <4>1 DEF WroteField
    <3>3. ~(g = "features" /\ args[i] = "")
      BY <1>5, <3>2 DEF Range
    <3> QED
      BY <3>2, <3>3, NameChecked
  <2> QED
    BY <2>1, <2>2
<1>10. ASSUME NEW g \in ProfileNames(new), act(new) = "accept"
       PROVE  lookup(d, ProfileSection[g], new[g]) # {}
  <2>0. /\ g \in DOMAIN ProfileSection /\ g \in DOMAIN new
        /\ new[g] # "" /\ ~(g = "routing" /\ new[g] = "none")
    BY DEF ProfileNames
  <2>1. CASE g # f
    <3>1. new[g] = e[g] /\ g \in DOMAIN e
      BY <1>1, <2>0, <2>1
    <3>2. g \in ProfileNames(e)
      BY <2>0, <3>1 DEF ProfileNames
    <3> QED
      BY <1>4, <1>5, <1>10, <3>1, <3>2
  <2>2. CASE g = f
    <3>1. value_check(d, "policy", g, new[g])
      BY <2>0, <2>2, ScalarChecked
    <3>2. new[g] \in DOMAIN d[ProfileSection[g]]
      BY <2>0, <3>1, ProfileChecked
    <3> QED
      BY <2>0, <3>2, WholeFinds, FieldSections
  <2> QED
    BY <2>1, <2>2
<1> QED
  BY <1>5, <1>6, <1>7, <1>8, <1>9, <1>10 DEF RuleError

\* Entries of a section leave the policy, and the policy is what it is made.
LEMMA PolicyOf ==
    ASSUME NEW c, FileOK(c), NEW sec, NEW entries, NEW p
    PROVE  Put(c, sec, entries).policy = c.policy /\ [c EXCEPT !.policy = p].policy = p
<1> DEFINE a == c.obj
           b == c.policy
           x == c.opt
           y == c.schema
           z == c.version
           obj == [a EXCEPT ![sec] = entries]
<1>1. c = [obj |-> a, policy |-> b, opt |-> x, schema |-> y, version |-> z]
  BY DEF FileOK, Shape
<1>2. Put(c, sec, entries) = [c EXCEPT !.obj = obj]
  BY DEF Put
<1> HIDE DEF a, b, x, y, z, obj
<1>3. Put(c, sec, entries) = [obj |-> obj, policy |-> b, opt |-> x, schema |-> y, version |-> z]
  BY <1>1, <1>2
<1>4. [c EXCEPT !.policy = p] = [obj |-> a, policy |-> p, opt |-> x, schema |-> y, version |-> z]
  BY <1>1
<1>5. Put(c, sec, entries).policy = b
  BY <1>3
<1>6. [c EXCEPT !.policy = p].policy = p
  BY <1>4
<1> QED
  BY <1>5, <1>6 DEF b

\* Making the rules again leaves the registries whole, with the same names.
LEMMA MarkedWhole ==
    ASSUME NEW d, DbOK(d), Whole(d), NEW l
    PROVE  /\ Whole(mark_usage(d, l))
           /\ \A sec \in Sections : DOMAIN mark_usage(d, l)[sec] = DOMAIN d[sec]
BY UsageMarked DEF Whole

\* `set` of a field of an object.
LEMMA SetObjectKeeps ==
    ASSUME Inv, NoLeftovers, NEW sec \in Sections, NEW n, NEW f, NEW args, SetObject(sec, n, f, args),
           last' = "set", NEW i \in DOMAIN cfg.policy, ~RuleError(db, cfg.policy[i])
    PROVE  ~RuleError(db', cfg'.policy[i])
<1> DEFINE w == cfg_write_value(db, sec, cfg.obj[sec][n], f, dedup(args))
           entries == [cfg.obj[sec] EXCEPT ![n] = w.entry]
           c == [cfg EXCEPT !.obj[sec][n] = w.entry]
           d == [db EXCEPT ![sec] = NoFields]
<1>1. n \in DOMAIN cfg.obj[sec] /\ f \in DOMAIN cfg.obj[sec][n]
  BY DEF SetObject
<1>2. w.ok /\ apply_config_change(c, sec)
  <2>1. last' # "crash" /\ last' # "refused"
    OBVIOUS
  <2> QED
    BY <2>1 DEF SetObject, Command
<1>3. FileOK(cfg) /\ DbOK(db) /\ Current(cfg, db)
  BY DEF Inv, Running
<1>4. Loadable(sec, cfg.obj[sec][n]) => Loadable(sec, w.entry)
  BY <1>1, <1>2, StillLoadable
<1>5. entries[n] = w.entry /\ \A m \in DOMAIN cfg.obj[sec] : m # n => entries[m] = cfg.obj[sec][m]
  BY <1>1
<1>6. EntriesOK(sec, entries) /\ DOMAIN entries = DOMAIN cfg.obj[sec]
  BY <1>1, <1>3, EntryWritten
<1>7. c = Put(cfg, sec, entries)
  BY DEF Put
<1>8. d = Emptied(db, sec)
  BY DEF Emptied
<1> HIDE DEF c, w, entries, d
<1>9. /\ FileOK(c)
      /\ SectionOf(c, sec) = entries
      /\ \A s \in Sections : s # sec => SectionOf(c, s) = SectionOf(cfg, s)
  BY <1>3, <1>6, <1>7, SectionPut
<1>10. c.policy = cfg.policy
  BY <1>3, <1>7, PolicyOf
<1> DEFINE new == LoadSection(d, sec, c.obj[sec])
<1>11. cfg' = c /\ \E l : db' = mark_usage(new, l)
  BY <1>2 DEF apply_config_change, ApplyPolicy, d
<1>12. Current(c, new)
  <2> HIDE DEF new
  <2>1. Current(c, LoadSection(d, sec, c.obj[sec]))
    BY <1>3, <1>8, <1>9, SectionRenewed
  <2> QED
    BY <2>1 DEF new
<1>13. DbOK(new)
  <2>1. DbOK(d)
    BY <1>3, SectionEmptied DEF d
  <2>2. EntriesOK(sec, c.obj[sec])
    BY <1>9, SectionOK
  <2> QED
    BY <2>1, <2>2, SectionLoaded
<1>14. DOMAIN d = Sections /\ d[sec] = NoFields /\ \A s \in Sections : s # sec => d[s] = db[s]
  BY <1>3, <1>8 DEF DbOK, Emptied
<1>15. new[sec] = Objects(d, sec, c.obj[sec]) /\ \A s \in Sections : s # sec => new[s] = db[s]
  BY <1>14, SectionStep
<1>16. \A m \in DOMAIN new[sec] : ~new[sec][m].null
  <2>1. DOMAIN d[sec] = {}
    BY <1>14 DEF NoFields
  <2>2. \A m \in DOMAIN new[sec] : \E v : new[sec][m] = Object(v)
    BY <1>15, <2>1 DEF Objects
  <2>3. \A v : ~Object(v).null
    BY DEF Object
  <2> HIDE DEF new
  <2> QED
    BY <2>2, <2>3
<1> HIDE DEF new
<1>17. \A m \in DOMAIN db[sec] : m \in DOMAIN new[sec]
  <2> SUFFICES ASSUME NEW m \in DOMAIN db[sec] PROVE m \in DOMAIN new[sec]
    OBVIOUS
  <2>1. m \in DOMAIN cfg.obj[sec] /\ Present(db[sec], m)
    BY DEF NoLeftovers, Present
  <2>2. Loadable(sec, cfg.obj[sec][m])
    BY <1>3, <2>1 DEF Current, CurrentIn
  <2>3. m \in DOMAIN entries /\ Loadable(sec, entries[m])
    BY <1>4, <1>5, <1>6, <2>1, <2>2
  <2>4. Present(new[sec], m)
    BY <1>9, <1>12, <2>3 DEF Current, CurrentIn, SectionOf
  <2> QED
    BY <2>4 DEF Present
<1>18. Whole(db) /\ Whole(new) /\ \A s \in Sections : DOMAIN db[s] \subseteq DOMAIN new[s]
  BY <1>15, <1>16, <1>17 DEF Whole, NoLeftovers
<1>19. Whole(db') /\ \A s \in Sections : DOMAIN db[s] \subseteq DOMAIN db'[s]
  BY <1>11, <1>13, <1>18, MarkedWhole
<1>20. ~RuleError(db', cfg.policy[i])
  BY <1>18, <1>19, StillAccepted
<1> QED
  BY <1>10, <1>11, <1>20

\* `set` and `toggle` of a field of an entry of the policy.
LEMMA WritePolicyKeeps ==
    ASSUME Inv, NoLeftovers, NEW j \in DOMAIN cfg.policy, NEW f \in DOMAIN cfg.policy[j], NEW args,
           WritePolicy(j, f, args), last' = "set",
           NEW i \in DOMAIN cfg.policy, ~RuleError(db, cfg.policy[i]), ~LetThrough(cfg.policy[i], cfg'.policy[i])
    PROVE  ~RuleError(db', cfg'.policy[i])
<1> DEFINE w == cfg_write_value(db, "policy", cfg.policy[j], f, args)
           p == [cfg.policy EXCEPT ![j] = w.entry]
           c == [cfg EXCEPT !.policy[j] = w.entry]
<1>1. w.ok /\ ApplyPolicy(c, db)
  <2>1. last' # "refused"
    OBVIOUS
  <2> QED
    BY <2>1 DEF WritePolicy, Command
<1>2. FileOK(cfg) /\ DbOK(db)
  BY DEF Inv, Running
<1>3. Whole(db)
  BY DEF Whole, NoLeftovers
<1>4. c = [cfg EXCEPT !.policy = p]
  OBVIOUS
<1>5. WroteField(db, "policy", cfg.policy[j], f, args, w.entry)
  BY <1>1, FieldWritten
<1>6. p[j] = w.entry /\ \A k \in DOMAIN cfg.policy : k # j => p[k] = cfg.policy[k]
  OBVIOUS
<1> HIDE DEF w, p, c
<1>7. cfg' = c /\ c.policy = p /\ \E l : db' = mark_usage(db, l)
  BY <1>1, <1>2, <1>4, PolicyOf DEF ApplyPolicy
<1>8. Whole(db') /\ \A s \in Sections : DOMAIN db'[s] = DOMAIN db[s]
  BY <1>2, <1>3, <1>7, MarkedWhole
<1>9. ~RuleError(db, cfg'.policy[i])
  <2>1. CASE i # j
    BY <1>6, <1>7, <2>1
  <2>2. CASE i = j
    <3>1. cfg'.policy[i] = w.entry
      BY <1>6, <1>7, <2>2
    <3> QED
      BY <1>3, <1>5, <2>2, <3>1, StillMade
  <2> QED
    BY <2>1, <2>2
<1> QED
  BY <1>3, <1>8, <1>9, StillAccepted

\* What the filters of `set` and `toggle` accept can be loaded (value_check,
\* cfg_write_value, load_db_*): an entry of the policy that makes a rule still
\* makes one, unless its action becomes reject, or accept with profiles that
\* were not looked for before, or it has an empty feature or a script.
THEOREM SetKeeps == Spec => SetKeepsRules
<1> DEFINE Ok(i) == ~RuleError(db, cfg.policy[i])
           Lost(i) == RuleError(db', cfg'.policy[i])
           Let(i) == LetThrough(cfg.policy[i], cfg'.policy[i])
           Step == last' = "set" /\ NoLeftovers => \A i \in DOMAIN cfg.policy : Ok(i) /\ Lost(i) => Let(i)
<1>1. Inv /\ [Next]_vars => [Step]_vars
  <2> SUFFICES ASSUME Inv, Next, last' = "set", NoLeftovers, NEW i \in DOMAIN cfg.policy, Ok(i), ~Let(i)
               PROVE  ~Lost(i)
    OBVIOUS
  <2>1. CASE \E s \in ObjectSets : SetObject(s.sec, s.obj, s.field, s.args)
    <3>1. PICK s \in ObjectSets : SetObject(s.sec, s.obj, s.field, s.args)
      BY <2>1
    <3>2. \A x \in ObjectSets : x.sec \in Sections
      BY CfgObjectsAssumption
    <3> QED
      BY <3>1, <3>2, SetObjectKeeps
  <2>2. CASE \E s \in PolicySets : SetPolicy(s.obj, s.field, s.args)
    <3>1. PICK s \in PolicySets : SetPolicy(s.obj, s.field, s.args)
      BY <2>2
    <3> QED
      BY <3>1, WritePolicyKeeps DEF SetPolicy
  <2>3. CASE \E s \in Toggles : TogglePolicy(s.obj, s.field, s.args)
    <3>1. PICK s \in Toggles : TogglePolicy(s.obj, s.field, s.args)
      BY <2>3
    <3> QED
      BY <3>1, WritePolicyKeeps DEF TogglePolicy
  <2>4. CASE /\ ~\E s \in ObjectSets : SetObject(s.sec, s.obj, s.field, s.args)
             /\ ~\E s \in PolicySets : SetPolicy(s.obj, s.field, s.args)
             /\ ~\E s \in Toggles : TogglePolicy(s.obj, s.field, s.args)
    BY <2>4 DEF Next, Command, Add, AddPolicy, TogglePorts, SetOption, RemoveObject, RemovePolicy, Save, Reload,
                Restart
  <2> QED
    BY <2>1, <2>2, <2>3, <2>4
<1>2. Inv /\ [Next]_vars => Inv'
  BY NextInv
<1> QED
  BY <1>1, <1>2, InitInv, PTL DEF Spec, SetKeepsRules

-----------------------------------------------------------------------------
(* Blocks.                                                                 *)

\* The length of a prefix is a number, -1 for a mask with gaps included.
LEMMA PflenInt ==
    ASSUME NEW b
    PROVE  cidr_get_pflen(b) \in Int
<1> DEFINE first == FirstOctet(b.proto) * OctBits
           end == 16 * OctBits - 1
           ones == {k \in first..end : Bit(b.mask, k) = 1}
<1>1. first \in Int /\ end \in Int
  BY CidrAssumption DEF FirstOctet
<1> HIDE DEF first, end
<1>2. IsFiniteSet(first..end)
  BY <1>1, FS_Interval
<1>3. IsFiniteSet(ones)
  BY <1>2, FS_Subset
<1>4. Cardinality(ones) \in Nat
  BY <1>3, FS_CardinalityType
<1>5. cidr_get_pflen(b) = -1 \/ cidr_get_pflen(b) = Cardinality(ones)
  BY DEF cidr_get_pflen, pflen, first, end
<1> QED
  BY <1>4, <1>5

\* A block contains itself.
LEMMA ContainsReflexive ==
    ASSUME NEW b
    PROVE  cidr_contains(b, b)
<1>1. cidr_get_pflen(b) >= cidr_get_pflen(b)
  BY PflenInt
<1> QED
  BY <1>1 DEF cidr_contains

\* A block contains what a block it contains contains.
LEMMA ContainsTransitive ==
    ASSUME NEW a, NEW b, NEW c, cidr_contains(a, b), cidr_contains(b, c)
    PROVE  cidr_contains(a, c)
<1> DEFINE n == FirstOctet(a.proto) * OctBits
           la == cidr_get_pflen(a)
           lb == cidr_get_pflen(b)
           lc == cidr_get_pflen(c)
<1>1. la \in Int /\ lb \in Int /\ lc \in Int /\ n \in Int
  BY PflenInt, CidrAssumption DEF FirstOctet
<1>2. a.proto = b.proto /\ b.proto = c.proto
  BY DEF cidr_contains
<1>3. lb >= la /\ lc >= lb
  BY DEF cidr_contains
<1>4. \A k \in n..(n + la - 1) : Bit(a.addr, k) = Bit(b.addr, k)
  BY DEF cidr_contains
<1>5. \A k \in n..(n + lb - 1) : Bit(b.addr, k) = Bit(c.addr, k)
  BY <1>2 DEF cidr_contains
<1> HIDE DEF n, la, lb, lc
<1>6. n..(n + la - 1) \subseteq n..(n + lb - 1)
  BY <1>1, <1>3
<1>7. \A k \in n..(n + la - 1) : Bit(a.addr, k) = Bit(c.addr, k)
  BY <1>4, <1>5, <1>6
<1>8. lc >= la
  BY <1>1, <1>3
<1> QED
  BY <1>2, <1>7, <1>8 DEF cidr_contains, n, la, lc

-----------------------------------------------------------------------------
(* Rules.                                                                  *)

\* Every block of an address in h lies in one of an address in g, whichever
\* address family is asked for; an empty group is every address.
AddressesCover(g, h, cache) ==
    \/ g = {}
    \/ /\ h # {}
       /\ \A proto \in {"v4", "v6"} : \A a \in h : \A b \in Blocks(a, proto, cache) :
             \E x \in g : \E y \in Blocks(x, proto, cache) : cidr_contains(y, b)

\* The same for ranges of ports.
PortsCover(g, h) ==
    \/ g = {}
    \/ h # {} /\ \A q \in h : \E r \in g : r.start <= q.start /\ q.end <= r.end

\* A rule that is in force and broader than another in every respect.
Shadows(r, q, cache) ==
    /\ ~r.disabled
    /\ r.proto = 0 \/ r.proto = q.proto
    /\ AddressesCover(r.src, q.src, cache) /\ AddressesCover(r.dst, q.dst, cache)
    /\ PortsCover(r.sport, q.sport) /\ PortsCover(r.dport, q.dport)

\* What is asked of ranges and contexts: that ports are numbers.
Ranges(g) == \A x \in g : x.start \in Int /\ x.end \in Int
RangesOK(r) == Ranges(r.sport) /\ Ranges(r.dport)
ConnOK(c) == \A cx \in c.ls \cup c.lda \cup c.rs \cup c.rda : cx.port \in Int

\* Only "v4" is told apart from other families.
LEMMA BlocksByFamily ==
    ASSUME NEW proto, NEW cache
    PROVE  \E p \in {"v4", "v6"} : \A x : Blocks(x, proto, cache) = Blocks(x, p, cache)
<1>1. CASE proto = "v4"
  BY <1>1
<1>2. CASE proto # "v4"
  <2>1. \A x : Blocks(x, proto, cache) = Blocks(x, "v6", cache)
    BY <1>2 DEF Blocks, find_dns_response
  <2> QED
    BY <2>1
<1> QED
  BY <1>1, <1>2

\* A broader group of addresses accepts what the narrower accepts.
LEMMA AddressesMonotone ==
    ASSUME NEW g, NEW h, NEW cxs, NEW cache, AddressesCover(g, h, cache),
           match_addrgrp_vecx(h, cxs, cache)
    PROVE  match_addrgrp_vecx(g, cxs, cache)
<1>1. CASE cxs = {} \/ g = {}
  BY <1>1 DEF match_addrgrp_vecx, match_addrgrp_cx
<1>2. CASE cxs # {} /\ g # {}
  <2>1. h # {} /\ \A proto \in {"v4", "v6"} : \A a \in h : \A b \in Blocks(a, proto, cache) :
            \E x \in g : \E y \in Blocks(x, proto, cache) : cidr_contains(y, b)
    BY <1>2 DEF AddressesCover
  <2>2. PICK cx \in cxs : \E a \in h : AddressMatch(a, cx.host, cache)
    BY <1>2, <2>1 DEF match_addrgrp_vecx, match_addrgrp_cx
  <2> DEFINE host == cx.host
  <2>3. PICK a \in h : AddressMatch(a, host, cache)
    BY <2>2
  <2>4. PICK b \in Blocks(a, host.proto, cache) : cidr_contains(b, host)
    BY <2>3 DEF AddressMatch
  <2>5. PICK p \in {"v4", "v6"} : \A x : Blocks(x, host.proto, cache) = Blocks(x, p, cache)
    BY BlocksByFamily
  <2>6. PICK x \in g : \E y \in Blocks(x, p, cache) : cidr_contains(y, b)
    BY <2>1, <2>4, <2>5
  <2>7. PICK y \in Blocks(x, p, cache) : cidr_contains(y, b)
    BY <2>6
  <2>8. cidr_contains(y, host)
    BY <2>4, <2>7, ContainsTransitive
  <2>9. AddressMatch(x, host, cache)
    BY <2>5, <2>7, <2>8 DEF AddressMatch
  <2> QED
    BY <2>6, <2>9 DEF match_addrgrp_vecx, match_addrgrp_cx
<1> QED
  BY <1>1, <1>2

\* The same for ports.
LEMMA PortsMonotone ==
    ASSUME NEW g, NEW h, NEW cxs, Ranges(g), Ranges(h), \A cx \in cxs : cx.port \in Int,
           PortsCover(g, h), match_rangegrp_vecx(h, cxs)
    PROVE  match_rangegrp_vecx(g, cxs)
<1>1. CASE cxs = {} \/ g = {}
  BY <1>1 DEF match_rangegrp_vecx, match_rangegrp_cx
<1>2. CASE cxs # {} /\ g # {}
  <2>1. h # {} /\ \A q \in h : \E r \in g : r.start <= q.start /\ q.end <= r.end
    BY <1>2 DEF PortsCover
  <2>2. PICK cx \in cxs : cx.port >= 0 /\ \E q \in h : q.start <= cx.port /\ cx.port <= q.end
    BY <1>2, <2>1 DEF match_rangegrp_vecx, match_rangegrp_cx
  <2>3. PICK q \in h : q.start <= cx.port /\ cx.port <= q.end
    BY <2>2
  <2>4. PICK r \in g : r.start <= q.start /\ q.end <= r.end
    BY <2>1
  <2>5. r.start <= cx.port /\ cx.port <= r.end
    BY <2>3, <2>4 DEF Ranges
  <2> QED
    BY <2>2, <2>5 DEF match_rangegrp_vecx, match_rangegrp_cx
<1> QED
  BY <1>1, <1>2

\* A connection that a rule matches is matched by every broader rule in force
\* (PolicyRule::match, CidrAddress::match, FqdnAddress::match).
THEOREM BroaderMatches ==
    ASSUME NEW r, NEW q, NEW c, NEW cache, RangesOK(r), RangesOK(q), ConnOK(c),
           Shadows(r, q, cache), RuleMatch(q, c, cache)
    PROVE  RuleMatch(r, c, cache)
<1>1. /\ match_addrgrp_vecx(r.src, c.ls, cache) /\ match_addrgrp_vecx(r.src, c.lda, cache)
      /\ match_addrgrp_vecx(r.dst, c.rs, cache) /\ match_addrgrp_vecx(r.dst, c.rda, cache)
  <2>1. /\ match_addrgrp_vecx(q.src, c.ls, cache) /\ match_addrgrp_vecx(q.src, c.lda, cache)
        /\ match_addrgrp_vecx(q.dst, c.rs, cache) /\ match_addrgrp_vecx(q.dst, c.rda, cache)
    BY DEF RuleMatch
  <2> QED
    BY <2>1, AddressesMonotone DEF Shadows
<1>2. /\ match_rangegrp_vecx(r.sport, c.ls) /\ match_rangegrp_vecx(r.sport, c.lda)
      /\ match_rangegrp_vecx(r.dport, c.rs) /\ match_rangegrp_vecx(r.dport, c.rda)
  <2>1. /\ match_rangegrp_vecx(q.sport, c.ls) /\ match_rangegrp_vecx(q.sport, c.lda)
        /\ match_rangegrp_vecx(q.dport, c.rs) /\ match_rangegrp_vecx(q.dport, c.rda)
    BY DEF RuleMatch
  <2> QED
    BY <2>1, PortsMonotone DEF Shadows, RangesOK, ConnOK
<1>3. ~r.disabled /\ (r.proto # 0 => match_proto_vecx(r.proto, c.ls \cup c.lda))
  BY DEF Shadows, RuleMatch
<1> QED
  BY <1>1, <1>2, <1>3 DEF RuleMatch

\* A rule behind a broader one never decides: policy_match, which takes the
\* first that matches, does not return it for any connection or DNS cache.
THEOREM ShadowedNeverMet ==
    ASSUME NEW rules, Len(rules) \in Nat, NEW c, ConnOK(c), NEW cache,
           NEW i \in 1..Len(rules), NEW j \in 1..Len(rules), i < j,
           RangesOK(RuleValues(rules[i])), RangesOK(RuleValues(rules[j])),
           Shadows(RuleValues(rules[i]), RuleValues(rules[j]), cache)
    PROVE  policy_match(rules, c, cache) # j
<1> DEFINE Met(k) == RuleMatch(RuleValues(rules[k]), c, cache)
           I == {k \in 1..Len(rules) : Met(k)}
<1>1. policy_match(rules, c, cache) = IF I # {} THEN Min(I) ELSE 0
  BY DEF policy_match, SelectInSeq
<1>2. Met(j) => Met(i)
  BY BroaderMatches
<1> HIDE DEF Met
<1>3. I \subseteq Nat
  OBVIOUS
<1>4. I # {} => Min(I) \in I /\ \A k \in I : Min(I) <= k
  <2> SUFFICES ASSUME I # {} PROVE Min(I) \in I /\ \A k \in I : Min(I) <= k
    OBVIOUS
  <2>1. \E x \in I : \A y \in I : x <= y
    BY <1>3, LeastNumber
  <2> HIDE DEF I
  <2> QED
    BY <2>1 DEF Min
<1> QED
  BY <1>1, <1>2, <1>4
=============================================================================
