--------------------------- MODULE PolicyDbProofs ---------------------------
(***************************************************************************)
(* Proofs about PolicyDb for any number of operators, any rules, any       *)
(* policy and any number of operations: the types, and that interleaved    *)
(* moves, edits and reloads leave connections with the configured rules.   *)
(***************************************************************************)
EXTENDS PolicyDb, SequenceTheorems, WellFoundedInduction, TLAPS

-----------------------------------------------------------------------------
(* Facts about the operators.                                              *)

\* A set of positions that is not empty has a first one.
LEMMA FirstOf ==
    ASSUME NEW S \in SUBSET Nat, S # {}
    PROVE  \E i \in S : \A j \in S : i <= j
<1>1. PICK x \in S : \A y \in S : ~(<<y, x>> \in OpToRel(<, Nat))
  BY NatLessThanWellFounded, WFMin
<1>2. ASSUME NEW y \in S
      PROVE  x <= y
  <2>1. ~(<<y, x>> \in {ss \in Nat \X Nat : ss[1] < ss[2]})
    BY <1>1 DEF OpToRel
  <2> QED
    BY <2>1
<1> QED
  BY <1>2

\* A list over a set is a list over any larger set.
LEMMA SeqMono ==
    ASSUME NEW S, NEW T, S \subseteq T, NEW s \in Seq(S)
    PROVE  s \in Seq(T)
<1>1. Len(s) \in Nat /\ \A i \in 1..Len(s) : s[i] \in T
  BY LenProperties, ElementOfSeq
<1>2. s = SubSeq(s, 1, Len(s)) /\ SubSeq(s, 1, Len(s)) \in Seq(T)
  BY <1>1, SubSeqFull, SubSeqProperties
<1> QED
  BY <1>2

\* A list is a prefix of another when it agrees with it entry by entry.
LEMMA PrefixPointwise ==
    ASSUME NEW S, NEW s \in Seq(S), NEW t \in Seq(S)
    PROVE  IsPrefix(s, t) <=> /\ Len(s) <= Len(t)
                              /\ \A i \in 1..Len(s) : s[i] = t[i]
<1>1. SubSeq(s, 1, Len(s)) = s
  BY SubSeqFull
<1>2. ASSUME Len(s) <= Len(t)
      PROVE  /\ SubSeq(t, 1, Len(s)) \in Seq(S)
             /\ Len(SubSeq(t, 1, Len(s))) = Len(s)
             /\ \A i \in 1..Len(s) : SubSeq(t, 1, Len(s))[i] = t[i]
  <2>1. \A i \in 1..Len(s) : t[i] \in S
    BY <1>2, LenProperties, ElementOfSeq
  <2>2. Len(s) \in Nat
    BY LenProperties
  <2> QED
    BY <2>1, <2>2, SubSeqProperties
<1>3. ASSUME Len(s) <= Len(t), \A i \in 1..Len(s) : s[i] = t[i]
      PROVE  s = SubSeq(t, 1, Len(s))
  BY <1>2, <1>3, SeqEqual
<1> QED
  BY <1>1, <1>2, <1>3 DEF IsPrefix

\* Whatever the tree holds, the entries that are loaded are rules.
LEMMA LoadableType ==
    ASSUME NEW s \in Seq(Entries)
    PROVE  Loadable(s) \in Seq(Rules)
<1> DEFINE holes == {i \in 1..Len(s) : s[i] = EmptyGroup}
<1>0. Len(s) \in Nat /\ \A i \in 1..Len(s) : s[i] \in Entries
  BY LenProperties, ElementOfSeq
<1>1. CASE holes = {}
  <2>1. \A i \in 1..Len(s) : s[i] \in Rules
    BY <1>0, <1>1 DEF Entries
  <2>2. s = SubSeq(s, 1, Len(s))
    BY SubSeqFull
  <2>3. SubSeq(s, 1, Len(s)) \in Seq(Rules)
    BY <1>0, <2>1, SubSeqProperties
  <2> QED
    BY <1>1, <2>2, <2>3 DEF Loadable
<1>2. CASE holes # {}
  <2> DEFINE h == CHOOSE i \in holes : \A j \in holes : i <= j
  <2>1. \E i \in holes : \A j \in holes : i <= j
    <3>1. holes \in SUBSET Nat
      BY <1>0
    <3> HIDE DEF holes
    <3> QED
      BY <1>2, <3>1, FirstOf
  <2>2. h \in holes /\ \A j \in holes : h <= j
    BY <2>1
  <2> HIDE DEF h
  <2>3. \A i \in 1..(h - 1) : s[i] \in Rules
    BY <1>0, <2>2 DEF Entries
  <2>4. h - 1 \in Int
    BY <1>0, <2>2
  <2>5. SubSeq(s, 1, h - 1) \in Seq(Rules)
    BY <2>3, <2>4, SubSeqProperties
  <2>6. Loadable(s) = SubSeq(s, 1, h - 1)
    BY <1>2 DEF Loadable, h
  <2> QED
    BY <2>5, <2>6
<1> QED
  BY <1>1, <1>2

\* Removing an entry leaves the other entries.
LEMMA RemoveAtType ==
    ASSUME NEW S, NEW s \in Seq(S), NEW k \in 1..Len(s)
    PROVE  RemoveAt(s, k) \in Seq(S) /\ Len(RemoveAt(s, k)) = Len(s) - 1
<1> DEFINE a == SubSeq(s, 1, k - 1)
           b == SubSeq(s, k + 1, Len(s))
<1>0. Len(s) \in Nat /\ \A i \in 1..Len(s) : s[i] \in S
  BY LenProperties, ElementOfSeq
<1>1. a \in Seq(S) /\ Len(a) = k - 1
  <2>1. \A i \in 1..(k - 1) : s[i] \in S
    BY <1>0
  <2> QED
    BY <1>0, <2>1, SubSeqProperties
<1>2. b \in Seq(S) /\ Len(b) = Len(s) - k
  <2>1. \A i \in (k + 1)..Len(s) : s[i] \in S
    BY <1>0
  <2> QED
    BY <1>0, <2>1, SubSeqProperties
<1>3. RemoveAt(s, k) = a \o b
  BY DEF RemoveAt
<1> HIDE DEF a, b
<1>4. a \o b \in Seq(S) /\ Len(a \o b) = Len(a) + Len(b)
  BY <1>1, <1>2, ConcatProperties
<1>5. Len(a) + Len(b) = Len(s) - 1
  BY <1>0, <1>1, <1>2
<1> QED
  BY <1>3, <1>4, <1>5

\* A list of rules has no empty entry, so all of it is loaded.
LEMMA RulesLoadable ==
    ASSUME NEW s \in Seq(Rules)
    PROVE  Loadable(s) = s
<1>1. \A i \in 1..Len(s) : s[i] # EmptyGroup
  BY RulesAssumption, ElementOfSeq, LenProperties
<1> QED
  BY <1>1 DEF Loadable

\* A move, successful or not, leaves a list of entries in the tree.
LEMMA MoveType ==
    ASSUME NEW s \in Seq(Entries), NEW what \in Nat, NEW where \in Nat, NEW op
    PROVE  move_policy(s, what, where, op) \in Seq(Entries)
<1> DEFINE rest == RemoveAt(s, what + 1)
<1>0. Len(s) \in Nat /\ (\A i \in 1..Len(s) : s[i] \in Entries) /\ EmptyGroup \in Entries
  BY LenProperties, ElementOfSeq DEF Entries
<1>1. CASE what >= Len(s) /\ where < Len(s)
  <2>1. \A k \in 0..Len(s) : SubSeq(s, 1, k) \in Seq(Entries)
    BY <1>0, SubSeqProperties
  <2>2. where \in 0..Len(s) /\ where + 1 \in 0..Len(s)
    BY <1>0, <1>1
  <2>3. \A t \in Seq(Entries) : Append(t, EmptyGroup) \in Seq(Entries)
    BY <1>0, AppendProperties
  <2>4. SubSeq(s, 1, where) \in Seq(Entries) /\ SubSeq(s, 1, where + 1) \in Seq(Entries)
    BY <2>1, <2>2
  <2> QED
    BY <1>0, <1>1, <2>3, <2>4 DEF move_policy
<1>2. ASSUME what < Len(s)
      PROVE  rest \in Seq(Entries) /\ Len(rest) = Len(s) - 1
  BY <1>0, <1>2, RemoveAtType
<1>3. CASE what < Len(s) /\ where < Len(s) /\ where # what
  <2> DEFINE pos == IF where < what THEN where + 1 ELSE where
             p   == IF op = "OP_MOVE_AFTER" THEN pos + 1 ELSE pos
             e   == s[what + 1]
  <2>1. p \in 1..(Len(s)) /\ e \in Entries
    BY <1>0, <1>3
  <2>2. \A i \in 1..Len(rest) : rest[i] \in Entries
    BY <1>2, <1>3, ElementOfSeq
  <2>3. SubSeq(rest, 1, p - 1) \in Seq(Entries)
    <3>1. \A i \in 1..(p - 1) : rest[i] \in Entries
      BY <1>0, <1>2, <1>3, <2>1, <2>2
    <3> QED
      BY <1>0, <2>1, <3>1, SubSeqProperties
  <2>4. SubSeq(rest, p, Len(rest)) \in Seq(Entries)
    <3>1. \A i \in p..Len(rest) : rest[i] \in Entries
      BY <1>0, <1>2, <1>3, <2>1, <2>2
    <3> QED
      BY <1>0, <1>2, <1>3, <2>1, <3>1, SubSeqProperties
  <2>5. <<e>> \in Seq(Entries)
    BY <2>1
  <2>6. InsertAt(rest, p, e) \in Seq(Entries)
    BY <2>3, <2>4, <2>5, ConcatProperties DEF InsertAt
  <2>7. move_policy(s, what, where, op) = InsertAt(rest, p, e)
    BY <1>0, <1>3 DEF move_policy
  <2> QED
    BY <2>6, <2>7
<1>4. CASE what >= Len(s) /\ where >= Len(s)
  BY <1>0, <1>4 DEF move_policy
<1>5. CASE what < Len(s) /\ (where >= Len(s) \/ where = what)
  BY <1>0, <1>2, <1>5 DEF move_policy
<1> QED
  BY <1>0, <1>1, <1>3, <1>4, <1>5

\* The indices of every `move` a session can issue are natural numbers.
LEMMA MovesType ==
    ASSUME TypeOK, NEW a \in Admins, NEW m \in Moves(a)
    PROVE  m.what \in Nat /\ m.where \in Nat
<1>1. PICK c \in cmds[a] : c[1] >= 0 /\ m \in MovesOf(c[1], c[2])
  BY DEF Moves
<1>2. c \in MoveCommands
  BY <1>1 DEF TypeOK
<1>3. c[1] \in Nat /\ c[2] \in Nat
  BY <1>1, <1>2 DEF MoveCommands
<1>4. Len(dbList) \in Nat
  BY LenProperties DEF TypeOK
<1> DEFINE i == c[1]
           len == c[2]
<1>5. i \in Nat /\ len \in Nat /\ m \in MovesOf(i, len)
  BY <1>1, <1>3
<1> HIDE DEF i, len
<1>6. ASSUME NEW j \in (0..(len - 1)) \ {i}, NEW op \in op_move, m = Move(i, j, op)
      PROVE  m.what \in Nat /\ m.where \in Nat
  BY <1>5, <1>6 DEF Move
<1>7. ASSUME NEW j \in {k \in {i - 1, 0} : i > 0}, m = Move(i, j, "OP_MOVE_BEFORE")
      PROVE  m.what \in Nat /\ m.where \in Nat
  BY <1>5, <1>7 DEF Move
<1>8. ASSUME NEW j \in {k \in {i + 1, Len(dbList) - 1} : i < len - 1 /\ k < Len(dbList) /\ k >= 0},
             m = Move(i, j, "OP_MOVE_AFTER")
      PROVE  m.what \in Nat /\ m.where \in Nat
  <2>1. j \in Nat
    BY <1>4, <1>5, <1>8
  <2> QED
    BY <1>5, <1>8, <2>1 DEF Move
<1> QED
  BY <1>5, <1>6, <1>7, <1>8 DEF MovesOf

\* Loading into an empty list gives exactly the loadable entries.
LEMMA RefreshLoads ==
    ASSUME NEW s \in Seq(Entries)
    PROVE  load_db_policy(<<>>, s) = Loadable(s) /\ load_db_policy(<<>>, s) \in Seq(Rules)
<1>1. Loadable(s) \in Seq(Rules)
  BY LoadableType
<1>2. <<>> \o Loadable(s) = Loadable(s)
  BY <1>1, ConcatEmptySeq
<1> QED
  BY <1>1, <1>2 DEF load_db_policy

-----------------------------------------------------------------------------
(* Types.                                                                  *)

\* One step of any operator keeps the types.
LEMMA TypeStep ==
    ASSUME TypeOK, [Next]_vars
    PROVE  TypeOK'
<1> USE RulesAssumption
<1>0. /\ Rules \subseteq Entries /\ NewRule \in Entries
      /\ Len(cfg) \in Nat /\ cfg \in Seq(Entries)
      /\ dbList \in Seq(Rules) /\ file \in Seq(Rules)
      /\ cmds \in [Admins -> SUBSET MoveCommands] /\ Len(dbList) \in Nat
  BY LenProperties DEF TypeOK, Entries
<1>1. ASSUME NEW a \in Admins, Starts(a)
      PROVE  ops' \in 0..MaxOps
  BY <1>1 DEF Starts, TypeOK
<1>2. ASSUME NEW a \in Admins, AddPolicy(a)
      PROVE  TypeOK'
  <2>1. cfg' \in Seq(Entries)
    BY <1>0, <1>2, AppendProperties DEF AddPolicy
  <2>2. dbList' \in Seq(Rules) /\ stale' \in BOOLEAN
    BY <1>2, <2>1, RefreshLoads DEF AddPolicy, Refresh
  <2> QED
    BY <1>1, <1>2, <2>1, <2>2 DEF AddPolicy, TypeOK, Stages
<1>3. ASSUME NEW a \in Admins, NEW i \in 1..Len(cfg), NEW r \in Rules, SetPolicy(a, i, r)
      PROVE  TypeOK'
  <2>1. cfg' \in Seq(Entries)
    BY <1>0, <1>3, ExceptSeq DEF SetPolicy
  <2>2. dbList' \in Seq(Rules) /\ stale' \in BOOLEAN
    BY <1>3, <2>1, RefreshLoads DEF SetPolicy, Refresh
  <2> QED
    BY <1>1, <1>3, <2>1, <2>2 DEF SetPolicy, TypeOK
<1>4. ASSUME NEW a \in Admins, NEW i \in 1..Len(cfg), RemovePolicy(a, i)
      PROVE  TypeOK'
  <2>1. cfg' \in Seq(Entries)
    BY <1>0, <1>4, RemoveAtType DEF RemovePolicy
  <2>2. dbList' \in Seq(Rules) /\ stale' \in BOOLEAN
    BY <1>4, <2>1, RefreshLoads DEF RemovePolicy, Refresh
  <2> QED
    BY <1>1, <1>4, <2>1, <2>2 DEF RemovePolicy, TypeOK
<1>5. ASSUME NEW a \in Admins, cli_generate_commands(a)
      PROVE  TypeOK'
  <2>1. {<<i, Len(cfg)>> : i \in 0..(Len(cfg) - 1)} \subseteq MoveCommands
    BY <1>0 DEF MoveCommands
  <2>2. cmds' \in [Admins -> SUBSET MoveCommands]
    BY <1>0, <1>5, <2>1 DEF cli_generate_commands
  <2> QED
    BY <1>5, <2>2 DEF cli_generate_commands, TypeOK
<1>6. ASSUME NEW a \in Admins, NEW m \in Moves(a), MovePolicy(a, m)
      PROVE  TypeOK'
  <2>1. cfg' \in Seq(Entries)
    BY <1>0, <1>6, MovesType, MoveType DEF MovePolicy
  <2>2. stage' \in [Admins -> Stages] /\ stale' \in BOOLEAN
    BY <1>6 DEF MovePolicy, TypeOK, Stages
  <2> QED
    BY <1>1, <1>6, <2>1, <2>2 DEF MovePolicy, TypeOK
<1>7. ASSUME NEW a \in Admins, MoveCleanup(a)
      PROVE  TypeOK'
  BY <1>7, EmptySeq DEF MoveCleanup, TypeOK, Stages
<1>8. ASSUME NEW a \in Admins, MoveLoad(a)
      PROVE  TypeOK'
  <2>1. Loadable(cfg) \in Seq(Rules)
    BY <1>0, LoadableType
  <2>2. dbList' \in Seq(Rules)
    BY <1>0, <1>8, <2>1, ConcatProperties DEF MoveLoad, load_db_policy
  <2> QED
    BY <1>8, <2>2 DEF MoveLoad, TypeOK, Stages
<1>9. ASSUME NEW a \in Admins, NEW s \in {file, cfg, <<>>}, ReadFile(a, s)
      PROVE  TypeOK'
  <2>1. file \in Seq(Entries)
    BY <1>0, SeqMono
  <2>2. s \in Seq(Entries)
    BY <1>0, <2>1, EmptySeq
  <2> QED
    BY <1>1, <1>9, <2>2 DEF ReadFile, TypeOK, Stages
<1>10. ASSUME NEW a \in Admins, ApplyFile(a)
       PROVE  TypeOK'
  <2>1. dbList' \in Seq(Rules) /\ stale' \in BOOLEAN
    BY <1>0, <1>10, RefreshLoads DEF ApplyFile, Refresh
  <2> QED
    BY <1>10, <2>1 DEF ApplyFile, TypeOK, Stages
<1>11. ASSUME NEW a \in Admins, SaveConfig(a)
       PROVE  TypeOK'
  BY <1>0, <1>1, <1>11 DEF SaveConfig, TypeOK
<1>12. ASSUME Restart, ops' \in 0..MaxOps
       PROVE  TypeOK'
  <2>1. cfg' \in Seq(Entries)
    BY <1>0, <1>12, SeqMono DEF Restart
  <2>2. stage' \in [Admins -> Stages] /\ cmds' \in [Admins -> SUBSET MoveCommands]
    BY <1>12 DEF Restart, Stages
  <2> QED
    BY <1>0, <1>12, <2>1, <2>2 DEF Restart, TypeOK
<1>13. ASSUME NEW a \in Admins, EditThrows(a) \/ MoveLoadThrows(a)
       PROVE  TypeOK'
  BY <1>1, <1>12, <1>13 DEF EditThrows, MoveLoadThrows, TypeOK
<1>14. CASE UNCHANGED vars
  BY <1>14 DEF vars, TypeOK
<1>15. ASSUME NEW a \in Admins, ReadLength(a)
       PROVE  TypeOK'
  BY <1>0, <1>15 DEF ReadLength, TypeOK, Stages
<1>16. ASSUME NEW a \in Admins, RegisterEntry(a)
       PROVE  TypeOK'
  <2>1. seen[a] \in Nat
    BY DEF TypeOK
  <2>2. <<Len(dbList) - 1, seen[a]>> \in MoveCommands
    BY <1>0, <2>1 DEF MoveCommands
  <2>3. cmds' \in [Admins -> SUBSET MoveCommands]
    BY <1>0, <1>16, <2>2 DEF RegisterEntry
  <2> QED
    BY <1>16, <2>3 DEF RegisterEntry, TypeOK, Stages
<1> QED
  BY <1>2, <1>3, <1>4, <1>5, <1>6, <1>7, <1>8, <1>9, <1>10, <1>11, <1>13, <1>14, <1>15, <1>16 DEF Next

\* The loaded list and the file hold rules only, never the empty entry a
\* failed move leaves in the tree, however operators interleave.
THEOREM TypeCorrect == Spec => []TypeOK
<1>1. Init => TypeOK
  <2> SUFFICES ASSUME Init PROVE TypeOK
    OBVIOUS
  <2>1. InitPolicy \in Seq(Entries)
    BY RulesAssumption, SeqMono DEF Entries
  <2>2. stage \in [Admins -> Stages] /\ cmds \in [Admins -> SUBSET MoveCommands]
    BY DEF Init, Stages
  <2>3. ops \in 0..MaxOps
    BY RulesAssumption DEF Init
  <2> QED
    BY <2>1, <2>2, <2>3, RulesAssumption DEF Init, TypeOK
<1>2. TypeOK /\ [Next]_vars => TypeOK'
  BY TypeStep
<1> QED
  BY <1>1, <1>2, PTL DEF Spec

-----------------------------------------------------------------------------
(* Verdicts.                                                               *)

\* The loop of policy_match stops at the first hit, so a list that starts
\* with L and holds nothing but entries of L decides as L does.
LEMMA SameVerdict ==
    ASSUME NEW L \in Seq(Rules), NEW d \in Seq(Rules), NEW f,
           IsPrefix(L, d),
           \A i \in 1..Len(d) : \E j \in 1..Len(L) : d[i] = L[j]
    PROVE  Deciding(d, f) = Deciding(L, f)
<1>1. /\ Len(L) \in Nat /\ Len(d) \in Nat /\ Len(L) <= Len(d)
      /\ \A i \in 1..Len(L) : L[i] = d[i]
  BY PrefixPointwise, LenProperties
<1>2. /\ Hits(L, f) \subseteq Hits(d, f)
      /\ Hits(L, f) \subseteq 1..Len(L)
      /\ \A i \in Hits(d, f) : i \in Nat /\ (i <= Len(L) => i \in Hits(L, f))
  BY <1>1 DEF Hits
<1>3. CASE Hits(L, f) = {}
  <2>1. Hits(d, f) = {}
    BY <1>3 DEF Hits
  <2> QED
    BY <1>3, <2>1 DEF Deciding, policy_match
<1>4. CASE Hits(L, f) # {}
  <2> DEFINE first(S) == CHOOSE i \in S : \A j \in S : i <= j
  <2>1. PICK i \in Hits(L, f) : \A j \in Hits(L, f) : i <= j
    BY <1>1, <1>2, <1>4, FirstOf
  <2>2. i \in Hits(d, f) /\ (\A j \in Hits(d, f) : i <= j) /\ i \in 1..Len(L)
    BY <1>1, <1>2, <2>1
  <2>3. first(Hits(L, f)) = i
    BY <1>1, <1>2, <2>1, <2>2
  <2>4. first(Hits(d, f)) = i
    <3>1. \A k \in Hits(d, f) : (\A j \in Hits(d, f) : k <= j) => k = i
      BY <1>2, <2>2
    <3> QED
      BY <2>2, <3>1
  <2>5. policy_match(L, f) = i - 1 /\ policy_match(d, f) = i - 1
    BY <1>4, <2>2, <2>3, <2>4 DEF policy_match
  <2>6. i - 1 # NoPolicy /\ (i - 1) + 1 = i
    BY <1>1, <2>2 DEF NoPolicy
  <2> QED
    BY <1>1, <2>2, <2>5, <2>6 DEF Deciding
<1> QED
  BY <1>3, <1>4

\* Loading on top of a copy of the policy, or of nothing, gives a list that
\* starts with the policy and holds nothing else.
LEMMA LoadAgain ==
    ASSUME NEW L \in Seq(Rules), NEW d \in Seq(Rules),
           IsPrefix(L, d) \/ d = <<>>,
           \A i \in 1..Len(d) : \E j \in 1..Len(L) : d[i] = L[j]
    PROVE  /\ IsPrefix(L, d \o L)
           /\ \A i \in 1..Len(d \o L) : \E j \in 1..Len(L) : (d \o L)[i] = L[j]
<1>1. /\ d \o L \in Seq(Rules) /\ Len(d \o L) = Len(d) + Len(L)
      /\ \A i \in 1..Len(d) : (d \o L)[i] = d[i]
      /\ \A i \in (Len(d) + 1)..(Len(d) + Len(L)) : (d \o L)[i] = L[i - Len(d)]
      /\ Len(d) \in Nat /\ Len(L) \in Nat
  BY ConcatProperties, LenProperties
<1> DEFINE c == d \o L
<1> HIDE DEF c
<1>2. /\ c \in Seq(Rules) /\ Len(c) = Len(d) + Len(L)
      /\ \A i \in 1..Len(d) : c[i] = d[i]
      /\ \A i \in (Len(d) + 1)..(Len(d) + Len(L)) : c[i] = L[i - Len(d)]
  BY <1>1 DEF c
<1>3. \A i \in 1..Len(L) : L[i] = c[i]
  <2>1. CASE IsPrefix(L, d)
    BY <1>1, <1>2, <2>1, PrefixPointwise
  <2>2. CASE d = <<>>
    <3>1. Len(d) = 0
      BY <2>2, EmptySeq
    <3> QED
      BY <1>1, <1>2, <3>1
  <2> QED
    BY <2>1, <2>2
<1>4. IsPrefix(L, c)
  BY <1>1, <1>2, <1>3, PrefixPointwise
<1>5. ASSUME NEW i \in 1..Len(c)
      PROVE  \E j \in 1..Len(L) : c[i] = L[j]
  <2>1. CASE i <= Len(d)
    BY <1>1, <1>2, <2>1
  <2>2. CASE i > Len(d)
    <3>1. i \in (Len(d) + 1)..(Len(d) + Len(L)) /\ i - Len(d) \in 1..Len(L)
      BY <1>1, <1>2, <2>2
    <3> QED
      BY <1>2, <3>1
  <2> QED
    BY <1>1, <1>2, <2>1, <2>2
<1> QED
  BY <1>4, <1>5 DEF c

\* A freshly loaded list is its own copy.
LEMMA CopyOfItself ==
    ASSUME NEW L \in Seq(Rules)
    PROVE  /\ IsPrefix(L, L)
           /\ \A i \in 1..Len(L) : \E j \in 1..Len(L) : L[i] = L[j]
<1>1. Len(L) \in Nat
  BY LenProperties
<1>2. IsPrefix(L, L)
  BY <1>1, PrefixPointwise
<1> QED
  BY <1>2

\* Every step keeps CopyOfConfig: an edit or a reload replaces the list, a
\* move opens the window in which it claims nothing until the list is cleared,
\* and every load after that adds one more copy.
LEMMA CopyStep ==
    ASSUME TypeOK, TypeOK', CopyOfConfig, [Next]_vars
    PROVE  CopyOfConfig'
<1>0. /\ cfg \in Seq(Entries) /\ cfg' \in Seq(Entries)
      /\ Loadable(cfg) \in Seq(Rules) /\ Loadable(cfg)' \in Seq(Rules)
      /\ dbList \in Seq(Rules) /\ stage \in [Admins -> Stages]
  BY LoadableType DEF TypeOK
<1>1. ASSUME Refresh(cfg')
      PROVE  CopyOfConfig'
  <2>1. dbList' = Loadable(cfg)'
    BY <1>0, <1>1, RefreshLoads DEF Refresh
  <2> QED
    BY <1>0, <2>1, CopyOfItself DEF CopyOfConfig
<1>2. ASSUME UNCHANGED <<cfg, dbList, stage, stale>>
      PROVE  CopyOfConfig'
  BY <1>2 DEF CopyOfConfig
<1>3. ASSUME NEW a \in Admins, stage' = [stage EXCEPT ![a] = "moved"]
      PROVE  CopyOfConfig'
  BY <1>0, <1>3 DEF CopyOfConfig
<1>4. ASSUME NEW a \in Admins, stage' = [stage EXCEPT ![a] = "read"]
      PROVE  CopyOfConfig'
  BY <1>0, <1>4 DEF CopyOfConfig
<1>5. ASSUME NEW a \in Admins, AddPolicy(a)
      PROVE  CopyOfConfig'
  BY <1>1, <1>5 DEF AddPolicy
<1>6. ASSUME NEW a \in Admins, NEW i \in 1..Len(cfg), NEW r \in Rules, SetPolicy(a, i, r)
      PROVE  CopyOfConfig'
  BY <1>1, <1>6 DEF SetPolicy
<1>7. ASSUME NEW a \in Admins, NEW i \in 1..Len(cfg), RemovePolicy(a, i)
      PROVE  CopyOfConfig'
  BY <1>1, <1>7 DEF RemovePolicy
<1>8. ASSUME NEW a \in Admins, cli_generate_commands(a)
      PROVE  CopyOfConfig'
  BY <1>2, <1>8 DEF cli_generate_commands
<1>9. ASSUME NEW a \in Admins, NEW m \in Moves(a), MovePolicy(a, m)
      PROVE  CopyOfConfig'
  <2>1. CASE MoveThrows(cfg, m.what, m.where)
    BY <1>9, <2>1 DEF MovePolicy, CopyOfConfig
  <2>2. CASE ~MoveThrows(cfg, m.what, m.where)
    BY <1>3, <1>9, <2>2 DEF MovePolicy
  <2> QED
    BY <2>1, <2>2
<1>10. ASSUME NEW a \in Admins, MoveCleanup(a)
       PROVE  CopyOfConfig'
  <2>1. dbList' = <<>> /\ stage'[a] = "cleaned"
    BY <1>0, <1>10 DEF MoveCleanup
  <2>2. \A i \in 1..Len(dbList') : \E j \in 1..Len(Loadable(cfg)') : dbList'[i] = Loadable(cfg)'[j]
    BY <2>1, EmptySeq
  <2> QED
    BY <2>1, <2>2 DEF CopyOfConfig
<1>11. ASSUME NEW a \in Admins, MoveLoad(a)
       PROVE  CopyOfConfig'
  <2> SUFFICES ASSUME ~stale', \A b \in Admins : stage'[b] \notin {"moved", "read"}
               PROVE  /\ IsPrefix(Loadable(cfg), dbList)'
                      /\ (\A i \in 1..Len(dbList) : \E j \in 1..Len(Loadable(cfg)) :
                                dbList[i] = Loadable(cfg)[j])'
    BY DEF CopyOfConfig
  <2>1. ~stale /\ \A b \in Admins : stage[b] \notin {"moved", "read"}
    BY <1>0, <1>11 DEF MoveLoad
  <2>2. /\ IsPrefix(Loadable(cfg), dbList) \/ dbList = <<>>
        /\ \A i \in 1..Len(dbList) : \E j \in 1..Len(Loadable(cfg)) : dbList[i] = Loadable(cfg)[j]
    BY <2>1 DEF CopyOfConfig
  <2>3. cfg' = cfg /\ dbList' = dbList \o Loadable(cfg)
    BY <1>11 DEF MoveLoad, load_db_policy
  <2>4. Loadable(cfg)' = Loadable(cfg)
    BY <2>3 DEF Loadable
  <2> DEFINE L == Loadable(cfg)
  <2>5. /\ IsPrefix(L, dbList \o L)
        /\ \A i \in 1..Len(dbList \o L) : \E j \in 1..Len(L) : (dbList \o L)[i] = L[j]
    <3> HIDE DEF L
    <3>1. /\ L \in Seq(Rules) /\ dbList \in Seq(Rules)
          /\ IsPrefix(L, dbList) \/ dbList = <<>>
          /\ \A i \in 1..Len(dbList) : \E j \in 1..Len(L) : dbList[i] = L[j]
      BY <1>0, <2>2 DEF L
    <3> QED
      BY <3>1, LoadAgain
  <2> QED
    BY <2>3, <2>4, <2>5
<1>12. ASSUME NEW a \in Admins, NEW s \in {file, cfg, <<>>}, ReadFile(a, s)
       PROVE  CopyOfConfig'
  BY <1>4, <1>12 DEF ReadFile
<1>13. ASSUME NEW a \in Admins, ApplyFile(a)
       PROVE  CopyOfConfig'
  BY <1>1, <1>13 DEF ApplyFile
<1>14. ASSUME NEW a \in Admins, SaveConfig(a)
       PROVE  CopyOfConfig'
  BY <1>2, <1>14 DEF SaveConfig
<1>15. ASSUME NEW a \in Admins, EditThrows(a) \/ MoveLoadThrows(a)
       PROVE  CopyOfConfig'
  <2>1. cfg' = file /\ dbList' = file /\ file \in Seq(Rules)
    BY <1>15 DEF EditThrows, MoveLoadThrows, Restart, TypeOK
  <2>2. dbList' = Loadable(cfg)'
    BY <2>1, RulesLoadable
  <2> QED
    BY <1>0, <2>2, CopyOfItself DEF CopyOfConfig
<1>16. CASE UNCHANGED vars
  BY <1>2, <1>16 DEF vars
<1>17. ASSUME NEW a \in Admins, ReadLength(a) \/ RegisterEntry(a)
       PROVE  CopyOfConfig'
  <2>1. /\ UNCHANGED <<cfg, dbList, stale>> /\ stage[a] \in {"added", "measured"}
        /\ stage' = [stage EXCEPT ![a] = "measured"] \/ stage' = [stage EXCEPT ![a] = "idle"]
    BY <1>17 DEF ReadLength, RegisterEntry
  <2>2. \A b \in Admins, st \in {"moved", "read", "cleaned"} : stage'[b] = st <=> stage[b] = st
    BY <1>0, <2>1
  <2> QED
    BY <2>1, <2>2 DEF CopyOfConfig
<1> QED
  BY <1>5, <1>6, <1>7, <1>8, <1>9, <1>10, <1>11, <1>12, <1>13, <1>14, <1>15, <1>16, <1>17 DEF Next

\* However the operators' critical sections interleave, the loaded list is a
\* copy of the configured policy (or several), or a clear or a load is pending.
THEOREM Copies == Spec => []CopyOfConfig
<1>1. Init => CopyOfConfig
  <2> SUFFICES ASSUME Init PROVE CopyOfConfig
    OBVIOUS
  <2>1. Loadable(InitPolicy) = InitPolicy
    BY RulesAssumption, RulesLoadable
  <2> QED
    BY <2>1, RulesAssumption, CopyOfItself DEF Init, CopyOfConfig
<1>2. TypeOK /\ TypeOK' /\ CopyOfConfig /\ [Next]_vars => CopyOfConfig'
  BY CopyStep
<1> QED
  BY <1>1, <1>2, TypeCorrect, PTL DEF Spec

\* Once all operators are done, every flow meets the rule the configuration
\* tree says it should meet, even when the list was loaded more than once.
THEOREM Verdicts == Spec => []QuietVerdicts
<1>1. TypeOK /\ CopyOfConfig => QuietVerdicts
  <2> SUFFICES ASSUME TypeOK, CopyOfConfig, Quiet, NEW f \in Flows
               PROVE  Deciding(dbList, f) = Deciding(Loadable(cfg), f)
    BY DEF QuietVerdicts
  <2>1. Loadable(cfg) \in Seq(Rules) /\ dbList \in Seq(Rules)
    BY LoadableType DEF TypeOK
  <2>2. /\ IsPrefix(Loadable(cfg), dbList)
        /\ \A i \in 1..Len(dbList) : \E j \in 1..Len(Loadable(cfg)) : dbList[i] = Loadable(cfg)[j]
    BY DEF Quiet, Busy, CopyOfConfig
  <2> QED
    BY <2>1, <2>2, SameVerdict
<1> QED
  BY <1>1, TypeCorrect, Copies, PTL

-----------------------------------------------------------------------------
(* Refinement: the database implements PolicyService, step by step.        *)

\* What a flow meets is one of the rules, or nothing.
LEMMA DecidingType ==
    ASSUME NEW l \in Seq(Rules), NEW f
    PROVE  Deciding(l, f) \in Service!Decisions
<1>1. Len(l) \in Nat /\ Hits(l, f) \subseteq 1..Len(l) /\ Hits(l, f) \in SUBSET Nat
  BY LenProperties DEF Hits
<1>2. CASE Hits(l, f) = {}
  BY <1>2 DEF Deciding, policy_match, Service!Decisions
<1>3. CASE Hits(l, f) # {}
  <2> DEFINE first == CHOOSE i \in Hits(l, f) : \A j \in Hits(l, f) : i <= j
  <2>1. first \in 1..Len(l)
    BY <1>1, <1>3, FirstOf
  <2>2. policy_match(l, f) = first - 1
    BY <1>3 DEF policy_match
  <2> HIDE DEF first
  <2>3. policy_match(l, f) # NoPolicy /\ policy_match(l, f) + 1 = first
    BY <1>1, <2>1, <2>2 DEF NoPolicy
  <2>4. Deciding(l, f) = <<l[first]>>
    BY <2>3 DEF Deciding
  <2>5. l[first] \in Rules
    BY <2>1, ElementOfSeq
  <2> QED
    BY <2>4, <2>5 DEF Service!Decisions
<1> QED
  BY <1>2, <1>3

\* Nothing is met in an empty list.
LEMMA EmptyDecides ==
    ASSUME NEW f
    PROVE  Deciding(<<>>, f) = <<>>
<1>1. Len(<<>>) = 0
  BY EmptySeq
<1>2. Hits(<<>>, f) = {}
  BY <1>1 DEF Hits
<1> QED
  BY <1>2 DEF Deciding, policy_match

\* The first hit in a list and the rule there are what Deciding returns.
LEMMA DecidedByFirst ==
    ASSUME NEW l \in Seq(Rules), NEW f, NEW i \in Hits(l, f), \A j \in Hits(l, f) : i <= j
    PROVE  Deciding(l, f) = <<l[i]>>
<1>1. Hits(l, f) \in SUBSET Nat /\ i \in Nat /\ i >= 1
  BY LenProperties DEF Hits
<1>2. \A k \in Hits(l, f) : (\A j \in Hits(l, f) : k <= j) => k = i
  BY <1>1
<1>3. (CHOOSE k \in Hits(l, f) : \A j \in Hits(l, f) : k <= j) = i
  BY <1>2
<1>4. policy_match(l, f) = i - 1
  BY <1>3 DEF policy_match
<1>5. i - 1 # NoPolicy /\ (i - 1) + 1 = i
  BY <1>1 DEF NoPolicy
<1> QED
  BY <1>4, <1>5 DEF Deciding

\* In a list loaded on top of another one a flow meets what it met in the
\* first, or what it meets in the second.
LEMMA DecidedByParts ==
    ASSUME NEW d \in Seq(Rules), NEW l \in Seq(Rules), NEW f
    PROVE  Deciding(d \o l, f) \in {Deciding(d, f), Deciding(l, f)}
<1> DEFINE c == d \o l
<1>1. /\ c \in Seq(Rules) /\ Len(c) = Len(d) + Len(l)
      /\ \A i \in 1..Len(d) : c[i] = d[i]
      /\ \A i \in (Len(d) + 1)..(Len(d) + Len(l)) : c[i] = l[i - Len(d)]
      /\ Len(d) \in Nat /\ Len(l) \in Nat
  BY ConcatProperties, LenProperties
<1> HIDE DEF c
<1>2. /\ \A i \in 1..Len(d) : i \in Hits(c, f) <=> i \in Hits(d, f)
      /\ \A i \in 1..Len(l) : i + Len(d) \in Hits(c, f) <=> i \in Hits(l, f)
      /\ \A i \in Hits(c, f) : i \in 1..Len(d) \/ i - Len(d) \in 1..Len(l)
      /\ Hits(c, f) \in SUBSET Nat /\ Hits(l, f) \in SUBSET Nat /\ Hits(d, f) \subseteq 1..Len(d) /\ Hits(l, f) \subseteq 1..Len(l)
  <2>1. \A i \in 1..Len(d) : i \in 1..Len(c)
    BY <1>1
  <2>2. ASSUME NEW i \in 1..Len(l)
        PROVE  i + Len(d) \in 1..Len(c) /\ c[i + Len(d)] = l[i]
    <3> DEFINE k == i + Len(d)
    <3>1. k \in (Len(d) + 1)..(Len(d) + Len(l)) /\ k - Len(d) = i /\ k \in 1..Len(c)
      BY <1>1
    <3> HIDE DEF k
    <3>2. c[k] = l[i]
      BY <1>1, <3>1
    <3> QED
      BY <3>1, <3>2 DEF k
  <2>3. \A i \in 1..Len(c) : i \in 1..Len(d) \/ i - Len(d) \in 1..Len(l)
    BY <1>1
  <2> QED
    BY <1>1, <2>1, <2>2, <2>3 DEF Hits
<1>3. CASE Hits(d, f) # {}
  <2>1. PICK i \in Hits(d, f) : \A j \in Hits(d, f) : i <= j
    BY <1>1, <1>2, <1>3, FirstOf
  <2>2. i \in 1..Len(d) /\ i \in Hits(c, f)
    BY <1>2
  <2>3. ASSUME NEW j \in Hits(c, f)
        PROVE  i <= j
    <3>1. j \in Nat
      BY <1>2
    <3>2. CASE j \in 1..Len(d)
      BY <1>2, <2>1, <3>2
    <3>3. CASE j \notin 1..Len(d)
      BY <1>1, <1>2, <2>2, <3>1, <3>3
    <3> QED
      BY <3>2, <3>3
  <2>4. Deciding(c, f) = <<c[i]>> /\ Deciding(d, f) = <<d[i]>>
    BY <1>1, <2>1, <2>2, <2>3, DecidedByFirst
  <2> QED
    BY <1>1, <2>2, <2>4 DEF c
<1>4. CASE Hits(d, f) = {} /\ Hits(l, f) # {}
  <2>1. PICK i \in Hits(l, f) : \A j \in Hits(l, f) : i <= j
    BY <1>1, <1>2, <1>4, FirstOf
  <2>2. i \in 1..Len(l) /\ i + Len(d) \in Hits(c, f)
    BY <1>2
  <2>3. ASSUME NEW j \in Hits(c, f)
        PROVE  i + Len(d) <= j
    <3>1. j \in Nat /\ j - Len(d) \in 1..Len(l) /\ (j - Len(d)) + Len(d) = j
      BY <1>1, <1>2, <1>4
    <3>2. j - Len(d) \in Hits(l, f)
      BY <1>2, <3>1
    <3>3. i <= j - Len(d)
      BY <2>1, <3>2
    <3> QED
      BY <1>1, <2>2, <3>1, <3>3
  <2>4. Deciding(c, f) = <<c[i + Len(d)]>> /\ Deciding(l, f) = <<l[i]>>
    BY <1>1, <2>1, <2>2, <2>3, DecidedByFirst
  <2>5. c[i + Len(d)] = l[i]
    <3> DEFINE k == i + Len(d)
    <3>1. k \in (Len(d) + 1)..(Len(d) + Len(l)) /\ k - Len(d) = i /\ k \in 1..Len(c)
      BY <1>1, <2>2
    <3> HIDE DEF k
    <3>2. c[k] = l[i]
      BY <1>1, <3>1
    <3> QED
      BY <3>1, <3>2 DEF k
  <2> QED
    BY <2>4, <2>5 DEF c
<1>5. CASE Hits(d, f) = {} /\ Hits(l, f) = {}
  <2>1. Hits(c, f) = {}
    BY <1>2, <1>5
  <2> QED
    BY <1>5, <2>1 DEF Deciding, policy_match, c
<1> QED
  BY <1>3, <1>4, <1>5

\* The loaded list stays, is emptied, is replaced by the configured policy or
\* has it appended.
LEMMA ListStep ==
    ASSUME TypeOK, TypeOK', [Next]_vars
    PROVE  \/ dbList' \in {dbList, <<>>, Loadable(cfg)'}
           \/ cfg' = cfg /\ dbList' = dbList \o Loadable(cfg)
<1>0. cfg \in Seq(Entries) /\ cfg' \in Seq(Entries) /\ file \in Seq(Rules)
  BY DEF TypeOK
<1>1. ASSUME Refresh(cfg')
      PROVE  dbList' = Loadable(cfg)'
  BY <1>0, <1>1, RefreshLoads DEF Refresh
<1>2. ASSUME NEW a \in Admins, AddPolicy(a)
      PROVE  dbList' = Loadable(cfg)'
  BY <1>1, <1>2 DEF AddPolicy
<1>3. ASSUME NEW a \in Admins, NEW i \in 1..Len(cfg), NEW r \in Rules, SetPolicy(a, i, r)
      PROVE  dbList' = Loadable(cfg)'
  BY <1>1, <1>3 DEF SetPolicy
<1>4. ASSUME NEW a \in Admins, NEW i \in 1..Len(cfg), RemovePolicy(a, i)
      PROVE  dbList' = Loadable(cfg)'
  BY <1>1, <1>4 DEF RemovePolicy
<1>5. ASSUME NEW a \in Admins, ApplyFile(a)
      PROVE  dbList' = Loadable(cfg)'
  BY <1>1, <1>5 DEF ApplyFile
<1>6. ASSUME NEW a \in Admins, EditThrows(a) \/ MoveLoadThrows(a)
      PROVE  dbList' = Loadable(cfg)'
  <2>1. cfg' = file /\ dbList' = file
    BY <1>6 DEF EditThrows, MoveLoadThrows, Restart
  <2> QED
    BY <1>0, <2>1, RulesLoadable
<1>7. ASSUME NEW a \in Admins, MoveLoad(a)
      PROVE  cfg' = cfg /\ dbList' = dbList \o Loadable(cfg)
  BY <1>7 DEF MoveLoad, load_db_policy
<1>8. ASSUME NEW a \in Admins, MoveCleanup(a)
      PROVE  dbList' = <<>>
  BY <1>8 DEF MoveCleanup
<1>9. ASSUME NEW a \in Admins,
             \/ cli_generate_commands(a) \/ \E m \in Moves(a) : MovePolicy(a, m)
             \/ \E s \in {file, cfg, <<>>} : ReadFile(a, s)
             \/ SaveConfig(a) \/ ReadLength(a) \/ RegisterEntry(a)
      PROVE  dbList' = dbList
  BY <1>9 DEF cli_generate_commands, MovePolicy, ReadFile, SaveConfig, ReadLength, RegisterEntry
<1>10. CASE UNCHANGED vars
  BY <1>10 DEF vars
<1> QED
  BY <1>2, <1>3, <1>4, <1>5, <1>6, <1>7, <1>8, <1>9, <1>10 DEF Next

\* Every step of the database is a step of the service.
LEMMA ServiceStep ==
    ASSUME TypeOK, TypeOK', QuietVerdicts', [Next]_vars
    PROVE  Service!Change
<1>1. /\ dbList \in Seq(Rules) /\ dbList' \in Seq(Rules)
      /\ Loadable(cfg) \in Seq(Rules) /\ Loadable(cfg)' \in Seq(Rules)
  BY LoadableType DEF TypeOK
<1>2. \A f \in Flows : Deciding(dbList', f) \in Service!Decisions
  BY <1>1, DecidingType
<1>3. \A f \in Flows : Deciding(Loadable(cfg)', f) \in Service!Decisions
  BY <1>1, DecidingType
<1>4. ASSUME NEW f \in Flows
      PROVE  Deciding(dbList', f) \in {Deciding(dbList, f), Deciding(Loadable(cfg)', f), <<>>}
  <2>1. CASE dbList' \in {dbList, <<>>, Loadable(cfg)'}
    BY <2>1, EmptyDecides
  <2>2. CASE cfg' = cfg /\ dbList' = dbList \o Loadable(cfg)
    <3>1. Loadable(cfg)' = Loadable(cfg)
      BY <2>2 DEF Loadable
    <3> QED
      BY <1>1, <2>2, <3>1, DecidedByParts
  <2> QED
    BY <2>1, <2>2, ListStep
<1>5. Quiet' => \A f \in Flows : Deciding(dbList', f) = Deciding(Loadable(cfg)', f)
  BY DEF QuietVerdicts
<1>6. Quiet' \in BOOLEAN
  BY DEF Quiet
<1>7. [f \in Flows |-> Deciding(Loadable(cfg), f)]' = [f \in Flows |-> Deciding(Loadable(cfg)', f)]
  BY DEF Deciding, policy_match, Hits
<1>8. [f \in Flows |-> Deciding(dbList, f)]' = [f \in Flows |-> Deciding(dbList', f)]
  BY DEF Deciding, policy_match, Hits
<1> QED
  BY <1>2, <1>3, <1>4, <1>5, <1>6, <1>7, <1>8 DEF Service!Change

\* The initial policy decides as configured.
LEMMA ServiceInit == Init => Service!Init
<1> SUFFICES ASSUME Init PROVE Service!Init
  OBVIOUS
<1>1. Loadable(cfg) = dbList /\ dbList \in Seq(Rules)
  BY RulesAssumption, RulesLoadable DEF Init
<1>2. Quiet = TRUE
  BY DEF Init, Quiet, Busy
<1>3. \A f \in Flows : Deciding(dbList, f) \in Service!Decisions
  BY <1>1, DecidingType
<1> QED
  BY <1>1, <1>2, <1>3 DEF Service!Init

\* The safety half of ServiceImplemented, for any operators, rules and number
\* of operations: with load_db_policy appending to whatever the list holds and
\* moves, reloads, edits and restarts interleaving, no connection ever meets a
\* rule that is neither the one it met nor the one configured, and all meet the
\* configured ones when the operators are done.
THEOREM ImplementsService == Spec => Service!Safety
<1>1. Init => Service!Init
  BY ServiceInit
<1>2. TypeOK /\ TypeOK' /\ QuietVerdicts' /\ [Next]_vars => Service!Change
  BY ServiceStep
<1> QED
  BY <1>1, <1>2, TypeCorrect, Verdicts, PTL DEF Spec, Service!Safety
=============================================================================
