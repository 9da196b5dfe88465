------------------------------ MODULE PolicyDb ------------------------------
(***************************************************************************)
(* The running policy and the operators that change it while traffic is    *)
(* being matched: CLI sessions, the HTTP API and the reload signal.        *)
(*                                                                         *)
(*   cfg     the "policy" list of the libconfig tree (CfgFactory::cfgapi)  *)
(*   dbList  CfgFactory::db_policy_list, what connections are matched with *)
(*   file    the configuration file                                        *)
(*                                                                         *)
(* What changes these happens under CfgFactory::lock(), so one action is   *)
(* one critical section.  Three operations go on after their first one:    *)
(* `move` (reorder the tree, clear the list, load the list), a file reload *)
(* (read the file; clear and load) and `add`, which reads the length of    *)
(* the list twice without the lock.  stage says where an operator is.      *)
(***************************************************************************)
EXTENDS PolicyRules, SequencesExt

CONSTANTS Admins,      \* operators: CLI sessions, API handlers, the signal handler
          Flows,       \* connections as a rule sees them
          Rules,       \* rules an operator can write
          NewRule,     \* what `add` appends: a disabled rule
          EmptyGroup,  \* a policy entry with no fields, left by a failed move
          InitPolicy,  \* the policy smithproxy started with
          MaxOps       \* bound: operations started in one behaviour

ASSUME RulesAssumption ==
    /\ NewRule \in Rules
    /\ EmptyGroup \notin Rules
    /\ \A r \in Rules : r.disabled \in BOOLEAN /\ r.pass \in BOOLEAN
    /\ InitPolicy \in Seq(Rules)
    /\ MaxOps \in Nat

VARIABLES cfg, dbList, file,
          stage,      \* [Admins -> Stages]
          cmds,       \* <<i, len>>: the session has `move [i]` commands made for len entries
          seen,       \* the length of the list as register_cli_entry read it
          stale,      \* a failed move changed cfg and nobody has loaded it since
          ops         \* operations started so far, for the bound only

vars == <<cfg, dbList, file, stage, cmds, seen, stale, ops>>

Stages == {"idle", "moved", "cleaned", "read", "added", "measured"}

Entries == Rules \cup {EmptyGroup}

\* <<i, len>>; i is -1 when `add` reads the list while another operator's
\* move has emptied it.
MoveCommands == {c \in Int \X Nat : c[1] >= -1}

Init ==
    /\ cfg = InitPolicy
    /\ dbList = InitPolicy
    /\ file = InitPolicy
    /\ stage = [a \in Admins |-> "idle"]
    /\ cmds = [a \in Admins |-> {}]
    /\ seen = [a \in Admins |-> 0]
    /\ stale = FALSE
    /\ ops = 0

-----------------------------------------------------------------------------

\* Mutant: the entry that made the loop throw is kept.
Loadable_mut(s) == s

\* The entries load_db_policy gets through: looking up "src" in an entry
\* without fields throws, which ends the loop.
Loadable(s) ==
    LET holes == {i \in 1..Len(s) : s[i] = EmptyGroup}
    IN  IF holes = {} THEN s
        ELSE SubSeq(s, 1, (CHOOSE i \in holes : \A j \in holes : i <= j) - 1)

\* Every entry of s can be loaded.
Whole(s) == \A i \in 1..Len(s) : s[i] # EmptyGroup

\* load_db_policy appends: "list behavior, elements are not overwritten, but added".
load_db_policy(list, s) == list \o Loadable(s)

\* Mutant: the list is loaded again without being cleared first.
Refresh_mut(s) == dbList' = load_db_policy(dbList, s) /\ stale' = FALSE

\* cleanup_db_policy followed by load_db_policy in one critical section.
Refresh(s) == dbList' = load_db_policy(<<>>, s) /\ stale' = FALSE

\* Operator a starts an operation.
Starts(a) == stage[a] = "idle" /\ ops < MaxOps /\ ops' = ops + 1

\* `add`: cfg_add_entry -> _apply_new_entry("policy").
AddPolicy(a) ==
    /\ Starts(a)
    /\ Whole(cfg)
    /\ cfg' = Append(cfg, NewRule)
    /\ Refresh(cfg')
    /\ stage' = [stage EXCEPT ![a] = "added"]
    /\ UNCHANGED <<file, cmds, seen>>

\* register_cli_entry, once the lock is released, gives the session commands
\* for what it takes to be the last loaded rule: one argument is read ...
ReadLength(a) ==
    /\ stage[a] = "added"
    /\ seen' = [seen EXCEPT ![a] = Len(dbList)]
    /\ stage' = [stage EXCEPT ![a] = "measured"]
    /\ UNCHANGED <<cfg, dbList, file, cmds, stale, ops>>

\* ... and the other, perhaps of another list.
RegisterEntry(a) ==
    /\ stage[a] = "measured"
    /\ cmds' = [cmds EXCEPT ![a] = @ \cup {<<Len(dbList) - 1, seen[a]>>}]
    /\ seen' = [seen EXCEPT ![a] = 0]
    /\ stage' = [stage EXCEPT ![a] = "idle"]
    /\ UNCHANGED <<cfg, dbList, file, stale, ops>>

\* `set`/`toggle` on policy.[i] and the API's set: cfg_write_value, then
\* apply_config_change("policy"), all under the caller's lock.
SetPolicy(a, i, r) ==
    /\ Starts(a)
    /\ Whole(cfg)
    /\ cfg' = [cfg EXCEPT ![i] = r]
    /\ Refresh(cfg')
    /\ UNCHANGED <<file, stage, cmds, seen>>

\* `remove [i]`: cli_generic_remove_cb holds the lock to its end.
RemovePolicy(a, i) ==
    /\ Starts(a)
    /\ Whole(RemoveAt(cfg, i))
    /\ cfg' = RemoveAt(cfg, i)
    /\ Refresh(cfg')
    /\ UNCHANGED <<file, stage, cmds, seen>>

\* Outside load_config nothing catches what load_db_policy throws: the session's
\* thread ends in std::terminate, release_crash_handler exits, and the process
\* starts again with the saved file.
Restart ==
    /\ cfg' = file
    /\ dbList' = file
    /\ stage' = [a \in Admins |-> "idle"]
    /\ cmds' = [a \in Admins |-> {}]
    /\ seen' = [a \in Admins |-> 0]
    /\ stale' = FALSE
    /\ UNCHANGED file

\* `add`, `set`, or `remove` of another entry, while the tree holds an empty group.
EditThrows(a) == Starts(a) /\ ~Whole(cfg) /\ Restart

-----------------------------------------------------------------------------

\* Logging in generates a session's commands for the entries that exist now;
\* nothing takes a `move [i]` command away when entries are removed.
cli_generate_commands(a) ==
    /\ stage[a] = "idle"
    /\ cmds' = [cmds EXCEPT ![a] = {<<i, Len(cfg)>> : i \in 0..(Len(cfg) - 1)}]
    /\ UNCHANGED <<cfg, dbList, file, stage, seen, stale, ops>>

op_move == {"OP_MOVE_AFTER", "OP_MOVE_BEFORE"}

Move(i, j, op) == [what |-> i, where |-> j, op |-> op]

\* The moves behind one `move [i]` command, 0-based (cli_generate_move_commands).
\* `down` and `bottom` ask the loaded list how long it is when they run
\* (cli_policy_move_cb).
MovesOf(i, len) ==
    {Move(i, j, op) : j \in (0..(len - 1)) \ {i}, op \in op_move}
    \cup {Move(i, j, "OP_MOVE_BEFORE") : j \in {k \in {i - 1, 0} : i > 0}}            \* up, top
    \cup {Move(i, j, "OP_MOVE_AFTER") :
            j \in {k \in {i + 1, Len(dbList) - 1} :                                   \* down, bottom
                        i < len - 1 /\ k < Len(dbList) /\ k >= 0}}

\* A negative index is refused.
Moves(a) == UNION {MovesOf(c[1], c[2]) : c \in {d \in cmds[a] : d[1] >= 0}}

\* move_policy empties the tree's list and copies the entries back, leaving out
\* entry `what` and putting it next to entry `where` when the copy reaches it.
move_policy(s, what, where, op) ==
    LET rest == RemoveAt(s, what + 1)
        after == op = "OP_MOVE_AFTER"
        pos  == IF where < what THEN where + 1 ELSE where
    IN  IF what >= Len(s)
        THEN IF where >= Len(s) THEN s
             ELSE Append(SubSeq(s, 1, IF after THEN where + 1 ELSE where), EmptyGroup)
        ELSE IF where >= Len(s) \/ where = what THEN rest
        ELSE InsertAt(rest, IF after THEN pos + 1 ELSE pos, s[what + 1])

\* Copying entry `what` throws when there is no such entry: move_policy
\* reports failure after it has already rewritten part of the list.
MoveThrows(s, what, where) == what >= Len(s) /\ where < Len(s)

\* cli_policy_move_cb, first critical section.
MovePolicy(a, m) ==
    /\ Starts(a)
    /\ cfg' = move_policy(cfg, m.what, m.where, m.op)
    /\ IF MoveThrows(cfg, m.what, m.where)
       THEN stale' = TRUE /\ UNCHANGED stage
       ELSE stage' = [stage EXCEPT ![a] = "moved"] /\ UNCHANGED stale
    /\ UNCHANGED <<dbList, file, cmds, seen>>

\* Mutant: the move forgets to clear the list.
MoveCleanup_mut(a) ==
    /\ stage[a] = "moved"
    /\ stage' = [stage EXCEPT ![a] = "cleaned"]
    /\ stale' = FALSE
    /\ UNCHANGED <<cfg, dbList, file, cmds, seen, ops>>

\* cli_policy_move_cb, second critical section: cleanup_db_policy.
MoveCleanup(a) ==
    /\ stage[a] = "moved"
    /\ dbList' = <<>>
    /\ stage' = [stage EXCEPT ![a] = "cleaned"]
    /\ stale' = FALSE
    /\ UNCHANGED <<cfg, file, cmds, seen, ops>>

\* Mutant: the move returns before loading the list.
MoveLoad_mut(a) ==
    /\ stage[a] = "cleaned"
    /\ stage' = [stage EXCEPT ![a] = "idle"]
    /\ UNCHANGED <<cfg, dbList, file, cmds, seen, stale, ops>>

\* cli_policy_move_cb, third critical section: load_db_policy.
MoveLoad(a) ==
    /\ stage[a] = "cleaned"
    /\ Whole(cfg)
    /\ dbList' = load_db_policy(dbList, cfg)
    /\ stage' = [stage EXCEPT ![a] = "idle"]
    /\ UNCHANGED <<cfg, file, cmds, seen, stale, ops>>

\* The same section when the tree holds an empty group.
MoveLoadThrows(a) ==
    /\ stage[a] = "cleaned"
    /\ ~Whole(cfg)
    /\ Restart
    /\ UNCHANGED ops

-----------------------------------------------------------------------------

\* load_config, first critical section: cfgapi_init reads the file.  A file
\* that cannot be opened leaves the tree alone, one that does not parse leaves
\* it empty; load_config carries on in both cases.
ReadFile(a, s) ==
    /\ Starts(a)
    /\ s \in {file, cfg, <<>>}
    /\ cfg' = s
    /\ stage' = [stage EXCEPT ![a] = "read"]
    /\ UNCHANGED <<dbList, file, cmds, seen, stale>>

\* Mutant: a reload loads the policy on top of the old one.
ApplyFile_mut(a) ==
    /\ stage[a] = "read"
    /\ dbList' = load_db_policy(dbList, cfg)
    /\ stale' = FALSE
    /\ stage' = [stage EXCEPT ![a] = "idle"]
    /\ UNCHANGED <<cfg, file, cmds, seen, ops>>

\* load_config, second critical section: cleanup and load everything.  An entry
\* that throws is caught here and ends the load.
ApplyFile(a) ==
    /\ stage[a] = "read"
    /\ Refresh(cfg)
    /\ stage' = [stage EXCEPT ![a] = "idle"]
    /\ UNCHANGED <<cfg, file, cmds, seen, ops>>

\* save_config writes the rules of the loaded list, not those of the tree;
\* writing may fail.
SaveConfig(a) ==
    /\ Starts(a)
    /\ file' \in {dbList, file}
    /\ UNCHANGED <<cfg, dbList, stage, cmds, seen, stale>>

Next ==
    \E a \in Admins :
        \/ AddPolicy(a)
        \/ ReadLength(a)
        \/ RegisterEntry(a)
        \/ \E i \in 1..Len(cfg), r \in Rules : SetPolicy(a, i, r)
        \/ \E i \in 1..Len(cfg) : RemovePolicy(a, i)
        \/ EditThrows(a)
        \/ cli_generate_commands(a)
        \/ \E m \in Moves(a) : MovePolicy(a, m)
        \/ MoveCleanup(a)
        \/ MoveLoad(a)
        \/ MoveLoadThrows(a)
        \/ \E s \in {file, cfg, <<>>} : ReadFile(a, s)
        \/ ApplyFile(a)
        \/ SaveConfig(a)

\* An operator that has started an operation finishes it.
Continues(a) ==
    \/ MoveCleanup(a) \/ MoveLoad(a) \/ MoveLoadThrows(a) \/ ApplyFile(a)
    \/ ReadLength(a) \/ RegisterEntry(a)

Fairness == \A a \in Admins : WF_vars(Continues(a))

Spec == Init /\ [][Next]_vars /\ Fairness
-----------------------------------------------------------------------------

\* Type invariant: the tree may hold an empty group, the loaded list and the
\* file never do.
TypeOK ==
    /\ cfg \in Seq(Entries)
    /\ dbList \in Seq(Rules)
    /\ file \in Seq(Rules)
    /\ stage \in [Admins -> Stages]
    /\ cmds \in [Admins -> SUBSET MoveCommands]
    /\ seen \in [Admins -> Nat]
    /\ stale \in BOOLEAN
    /\ ops \in 0..MaxOps

Busy(a) == stage[a] \in {"moved", "cleaned", "read"}

\* No operator is in the middle of a move or a reload.
Quiet == ~stale /\ \A a \in Admins : ~Busy(a)

\* However moves, edits and reloads of several operators interleave (the list
\* may even be loaded twice), once they are done every connection meets the
\* rule the configuration tree says it should meet.
QuietVerdicts ==
    Quiet => \A f \in Flows : Deciding(dbList, f) = Deciding(Loadable(cfg), f)

\* The inductive strengthening of QuietVerdicts: unless someone still has to
\* clear the list, it is empty with a load pending, or starts with one whole
\* copy of the configured policy and holds nothing else.
CopyOfConfig ==
    (~stale /\ \A a \in Admins : stage[a] \notin {"moved", "read"}) =>
        /\ \/ IsPrefix(Loadable(cfg), dbList)
           \/ dbList = <<>> /\ \E a \in Admins : stage[a] = "cleaned"
        /\ \A i \in 1..Len(dbList) : \E j \in 1..Len(Loadable(cfg)) : dbList[i] = Loadable(cfg)[j]

\* A policy list emptied by an operation in progress is filled again: traffic
\* is not left with the implicit deny for ever.
PolicyComesBack ==
    (dbList = <<>> /\ Loadable(cfg) # <<>>) ~> (dbList # <<>> \/ Loadable(cfg) = <<>>)

\* The detailed database as a PolicyService.
Service == INSTANCE PolicyService WITH
    decides <- [f \in Flows |-> Deciding(dbList, f)],
    intended <- [f \in Flows |-> Deciding(Loadable(cfg), f)],
    settled <- Quiet

\* The database implements PolicyService: in all the interleavings of moves,
\* reloads, edits and restarts no connection meets a rule that is neither the
\* one it met before nor the one configured now (which loading a list on top of
\* another one could bring about), and none is left without its rule for ever.
ServiceImplemented == Service!Spec
=============================================================================
