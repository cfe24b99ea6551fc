------------------------------ MODULE Migrations ------------------------------
(***************************************************************************)
(* Opening a state root: the schema is created, migrated version by        *)
(* version, each behind a backup of its own, or only validated.  Several   *)
(* processes may open one root, any of them may die between two steps, and *)
(* an older release may write to it between two attempts to upgrade it.    *)
(*                                                                         *)
(* The connection is in autocommit mode: each statement of the SCHEMA      *)
(* script is a step, a migration is one BEGIN IMMEDIATE transaction, and   *)
(* so is every file operation of the backup that precedes it.  A schema    *)
(* object stands for the tables and indexes one statement or migration     *)
(* adds; what Tasks, Board and News hold is the number of facts.           *)
(***************************************************************************)
EXTENDS Naturals, Sequences, FiniteSets

CONSTANTS
  Opener,       \* processes of the current release that open the root
  Start,        \* the versions the root may be at; 0: there is no root yet
  MaxFacts,     \* bound: facts an older release adds
  MaxFaults     \* bound: deaths, and transactions that fail

SCHEMA_VERSION == 8

ASSUME MigrationsAssumption ==
  /\ Start \subseteq 0..SCHEMA_VERSION
  /\ MaxFacts \in Nat /\ MaxFaults \in Nat

VARIABLES
  db,           \* the Journal: its schema objects, version, history and facts
  backups,      \* backups[v]: the file pre-schema-v, or {}
  archives,     \* archives[v]: its superseded predecessors, by digest
  opener,       \* opener[o]: where the opening of the root stands
  faults,       \* the number of faults so far
  past          \* what the properties remember: the first version, whether two
                \* openings overlapped, what was installed, what each transition saw

vars == <<db, backups, archives, opener, faults, past>>

Version == 1..SCHEMA_VERSION

\* What the migration to v adds.
Adds(v) == CASE v = 2 -> {"schema_migrations"}
             [] v = 3 -> {"object_validation"}
             [] v = 4 -> {"event_object_refs", "start_sequence"}
             [] v = 5 -> {"task_extension_state"}
             [] v = 6 -> {"board_messages"}
             [] v = 7 -> {"validation_timing"}
             [] v = 8 -> {"news"}
             [] OTHER -> {"host_metadata", "version", "core", "unowned"}
\* A root of version v as its own release left it.
Released(v) == ((UNION {Adds(n) : n \in 1..v}) \cup (IF v >= 7 THEN {"timing_index"} ELSE {}))
                 \ (IF v >= 2 THEN {"unowned"} ELSE {})
Canonical == Released(SCHEMA_VERSION)

\* The statements of SCHEMA, each IF NOT EXISTS or OR IGNORE, in their order.
SCHEMA == << {"host_metadata"}, {"version"}, {"start_sequence"},
             {"schema_migrations"}, {"core", "validation_timing"}, {"timing_index"},
             {"object_validation"}, {"event_object_refs"},
             {"task_extension_state"}, {"board_messages"}, {"news"} >>

\* A database as a backup holds it, which is also what its digest tells apart.
Snapshot(d) == [version |-> d.version, facts |-> d.facts]
NoSnapshot == [version |-> 0, facts |-> 0]

-----------------------------------------------------------------------------
\* initialize_schema()

Closed == [pc |-> "closed", migrated |-> FALSE, at |-> 0, statement |-> 0,
           temporary |-> NoSnapshot, seen |-> NoSnapshot, found |-> FALSE]
At(o, pc) == opener[o].pc = pc
Become(o, s) == opener' = [opener EXCEPT ![o] = s]
Goto(o, pc) == Become(o, [opener[o] EXCEPT !.pc = pc])
Fail(o) == Become(o, Closed)
Files == <<backups, archives>>
Target(o) == opener[o].at + 1
Busy(o) == ~At(o, "closed") /\ ~At(o, "open")

Open(o) ==
  /\ At(o, "closed")
  /\ Become(o, [Closed EXCEPT !.pc = "metadata"])
  /\ past' = [past EXCEPT !.overlapped = @ \/ \E p \in Opener \ {o} : Busy(p)]
  /\ UNCHANGED <<db, backups, archives, faults>>

Close(o) == At(o, "open") /\ Fail(o) /\ UNCHANGED <<db, Files, faults, past>>

FindMetadata(o) ==
  /\ At(o, "metadata")
  /\ IF "host_metadata" \in db.shape THEN Goto(o, "version")
     ELSE IF db.shape # {} THEN Fail(o)
     ELSE Become(o, [opener[o] EXCEPT !.pc = "script", !.statement = 1])
  /\ UNCHANGED <<db, Files, faults, past>>

\* Roots whose content forbids a migration: populated tables of version 1 that
\* nobody owns, extension events of version 4.
ReadVersion(o) ==
  LET s == opener[o] IN
  /\ At(o, "version")
  /\ IF "version" \notin db.shape \/ db.version = db.refuses THEN Fail(o)
     ELSE IF db.version < SCHEMA_VERSION
       THEN Become(o, [s EXCEPT !.pc = "snapshot", !.at = db.version])
     ELSE IF s.migrated
       THEN Become(o, [s EXCEPT !.pc = "script", !.statement = 1, !.at = 0])
     ELSE Goto(o, "validate")
  /\ UNCHANGED <<db, Files, faults, past>>

\* One statement: it creates what is missing, and the version row with it.
RunStatement(o) ==
  LET s == opener[o]
      last == s.statement = Len(SCHEMA)
  IN  /\ At(o, "script")
      /\ db' = [db EXCEPT !.shape = @ \cup SCHEMA[s.statement],
                  !.version = IF s.statement = 2 /\ "version" \notin db.shape
                              THEN SCHEMA_VERSION ELSE @]
      /\ Become(o, [s EXCEPT !.pc = IF last THEN "validate" ELSE "script",
                             !.statement = IF last THEN 0 ELSE @ + 1])
      /\ UNCHANGED <<Files, faults, past>>

\* _validated_migration_start_version(): no history, or one without a gap.
HistoryIsValid(h) ==
  h = <<>> \/ h = [k \in 1..Len(h) |-> SCHEMA_VERSION - Len(h) + k]

\* A check of the version only.
ValidateVersion(o) ==
  /\ At(o, "validate")
  /\ IF db.version = SCHEMA_VERSION THEN Goto(o, "open") ELSE Fail(o)
  /\ UNCHANGED <<db, Files, faults, past>>

\* _validate_current_schema(), and the assertion that migration converged.
Validate(o) ==
  /\ At(o, "validate")
  /\ IF /\ db.shape = Canonical /\ HistoryIsValid(db.history)
        /\ db.version = SCHEMA_VERSION
     THEN Become(o, [Closed EXCEPT !.pc = "open"]) ELSE Fail(o)
  /\ UNCHANGED <<db, Files, faults, past>>

-----------------------------------------------------------------------------
\* _ensure_backup(), before the migration from s.at to the version after it.

WriteBackup(o) ==
  LET s == opener[o] IN
  /\ At(o, "snapshot")
  /\ IF db.version = s.at
     THEN Become(o, [s EXCEPT !.pc = "compare", !.temporary = Snapshot(db)])
     ELSE Fail(o)
  /\ UNCHANGED <<db, Files, faults, past>>

\* A backup that is good enough because it is of the right version.
CompareVersion(o) ==
  /\ At(o, "compare")
  /\ Goto(o, IF backups[Target(o)] # {} THEN "migrate" ELSE "install")
  /\ UNCHANGED <<db, Files, faults, past>>

\* A backup that differs and is overwritten.
CompareAndReplace(o) ==
  /\ At(o, "compare")
  /\ Goto(o, IF backups[Target(o)] = {opener[o].temporary} THEN "migrate" ELSE "install")
  /\ UNCHANGED <<db, Files, faults, past>>

\* A backup that differs and stops the migration.
CompareAndRefuse(o) ==
  /\ At(o, "compare")
  /\ IF backups[Target(o)] = {} THEN Goto(o, "install")
     ELSE IF backups[Target(o)] = {opener[o].temporary} THEN Goto(o, "migrate")
     ELSE Fail(o)
  /\ UNCHANGED <<db, Files, faults, past>>

\* The file at the canonical path is validated and hashed.
CompareBackup(o) ==
  LET s == opener[o] IN
  /\ At(o, "compare")
  /\ \/ backups[Target(o)] = {} /\ Goto(o, "install")
     \/ \E b \in backups[Target(o)] :
          IF b.version # s.at THEN Fail(o)
          ELSE IF b = s.temporary THEN Goto(o, "migrate")
          ELSE Become(o, [s EXCEPT !.pc = "archive", !.seen = b])
  /\ UNCHANGED <<db, Files, faults, past>>

FindArchive(o) ==
  LET s == opener[o]
      same == {a \in archives[Target(o)] : a.digest = s.seen}
  IN  /\ At(o, "archive")
      /\ IF \E a \in same : a.file # s.seen THEN Fail(o)
         ELSE Become(o, [s EXCEPT !.pc = "aside", !.found = same # {}])
      /\ UNCHANGED <<db, Files, faults, past>>

\* Unlink or rename, whatever lies at the canonical path by now.
MoveAside(o) ==
  LET s == opener[o]
      v == Target(o)
      others == {a \in archives[v] : a.digest # s.seen}
  IN  /\ At(o, "aside")
      /\ \/ backups[v] = {} /\ Fail(o) /\ UNCHANGED Files
         \/ \E b \in backups[v] :
              /\ Become(o, [s EXCEPT !.pc = "install", !.seen = NoSnapshot,
                                     !.found = FALSE])
              /\ backups' = [backups EXCEPT ![v] = {}]
              /\ archives' = IF s.found THEN archives
                             ELSE [archives EXCEPT
                                     ![v] = others \cup {[digest |-> s.seen, file |-> b]}]
      /\ UNCHANGED <<db, faults, past>>

InstallBackup(o) ==
  LET s == opener[o]
      v == Target(o)
  IN  /\ At(o, "install")
      /\ backups' = [backups EXCEPT ![v] = {s.temporary}]
      /\ past' = [past EXCEPT !.installed = @ \cup {<<v, s.temporary>>}]
      /\ Goto(o, "migrate")
      /\ UNCHANGED <<db, archives, faults>>

\* _migrate_v<n>_to_v<n+1>(): one transaction.
Transition(o) ==
  LET s == opener[o]
      v == Target(o)
  IN  /\ db' = [db EXCEPT !.version = v, !.history = Append(@, v),
                          !.shape = (@ \cup Adds(v)) \ {"unowned"}]
      /\ past' = [past EXCEPT !.before = [@ EXCEPT ![v] = {Snapshot(db)}]]
      /\ Become(o, [Closed EXCEPT !.pc = "version", !.migrated = TRUE])

\* A transaction that does not look which version it finds.
MigrateUnchecked(o) ==
  /\ At(o, "migrate")
  /\ Transition(o)
  /\ UNCHANGED <<Files, faults>>

\* _advance_version() finds the version the backup was taken at, or all of it is
\* rolled back.
Migrate(o) ==
  /\ At(o, "migrate")
  /\ \/ db.version = opener[o].at /\ Transition(o)
     \/ db.version # opener[o].at /\ Fail(o) /\ UNCHANGED <<db, past>>
  /\ UNCHANGED <<Files, faults>>

\* The process dies, or its transaction fails.
Die(o) ==
  /\ Busy(o) /\ faults < MaxFaults
  /\ Fail(o)
  /\ faults' = faults + 1
  /\ UNCHANGED <<db, Files, past>>

-----------------------------------------------------------------------------
\* An older release goes on with the root it knows, while nothing upgrades it:
\* its service is stopped for that (scripts/ordivon-host-deploy).
WriteFact ==
  /\ \A o \in Opener : ~Busy(o)
  /\ db.version \in 1..(SCHEMA_VERSION - 1) /\ db.facts < MaxFacts
  /\ db' = [db EXCEPT !.facts = @ + 1]
  /\ UNCHANGED <<Files, opener, faults, past>>

Root(v, refuses) ==
  [shape |-> IF v = 0 THEN {} ELSE Released(v), version |-> v, history |-> <<>>,
   facts |-> 0, refuses |-> refuses]

Init ==
  /\ \E v \in Start : \E refuses \in {SCHEMA_VERSION + 1} \cup ({1, 4} \cap {v}) :
       /\ db = Root(v, refuses)
       /\ past = [start |-> v, overlapped |-> FALSE, installed |-> {},
                  before |-> [n \in Version |-> {}]]
  /\ backups = [v \in Version |-> {}]
  /\ archives = [v \in Version |-> {}]
  /\ opener = [o \in Opener |-> Closed]
  /\ faults = 0

Opening(o) ==
  \/ Open(o) \/ Close(o) \/ FindMetadata(o) \/ ReadVersion(o)
  \/ RunStatement(o) \/ Validate(o)
  \/ WriteBackup(o) \/ CompareBackup(o) \/ FindArchive(o) \/ MoveAside(o)
  \/ InstallBackup(o) \/ Migrate(o)

Next == (\E o \in Opener : Opening(o) \/ Die(o)) \/ WriteFact

\* A service is started again and again, and its calls do not hang.
Fairness == \A o \in Opener : WF_vars(Opening(o))

Spec == Init /\ [][Next]_vars /\ Fairness

-----------------------------------------------------------------------------
\* A migrated root is at the version its history leads to, step by step from the
\* version it started at, and has what those migrations add, however many
\* processes migrate it and wherever they die (migrations.py _advance_version).
HistoryLeadsToVersion ==
  past.start > 0 =>
    /\ db.history = [k \in 1..(db.version - past.start) |-> past.start + k]
    /\ UNION {Adds(v) : v \in 2..db.version} \subseteq db.shape

\* Whoever gets to use the root finds the whole current schema and a history
\* without a gap, also when another process was still creating or migrating it
\* (OPERATIONS.md: "complete owner table/index/trigger/view set").
OpenMeansCurrent ==
  \A o \in Opener : At(o, "open") =>
    db.version = SCHEMA_VERSION /\ db.shape = Canonical /\ HistoryIsValid(db.history)

\* As long as no two openings overlapped, the canonical backup of every recorded
\* transition is the root as that transition found it, whatever an interrupted
\* attempt left there before (OPERATIONS.md: "the rollback source for the current
\* attempt").
RollbackSourceIsExact ==
  ~past.overlapped =>
    \A v \in 2..SCHEMA_VERSION : past.before[v] # {} => backups[v] = past.before[v]

\* And no backup that was ever installed is lost: it is still there or archived
\* under its digest (OPERATIONS.md: "preserves prior evidence").
EvidenceIsPreserved ==
  ~past.overlapped =>
    \A i \in past.installed :
      \/ backups[i[1]] = {i[2]}
      \/ [digest |-> i[2], file |-> i[2]] \in archives[i[1]]

\* An upgrade that is attempted again and again gets to the current version,
\* although openings compete and some of them die: none leaves a backup, a
\* transition or a version behind that stops the next one.
UpgradeAdvances ==
  past.start > 0 /\ db.refuses > SCHEMA_VERSION ~> db.version = SCHEMA_VERSION

\* What is promised of a root at the current version while nobody is opening it:
\* that it is complete (OPERATIONS.md: "An already-current Journal ... must match
\* the canonical current shape").  Does not hold after a death between the last
\* migration and the SCHEMA script.
CurrentMeansComplete ==
  (\A o \in Opener : ~Busy(o)) /\ db.version = SCHEMA_VERSION => db.shape = Canonical
=============================================================================
