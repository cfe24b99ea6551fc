--------------------------- MODULE Migrations_proofs ---------------------------
(***************************************************************************)
(* Why the history of a root leads to its version, why whoever uses it     *)
(* finds the whole current schema, and why the rollback source of every    *)
(* transition is exact and no installed backup is lost, for any number of  *)
(* processes, deaths and facts.                                            *)
(***************************************************************************)
EXTENDS Migrations, SequenceTheorems, TLAPS

SchemaObject == {"host_metadata", "version", "core", "unowned", "schema_migrations",
                 "object_validation", "event_object_refs", "start_sequence",
                 "task_extension_state", "board_messages", "validation_timing",
                 "timing_index", "news"}
SnapshotRecord == [version: 0..SCHEMA_VERSION, facts: Nat]
Database == [shape: SUBSET SchemaObject, version: 0..SCHEMA_VERSION, history: Seq(Nat),
             facts: Nat, refuses: Nat]
ArchiveRecord == [digest: SnapshotRecord, file: SnapshotRecord]
Upgrading == {"snapshot", "compare", "archive", "aside", "install", "migrate"}
OpenerPc == Upgrading \cup {"closed", "open", "metadata", "version", "script", "validate"}
OpenerRecord ==
  [pc: OpenerPc, migrated: BOOLEAN, at: 0..SCHEMA_VERSION - 1, statement: 0..Len(SCHEMA),
   temporary: SnapshotRecord, seen: SnapshotRecord, found: BOOLEAN]
PastRecord ==
  [start: 0..SCHEMA_VERSION, overlapped: BOOLEAN,
   installed: SUBSET (Version \X SnapshotRecord),
   before: [Version -> SUBSET SnapshotRecord]]

TypeOK ==
  /\ db \in Database
  /\ backups \in [Version -> SUBSET SnapshotRecord]
  /\ archives \in [Version -> SUBSET ArchiveRecord]
  /\ opener \in [Opener -> OpenerRecord]
  /\ past \in PastRecord
  /\ \A o \in Opener :
       /\ opener[o].pc \in Upgrading => opener[o].at # 0
       /\ At(o, "script") => opener[o].statement # 0

\* A path holds one file.
OneFile == \A v \in Version : \A b \in backups[v] : backups[v] = {b}

\* The version row is there exactly when the root has a version, and a root that
\* was there before has had it from the start.
Versioned ==
  /\ "version" \in db.shape <=> db.version # 0
  /\ past.start > 0 => past.start <= db.version

\* A version that has been left was reached by a transition.
Reached == \A v \in Version : past.before[v] # {} => v <= db.version

\* Without an overlap one opening at most is on its way.
Alone == ~past.overlapped => \A o, p \in Opener : Busy(o) /\ Busy(p) => o = p

\* What an opening that is alone knows of the root and of the files.
Prepared(o) ==
  LET s == opener[o]
      v == Target(o)
  IN  /\ s.pc \in Upgrading \ {"snapshot"} => db.version = s.at
      /\ s.pc \in Upgrading \ {"snapshot", "migrate"} => s.temporary = Snapshot(db)
      /\ s.pc \in {"archive", "aside"} => backups[v] = {s.seen}
      /\ s.pc = "aside" /\ s.found => [digest |-> s.seen, file |-> s.seen] \in archives[v]
      /\ s.pc = "install" => backups[v] = {}
      /\ s.pc = "migrate" => backups[v] = {Snapshot(db)}
Undisturbed == ~past.overlapped => \A o \in Opener : Prepared(o)

IInv == /\ TypeOK /\ OneFile /\ Versioned /\ Reached /\ Alone /\ Undisturbed
        /\ HistoryLeadsToVersion /\ OpenMeansCurrent
        /\ RollbackSourceIsExact /\ EvidenceIsPreserved

-----------------------------------------------------------------------------
\* The schema

LEMMA AddsEach ==
  /\ Adds(1) = {"host_metadata", "version", "core", "unowned"}
  /\ Adds(2) = {"schema_migrations"} /\ Adds(3) = {"object_validation"}
  /\ Adds(4) = {"event_object_refs", "start_sequence"}
  /\ Adds(5) = {"task_extension_state"} /\ Adds(6) = {"board_messages"}
  /\ Adds(7) = {"validation_timing"} /\ Adds(8) = {"news"}
  BY DEF Adds

LEMMA AddsFacts ==
  \A v \in 1..8 : /\ Adds(v) \subseteq SchemaObject
                  /\ v # 1 => "unowned" \notin Adds(v) /\ "version" \notin Adds(v)
                  /\ v = 1 => {"host_metadata", "version"} \subseteq Adds(v)
  <1> SUFFICES ASSUME NEW v \in 1..8
      PROVE  /\ Adds(v) \subseteq SchemaObject
             /\ v # 1 => "unowned" \notin Adds(v) /\ "version" \notin Adds(v)
             /\ v = 1 => {"host_metadata", "version"} \subseteq Adds(v)
    OBVIOUS
  <1>1. CASE v = 1 BY <1>1, AddsEach DEF SchemaObject
  <1>2. CASE v = 2 BY <1>2, AddsEach DEF SchemaObject
  <1>3. CASE v = 3 BY <1>3, AddsEach DEF SchemaObject
  <1>4. CASE v = 4 BY <1>4, AddsEach DEF SchemaObject
  <1>5. CASE v = 5 BY <1>5, AddsEach DEF SchemaObject
  <1>6. CASE v = 6 BY <1>6, AddsEach DEF SchemaObject
  <1>7. CASE v = 7 BY <1>7, AddsEach DEF SchemaObject
  <1>8. CASE v = 8 BY <1>8, AddsEach DEF SchemaObject
  <1> QED BY <1>1, <1>2, <1>3, <1>4, <1>5, <1>6, <1>7, <1>8

LEMMA ReleasedFacts ==
  \A v \in 1..8 :
    /\ Released(v) \subseteq SchemaObject
    /\ {"host_metadata", "version"} \subseteq Released(v)
    /\ UNION {Adds(u) : u \in 2..v} \subseteq Released(v)
  <1> SUFFICES ASSUME NEW v \in 1..8
      PROVE  /\ Released(v) \subseteq SchemaObject
             /\ {"host_metadata", "version"} \subseteq Released(v)
             /\ UNION {Adds(u) : u \in 2..v} \subseteq Released(v)
    OBVIOUS
  <1>1. \A u \in 1..v : u \in 1..8 OBVIOUS
  <1>2. Released(v) \subseteq SchemaObject
    <2>1. UNION {Adds(n) : n \in 1..v} \subseteq SchemaObject BY <1>1, AddsFacts
    <2>2. "timing_index" \in SchemaObject BY DEF SchemaObject
    <2> QED BY <2>1, <2>2 DEF Released
  <1>3. Adds(1) \subseteq UNION {Adds(u) : u \in 1..v} OBVIOUS
  <1>4. {"host_metadata", "version"} \subseteq Released(v)
    BY <1>3, AddsFacts DEF Released
  <1>5. ASSUME NEW x \in UNION {Adds(u) : u \in 2..v} PROVE x \in Released(v)
    <2>1. PICK u \in 2..v : x \in Adds(u) BY <1>5
    <2>2. x # "unowned" /\ u \in 1..v BY <1>1, <2>1, AddsFacts
    <2> QED BY <2>1, <2>2 DEF Released
  <1> QED BY <1>2, <1>4, <1>5

LEMMA SchemaFacts ==
  /\ Len(SCHEMA) = 11
  /\ \A i \in 1..11 : SCHEMA[i] \subseteq Canonical /\ SCHEMA[i] \subseteq SchemaObject
  /\ \A i \in 1..11 : "version" \in SCHEMA[i] <=> i = 2
  <1>1. Len(SCHEMA) = 11 BY DEF SCHEMA
  <1>2. ASSUME NEW i \in 1..11
        PROVE  /\ SCHEMA[i] \subseteq Canonical
               /\ SCHEMA[i] \subseteq SchemaObject
               /\ "version" \in SCHEMA[i] <=> i = 2
    <2>2. \A n \in 1..8 : Adds(n) \subseteq UNION {Adds(m) : m \in 1..8} OBVIOUS
    <2>3. /\ {"host_metadata", "version", "core"} \subseteq Canonical
          /\ {"schema_migrations", "object_validation", "event_object_refs",
              "start_sequence"} \subseteq Canonical
          /\ {"task_extension_state", "board_messages", "validation_timing", "news",
              "timing_index"} \subseteq Canonical
      <3>1. Canonical = ((UNION {Adds(m) : m \in 1..8}) \cup {"timing_index"}) \ {"unowned"}
        BY DEF Canonical, Released, SCHEMA_VERSION
      <3>2. /\ Adds(1) \ {"unowned"} \subseteq Canonical /\ "timing_index" \in Canonical
            /\ \A m \in 2..8 : Adds(m) \subseteq Canonical
        BY <3>1, <2>2, AddsFacts
      <3> QED BY <3>2, AddsEach
    <2>4. CASE i \in 1..4 BY <2>3, <2>4 DEF SCHEMA, SchemaObject
    <2>5. CASE i \in 5..8 BY <2>3, <2>5 DEF SCHEMA, SchemaObject
    <2>6. CASE i \in 9..11 BY <2>3, <2>6 DEF SCHEMA, SchemaObject
    <2> QED BY <2>4, <2>5, <2>6
  <1> QED BY <1>1, <1>2

LEMMA ClosedType == Closed \in OpenerRecord /\ NoSnapshot \in SnapshotRecord
  BY SchemaFacts
  DEF Closed, NoSnapshot, OpenerRecord, SnapshotRecord, OpenerPc, Upgrading, SCHEMA_VERSION

-----------------------------------------------------------------------------
\* The invariant holds before the first step.
THEOREM InitInv == Init => IInv
  <1> SUFFICES ASSUME Init PROVE IInv OBVIOUS
  <1>1. PICK v \in Start : \E refuses \in {SCHEMA_VERSION + 1} \cup ({1, 4} \cap {v}) :
          /\ db = Root(v, refuses)
          /\ past = [start |-> v, overlapped |-> FALSE, installed |-> {},
                     before |-> [n \in Version |-> {}]]
    BY DEF Init
  <1>2. PICK refuses \in {SCHEMA_VERSION + 1} \cup ({1, 4} \cap {v}) : db = Root(v, refuses)
    BY <1>1
  <1>3. v \in 0..8 /\ refuses \in Nat
    BY <1>2, MigrationsAssumption DEF SCHEMA_VERSION
  <1>4. /\ db.shape = IF v = 0 THEN {} ELSE Released(v)
        /\ db.version = v /\ db.history = <<>> /\ db.facts = 0
    BY <1>2 DEF Root
  <1>5. \A o \in Opener : opener[o] = Closed BY DEF Init
  <1>6. /\ past.start = v /\ past.overlapped = FALSE /\ past.installed = {}
        /\ past.before = [n \in Version |-> {}]
    BY <1>1
  <1>7. TypeOK
    <2>1. db \in Database
      <3>1. db.shape \subseteq SchemaObject BY <1>3, <1>4, ReleasedFacts
      <3> QED BY <1>2, <1>3, <1>4, <3>1 DEF Database, Root, SCHEMA_VERSION
    <2>2. past \in PastRecord BY <1>1, <1>3 DEF PastRecord, SCHEMA_VERSION
    <2>3. opener \in [Opener -> OpenerRecord] BY ClosedType DEF Init
    <2>4. \A o \in Opener : opener[o].pc = "closed" BY <1>5 DEF Closed
    <2> QED BY <2>1, <2>2, <2>3, <2>4 DEF TypeOK, Init, At, Upgrading
  <1>8. \A o \in Opener : ~Busy(o) /\ ~At(o, "open") /\ opener[o].pc = "closed"
    BY <1>5 DEF Busy, At, Closed
  <1>9. Versioned
    BY <1>3, <1>4, <1>6, ReleasedFacts DEF Versioned
  <1>10. HistoryLeadsToVersion
    <2>1. CASE v = 0 BY <1>6, <2>1 DEF HistoryLeadsToVersion
    <2>2. CASE v # 0
      <3>1. db.shape = Released(v) /\ v \in 1..8 BY <1>3, <1>4, <2>2
      <3>2. [k \in 1..(db.version - past.start) |-> past.start + k] = <<>>
        BY <1>3, <1>4, <1>6
      <3> QED BY <1>4, <3>1, <3>2, ReleasedFacts DEF HistoryLeadsToVersion
    <2> QED BY <2>1, <2>2
  <1>11. OneFile /\ Reached /\ Alone /\ OpenMeansCurrent
    BY <1>6, <1>8 DEF Init, OneFile, Reached, Alone, OpenMeansCurrent
  <1>12. Undisturbed BY <1>8 DEF Undisturbed, Prepared, Upgrading
  <1>13. RollbackSourceIsExact /\ EvidenceIsPreserved
    BY <1>6 DEF RollbackSourceIsExact, EvidenceIsPreserved, Version, SCHEMA_VERSION
  <1> QED BY <1>7, <1>9, <1>10, <1>11, <1>12, <1>13 DEF IInv

-----------------------------------------------------------------------------
\* Steps of one opening

LEMMA BecomeFacts ==
  ASSUME TypeOK, NEW o \in Opener, NEW s \in OpenerRecord, Become(o, s)
  PROVE  /\ opener' \in [Opener -> OpenerRecord]
         /\ opener'[o] = s
         /\ \A p \in Opener : p # o => opener'[p] = opener[p]
  BY DEF TypeOK, Become

LEMMA SessionType ==
  ASSUME TypeOK, NEW o \in Opener
  PROVE  /\ opener[o] \in OpenerRecord
         /\ opener[o].pc \in Upgrading => Target(o) \in 2..SCHEMA_VERSION
  <1>1. opener[o] \in OpenerRecord BY DEF TypeOK
  <1>2. opener[o].pc \in Upgrading => opener[o].at # 0 BY DEF TypeOK
  <1>3. opener[o].at \in 0..7 BY <1>1 DEF OpenerRecord, SCHEMA_VERSION
  <1> QED BY <1>1, <1>2, <1>3 DEF Target, SCHEMA_VERSION

\* A step that only moves one opening on.
LEMMA LocalStep ==
  ASSUME IInv, NEW o \in Opener, NEW s \in OpenerRecord, Become(o, s),
         UNCHANGED <<db, backups, archives, past>>,
         s.pc \in {"closed", "open"} \/ Busy(o),
         s.pc \in Upgrading => s.at # 0,
         s.pc = "script" => s.statement # 0,
         s.pc = "open" =>
           db.version = SCHEMA_VERSION /\ db.shape = Canonical /\ HistoryIsValid(db.history),
         ~past.overlapped => Prepared(o)'
  PROVE  IInv'
  <1>1. /\ opener' \in [Opener -> OpenerRecord] /\ opener'[o] = s
        /\ \A p \in Opener : p # o => opener'[p] = opener[p]
    BY BecomeFacts DEF IInv
  <1>2. TypeOK' BY <1>1 DEF IInv, TypeOK, At
  <1>3. OneFile' /\ Versioned' /\ Reached' /\ HistoryLeadsToVersion'
          /\ RollbackSourceIsExact' /\ EvidenceIsPreserved'
    BY DEF IInv, OneFile, Versioned, Reached, HistoryLeadsToVersion,
           RollbackSourceIsExact, EvidenceIsPreserved
  <1>4. \A p \in Opener : Busy(p)' => Busy(p) BY <1>1 DEF Busy, At
  <1>5. Alone' BY <1>4 DEF IInv, Alone
  <1>6. ASSUME NEW p \in Opener, p # o PROVE Prepared(p)' <=> Prepared(p)
    BY <1>1, <1>6 DEF Prepared, Target, Snapshot
  <1>7. Undisturbed' BY <1>6 DEF IInv, Undisturbed
  <1>8. OpenMeansCurrent' BY <1>1 DEF IInv, OpenMeansCurrent, At
  <1> QED BY <1>2, <1>3, <1>5, <1>7, <1>8 DEF IInv

\* An opening that gives up, or has nothing more to do.
LEMMA EndStep ==
  ASSUME IInv, NEW o \in Opener, Fail(o), UNCHANGED <<db, backups, archives, past>>
  PROVE  IInv'
  <1>1. opener'[o] = Closed BY ClosedType, BecomeFacts DEF IInv, Fail
  <1>2. Closed.pc = "closed" BY DEF Closed
  <1>3. Prepared(o)' BY <1>1, <1>2 DEF Prepared, Upgrading
  <1> QED BY <1>2, <1>3, ClosedType, LocalStep DEF Fail, Upgrading

\* One that goes on without a fact about the root.
LEMMA UncommittedStep ==
  ASSUME IInv, NEW o \in Opener, NEW s \in OpenerRecord, Become(o, s),
         UNCHANGED <<db, backups, archives, past>>, Busy(o),
         s.pc \in {"metadata", "version", "script", "validate", "snapshot"},
         s.pc = "snapshot" => s.at # 0,
         s.pc = "script" => s.statement # 0
  PROVE  IInv'
  <1>1. opener'[o] = s BY BecomeFacts DEF IInv
  <1>2. Prepared(o)' BY <1>1 DEF Prepared, Upgrading
  <1> QED BY <1>2, LocalStep DEF Upgrading

LEMMA OpenInv == ASSUME IInv, NEW o \in Opener, Open(o) PROVE IInv'
  <1> DEFINE s == [Closed EXCEPT !.pc = "metadata"]
  <1>1. s \in OpenerRecord /\ s.pc = "metadata"
    BY ClosedType DEF OpenerRecord, OpenerPc, Closed
  <1> HIDE DEF s
  <1>2. Become(o, s) /\ At(o, "closed") BY DEF Open, s
  <1>3. /\ opener' \in [Opener -> OpenerRecord] /\ opener'[o] = s
        /\ \A p \in Opener : p # o => opener'[p] = opener[p]
    BY <1>1, <1>2, BecomeFacts DEF IInv
  <1>4. UNCHANGED <<db, backups, archives>> BY DEF Open
  <1>5. /\ past' \in PastRecord /\ past'.start = past.start
        /\ past'.installed = past.installed /\ past'.before = past.before
        /\ ~past'.overlapped => ~past.overlapped /\ \A p \in Opener \ {o} : ~Busy(p)
    <2>1. past' = [past EXCEPT !.overlapped = @ \/ \E p \in Opener \ {o} : Busy(p)]
      BY DEF Open
    <2>2. past \in PastRecord BY DEF IInv, TypeOK
    <2>3. past'.overlapped = (past.overlapped \/ \E p \in Opener \ {o} : Busy(p))
      BY <2>1, <2>2 DEF PastRecord
    <2>4. past'.overlapped \in BOOLEAN BY <2>2, <2>3 DEF PastRecord
    <2>5. past' \in PastRecord BY <2>1, <2>2, <2>4 DEF PastRecord
    <2> QED BY <2>1, <2>2, <2>3, <2>5 DEF PastRecord
  <1>6. TypeOK'
    <2>1. \A p \in Opener : p = o \/ opener'[p] = opener[p] BY <1>3
    <2> QED BY <1>1, <1>3, <1>4, <1>5, <2>1 DEF IInv, TypeOK, At, Upgrading
  <1>7. OneFile' /\ Versioned' /\ Reached' /\ HistoryLeadsToVersion'
          /\ RollbackSourceIsExact' /\ EvidenceIsPreserved'
    BY <1>4, <1>5 DEF IInv, OneFile, Versioned, Reached, HistoryLeadsToVersion,
           RollbackSourceIsExact, EvidenceIsPreserved
  <1>8. Alone' BY <1>3, <1>5 DEF Alone, Busy, At
  <1>9. Undisturbed'
    <2>1. Prepared(o)' BY <1>1, <1>3 DEF Prepared, Upgrading
    <2>2. ASSUME NEW p \in Opener, p # o PROVE Prepared(p)' <=> Prepared(p)
      BY <1>3, <1>4, <2>2 DEF Prepared, Target, Snapshot
    <2> QED BY <1>5, <2>1, <2>2 DEF IInv, Undisturbed
  <1>10. OpenMeansCurrent' BY <1>1, <1>3, <1>4 DEF IInv, OpenMeansCurrent, At
  <1> QED BY <1>6, <1>7, <1>8, <1>9, <1>10 DEF IInv

LEMMA FindMetadataInv == ASSUME IInv, NEW o \in Opener, FindMetadata(o) PROVE IInv'
  <1>1. /\ At(o, "metadata") /\ Busy(o) /\ UNCHANGED <<db, backups, archives, past>>
        /\ opener[o] \in OpenerRecord
    BY DEF FindMetadata, Busy, At, Files, IInv, TypeOK
  <1>2. CASE Goto(o, "version")
    <2> DEFINE s == [opener[o] EXCEPT !.pc = "version"]
    <2>1. s \in OpenerRecord /\ s.pc = "version" BY <1>1 DEF OpenerRecord, OpenerPc
    <2>2. Become(o, s) BY <1>2 DEF Goto
    <2> HIDE DEF s
    <2> QED BY <1>1, <2>1, <2>2, UncommittedStep
  <1>3. CASE Become(o, [opener[o] EXCEPT !.pc = "script", !.statement = 1])
    <2> DEFINE s == [opener[o] EXCEPT !.pc = "script", !.statement = 1]
    <2> 1 \in 0..Len(SCHEMA) BY SchemaFacts
    <2>1. s \in OpenerRecord /\ s.pc = "script" /\ s.statement = 1
      BY <1>1 DEF OpenerRecord, OpenerPc
    <2>2. Become(o, s) BY <1>3
    <2> HIDE DEF s
    <2> QED BY <1>1, <2>1, <2>2, UncommittedStep
  <1>4. CASE Fail(o) BY <1>1, <1>4, EndStep
  <1> QED BY <1>2, <1>3, <1>4 DEF FindMetadata

LEMMA ReadVersionInv == ASSUME IInv, NEW o \in Opener, ReadVersion(o) PROVE IInv'
  <1> DEFINE x == opener[o]
  <1>1. /\ Busy(o) /\ UNCHANGED <<db, backups, archives, past>>
        /\ x \in OpenerRecord /\ db.version \in 0..8
    BY DEF ReadVersion, Busy, At, Files, IInv, TypeOK, Database, SCHEMA_VERSION
  <1>2. CASE /\ "version" \in db.shape /\ db.version < SCHEMA_VERSION
             /\ Become(o, [x EXCEPT !.pc = "snapshot", !.at = db.version])
    <2> DEFINE s == [x EXCEPT !.pc = "snapshot", !.at = db.version]
    <2>1. db.version \in 1..7 BY <1>1, <1>2 DEF IInv, Versioned, SCHEMA_VERSION
    <2> db.version \in 0..SCHEMA_VERSION - 1 /\ db.version # 0
      BY <2>1 DEF SCHEMA_VERSION
    <2>2. s \in OpenerRecord /\ s.pc = "snapshot" /\ s.at # 0
      BY <1>1 DEF OpenerRecord, OpenerPc, Upgrading
    <2>3. Become(o, s) BY <1>2
    <2> HIDE DEF s
    <2> QED BY <1>1, <2>2, <2>3, UncommittedStep
  <1>3. CASE Become(o, [x EXCEPT !.pc = "script", !.statement = 1, !.at = 0])
    <2> DEFINE s == [x EXCEPT !.pc = "script", !.statement = 1, !.at = 0]
    <2> 1 \in 0..Len(SCHEMA) /\ 0 \in 0..SCHEMA_VERSION - 1
      BY SchemaFacts DEF SCHEMA_VERSION
    <2>1. s \in OpenerRecord /\ s.pc = "script" /\ s.statement = 1
      BY <1>1 DEF OpenerRecord, OpenerPc
    <2>2. Become(o, s) BY <1>3
    <2> HIDE DEF s
    <2> QED BY <1>1, <2>1, <2>2, UncommittedStep
  <1>4. CASE Goto(o, "validate")
    <2> DEFINE s == [x EXCEPT !.pc = "validate"]
    <2>1. s \in OpenerRecord /\ s.pc = "validate" BY <1>1 DEF OpenerRecord, OpenerPc
    <2>2. Become(o, s) BY <1>4 DEF Goto
    <2> HIDE DEF s
    <2> QED BY <1>1, <2>1, <2>2, UncommittedStep
  <1>5. CASE Fail(o) BY <1>1, <1>5, EndStep
  <1> QED BY <1>2, <1>3, <1>4, <1>5 DEF ReadVersion

LEMMA ValidateInv == ASSUME IInv, NEW o \in Opener, Validate(o) PROVE IInv'
  <1>1. Busy(o) /\ UNCHANGED <<db, backups, archives, past>>
    BY DEF Validate, Busy, At, Files
  <1>2. CASE /\ db.shape = Canonical /\ HistoryIsValid(db.history)
             /\ db.version = SCHEMA_VERSION
             /\ Become(o, [Closed EXCEPT !.pc = "open"])
    <2> DEFINE s == [Closed EXCEPT !.pc = "open"]
    <2>1. s \in OpenerRecord /\ s.pc = "open"
      BY ClosedType DEF Closed, OpenerRecord, OpenerPc
    <2>2. Become(o, s) BY <1>2
    <2> HIDE DEF s
    <2>3. opener'[o] = s BY <2>1, <2>2, BecomeFacts DEF IInv
    <2>4. Prepared(o)' BY <2>1, <2>3 DEF Prepared, Upgrading
    <2> QED BY <1>1, <1>2, <2>1, <2>2, <2>4, LocalStep DEF Upgrading
  <1>3. CASE Fail(o) BY <1>1, <1>3, EndStep
  <1> QED BY <1>2, <1>3 DEF Validate

-----------------------------------------------------------------------------
\* The backup before a transition

LEMMA WriteBackupInv == ASSUME IInv, NEW o \in Opener, WriteBackup(o) PROVE IInv'
  <1> DEFINE x == opener[o]
  <1>1. /\ Busy(o) /\ UNCHANGED <<db, backups, archives, past>>
        /\ x \in OpenerRecord /\ x.pc = "snapshot" /\ x.at # 0
    BY DEF WriteBackup, Busy, At, Files, IInv, TypeOK, Upgrading
  <1>2. CASE /\ db.version = x.at
             /\ Become(o, [x EXCEPT !.pc = "compare", !.temporary = Snapshot(db)])
    <2> DEFINE s == [x EXCEPT !.pc = "compare", !.temporary = Snapshot(db)]
    <2>1. Snapshot(db) \in SnapshotRecord
      BY DEF IInv, TypeOK, Database, Snapshot, SnapshotRecord
    <2>2. /\ s \in OpenerRecord /\ s.pc = "compare" /\ s.at = x.at
          /\ s.temporary = Snapshot(db)
      BY <1>1, <2>1 DEF OpenerRecord, OpenerPc, Upgrading
    <2>3. Become(o, s) BY <1>2
    <2> HIDE DEF s
    <2>4. opener'[o] = s BY <2>2, <2>3, BecomeFacts DEF IInv
    <2>5. Prepared(o)' BY <1>1, <1>2, <2>2, <2>4 DEF Prepared, Upgrading, Snapshot
    <2> QED BY <1>1, <2>2, <2>3, <2>5, LocalStep DEF Upgrading
  <1>3. CASE Fail(o) BY <1>1, <1>3, EndStep
  <1> QED BY <1>2, <1>3 DEF WriteBackup

LEMMA CompareBackupInv == ASSUME IInv, NEW o \in Opener, CompareBackup(o) PROVE IInv'
  <1> DEFINE x == opener[o]
             v == Target(o)
  <1>1. /\ Busy(o) /\ UNCHANGED <<db, backups, archives, past>>
        /\ x \in OpenerRecord /\ x.pc = "compare" /\ x.at # 0
        /\ v = x.at + 1
    BY DEF CompareBackup, Busy, At, Files, IInv, TypeOK, Upgrading, Target
  <1>2. /\ v \in Version /\ \A b \in backups[v] : b \in SnapshotRecord /\ backups[v] = {b}
    BY <1>1, SessionType DEF Upgrading, IInv, TypeOK, OneFile, Version, SCHEMA_VERSION
  <1>3. ~past.overlapped => db.version = x.at /\ x.temporary = Snapshot(db)
    BY <1>1 DEF IInv, Undisturbed, Prepared, Upgrading
  <1>4. CASE backups[v] = {} /\ Goto(o, "install")
    <2> DEFINE s == [x EXCEPT !.pc = "install"]
    <2>1. /\ s \in OpenerRecord /\ s.pc = "install" /\ s.at = x.at
          /\ s.temporary = x.temporary
      BY <1>1 DEF OpenerRecord, OpenerPc, Upgrading
    <2>2. Become(o, s) BY <1>4 DEF Goto
    <2> HIDE DEF s
    <2>3. opener'[o] = s BY <2>1, <2>2, BecomeFacts DEF IInv
    <2>4. ~past.overlapped => Prepared(o)'
      BY <1>1, <1>3, <1>4, <2>1, <2>3 DEF Prepared, Upgrading, Snapshot, Target
    <2> QED BY <1>1, <2>1, <2>2, <2>4, LocalStep DEF Upgrading
  <1>5. CASE \E b \in backups[v] : b = x.temporary /\ Goto(o, "migrate")
    <2> DEFINE s == [x EXCEPT !.pc = "migrate"]
    <2>1. s \in OpenerRecord /\ s.pc = "migrate" /\ s.at = x.at
      BY <1>1 DEF OpenerRecord, OpenerPc, Upgrading
    <2>2. Become(o, s) BY <1>5 DEF Goto
    <2> HIDE DEF s
    <2>3. opener'[o] = s BY <2>1, <2>2, BecomeFacts DEF IInv
    <2>4. backups[v] = {x.temporary} BY <1>2, <1>5
    <2>5. ~past.overlapped => Prepared(o)'
      BY <1>1, <1>3, <2>1, <2>3, <2>4 DEF Prepared, Upgrading, Snapshot, Target
    <2> QED BY <1>1, <2>1, <2>2, <2>5, LocalStep DEF Upgrading
  <1>6. ASSUME NEW b \in backups[v],
               Become(o, [x EXCEPT !.pc = "archive", !.seen = b])
        PROVE  IInv'
    <2> DEFINE s == [x EXCEPT !.pc = "archive", !.seen = b]
    <2>1. b \in SnapshotRecord /\ backups[v] = {b} BY <1>2
    <2>2. /\ s \in OpenerRecord /\ s.pc = "archive" /\ s.at = x.at
          /\ s.temporary = x.temporary /\ s.seen = b
      BY <1>1, <2>1 DEF OpenerRecord, OpenerPc, Upgrading
    <2>3. Become(o, s) BY <1>6
    <2> HIDE DEF s
    <2>4. opener'[o] = s BY <2>2, <2>3, BecomeFacts DEF IInv
    <2>5. ~past.overlapped => Prepared(o)'
      BY <1>1, <1>3, <2>1, <2>2, <2>4 DEF Prepared, Upgrading, Snapshot, Target
    <2> QED BY <1>1, <2>2, <2>3, <2>5, LocalStep DEF Upgrading
  <1>7. CASE Fail(o) BY <1>1, <1>7, EndStep
  <1> QED BY <1>4, <1>5, <1>6, <1>7 DEF CompareBackup

LEMMA FindArchiveInv == ASSUME IInv, NEW o \in Opener, FindArchive(o) PROVE IInv'
  <1> DEFINE x == opener[o]
             v == Target(o)
             same == {a \in archives[v] : a.digest = x.seen}
  <1>1. /\ Busy(o) /\ UNCHANGED <<db, backups, archives, past>>
        /\ x \in OpenerRecord /\ x.pc = "archive" /\ x.at # 0 /\ v = x.at + 1
    BY DEF FindArchive, Busy, At, Files, IInv, TypeOK, Upgrading, Target
  <1>2. v \in Version /\ archives[v] \subseteq ArchiveRecord
    BY <1>1, SessionType DEF Upgrading, IInv, TypeOK, Version, SCHEMA_VERSION
  <1>3. ~past.overlapped =>
          db.version = x.at /\ x.temporary = Snapshot(db) /\ backups[v] = {x.seen}
    BY <1>1 DEF IInv, Undisturbed, Prepared, Upgrading
  <1>4. CASE /\ \A a \in same : a.file = x.seen
             /\ Become(o, [x EXCEPT !.pc = "aside", !.found = (same # {})])
    <2> DEFINE s == [x EXCEPT !.pc = "aside", !.found = (same # {})]
    <2>1. /\ s \in OpenerRecord /\ s.pc = "aside" /\ s.at = x.at
          /\ s.temporary = x.temporary /\ s.seen = x.seen /\ s.found = (same # {})
      BY <1>1 DEF OpenerRecord, OpenerPc, Upgrading
    <2>2. Become(o, s) BY <1>4
    <2>3. same # {} => [digest |-> x.seen, file |-> x.seen] \in archives[v]
      <3> SUFFICES ASSUME NEW a \in same
                   PROVE  [digest |-> x.seen, file |-> x.seen] \in archives[v]
        OBVIOUS
      <3>1. a \in ArchiveRecord /\ a.digest = x.seen /\ a.file = x.seen BY <1>2, <1>4
      <3>2. a = [digest |-> x.seen, file |-> x.seen] BY <3>1 DEF ArchiveRecord
      <3> QED BY <3>2
    <2> HIDE DEF s, same
    <2>4. opener'[o] = s BY <2>1, <2>2, BecomeFacts DEF IInv
    <2>5. ~past.overlapped => Prepared(o)'
      BY <1>1, <1>3, <2>1, <2>3, <2>4 DEF Prepared, Upgrading, Snapshot, Target
    <2> QED BY <1>1, <2>1, <2>2, <2>5, LocalStep DEF Upgrading
  <1>5. CASE Fail(o) BY <1>1, <1>5, EndStep
  <1> QED BY <1>4, <1>5 DEF FindArchive

\* What the steps that change files or the root leave to the other openings.
LEMMA OthersPrepared ==
  ASSUME IInv, NEW o \in Opener, Busy(o), ~past.overlapped,
         \A p \in Opener : p # o => opener'[p] = opener[p]
  PROVE  \A p \in Opener : p # o => Prepared(p)'
  <1> SUFFICES ASSUME NEW p \in Opener, p # o PROVE Prepared(p)' OBVIOUS
  <1>1. ~Busy(p) BY DEF IInv, Alone
  <1>2. opener[p].pc \in {"closed", "open"} BY <1>1 DEF Busy, At
  <1>3. opener'[p].pc \in {"closed", "open"} BY <1>2
  <1> QED BY <1>3 DEF Prepared, Upgrading

LEMMA MoveAsideInv == ASSUME IInv, NEW o \in Opener, MoveAside(o) PROVE IInv'
  <1> DEFINE x == opener[o]
             v == Target(o)
             others == {a \in archives[v] : a.digest # x.seen}
  <1>1. /\ Busy(o) /\ UNCHANGED <<db, past>>
        /\ x \in OpenerRecord /\ x.pc = "aside" /\ x.at # 0 /\ v = x.at + 1
        /\ db.version \in 0..8
    BY DEF MoveAside, Busy, At, IInv, TypeOK, Upgrading, Target, Database, SCHEMA_VERSION
  <1>2. /\ v \in Version /\ archives[v] \subseteq ArchiveRecord
        /\ backups[v] \subseteq SnapshotRecord
    BY <1>1, SessionType DEF Upgrading, IInv, TypeOK, Version, SCHEMA_VERSION
  <1>3. ~past.overlapped =>
          /\ db.version = x.at /\ x.temporary = Snapshot(db) /\ backups[v] = {x.seen}
          /\ x.found => [digest |-> x.seen, file |-> x.seen] \in archives[v]
    BY <1>1 DEF IInv, Undisturbed, Prepared, Upgrading
  <1>4. CASE backups[v] = {} /\ Fail(o) /\ UNCHANGED Files
    BY <1>1, <1>4, EndStep DEF Files
  <1>5. ASSUME NEW b \in backups[v],
               Become(o, [x EXCEPT !.pc = "install", !.seen = NoSnapshot, !.found = FALSE]),
               backups' = [backups EXCEPT ![v] = {}],
               archives' = IF x.found THEN archives
                           ELSE [archives EXCEPT
                                   ![v] = others \cup {[digest |-> x.seen, file |-> b]}]
        PROVE  IInv'
    <2> DEFINE s == [x EXCEPT !.pc = "install", !.seen = NoSnapshot, !.found = FALSE]
    <2>1. /\ s \in OpenerRecord /\ s.pc = "install" /\ s.at = x.at
          /\ s.temporary = x.temporary
      BY <1>1, ClosedType DEF OpenerRecord, OpenerPc, Upgrading
    <2>2. Become(o, s) BY <1>5
    <2> HIDE DEF s
    <2>3. /\ opener' \in [Opener -> OpenerRecord] /\ opener'[o] = s
          /\ \A p \in Opener : p # o => opener'[p] = opener[p]
      BY <2>1, <2>2, BecomeFacts DEF IInv
    <2>4. /\ backups' \in [Version -> SUBSET SnapshotRecord] /\ backups'[v] = {}
          /\ \A u \in Version : u # v => backups'[u] = backups[u]
      BY <1>2, <1>5 DEF IInv, TypeOK
    <2>5. /\ archives' \in [Version -> SUBSET ArchiveRecord]
          /\ \A u \in Version : u # v => archives'[u] = archives[u]
          /\ archives'[v] = IF x.found THEN archives[v]
                            ELSE others \cup {[digest |-> x.seen, file |-> b]}
      <3>1. [digest |-> x.seen, file |-> b] \in ArchiveRecord
        BY <1>1, <1>2 DEF OpenerRecord, ArchiveRecord
      <3>2. others \in SUBSET ArchiveRecord BY <1>2
      <3>3. archives \in [Version -> SUBSET ArchiveRecord] BY DEF IInv, TypeOK
      <3> QED BY <1>2, <1>5, <3>1, <3>2, <3>3
    <2>6. TypeOK'
      <3>1. \A p \in Opener : p = o \/ opener'[p] = opener[p] BY <2>3
      <3> QED BY <1>1, <2>1, <2>3, <2>4, <2>5, <3>1 DEF IInv, TypeOK, At
    <2>7. OneFile' /\ Versioned' /\ Reached' /\ HistoryLeadsToVersion'
      BY <1>1, <2>4 DEF IInv, OneFile, Versioned, Reached, HistoryLeadsToVersion
    <2>8. Alone' /\ OpenMeansCurrent'
      BY <1>1, <2>1, <2>3 DEF IInv, Alone, OpenMeansCurrent, Busy, At
    <2>9. Undisturbed'
      <3> SUFFICES ASSUME ~past.overlapped, NEW p \in Opener PROVE Prepared(p)'
        BY <1>1 DEF Undisturbed
      <3>1. CASE p = o
        BY <1>1, <1>3, <2>1, <2>3, <2>4, <3>1 DEF Prepared, Upgrading, Snapshot, Target
      <3>2. CASE p # o BY <1>1, <2>3, <3>2, OthersPrepared
      <3> QED BY <3>1, <3>2
    <2>10. RollbackSourceIsExact'
      \* The target has not been reached.
      <3>1. ASSUME ~past.overlapped PROVE past.before[v] = {}
        BY <1>1, <1>2, <1>3, <3>1 DEF IInv, Reached
      <3> QED BY <1>1, <2>4, <3>1
              DEF IInv, RollbackSourceIsExact, Version, SCHEMA_VERSION
    <2>11. EvidenceIsPreserved'
      <3> SUFFICES ASSUME ~past.overlapped, NEW i \in past.installed
                   PROVE  \/ backups'[i[1]] = {i[2]}
                          \/ [digest |-> i[2], file |-> i[2]] \in archives'[i[1]]
        BY <1>1 DEF EvidenceIsPreserved
      <3>1. /\ i[1] \in Version
            /\ \/ backups[i[1]] = {i[2]}
               \/ [digest |-> i[2], file |-> i[2]] \in archives[i[1]]
        BY DEF IInv, TypeOK, PastRecord, EvidenceIsPreserved
      <3>2. CASE i[1] # v BY <2>4, <2>5, <3>1, <3>2
      <3>3. CASE i[1] = v /\ i[2] = x.seen
        <4>1. b = x.seen BY <1>3, <1>5
        <4> QED BY <1>3, <2>5, <3>3, <4>1
      <3>4. CASE i[1] = v /\ i[2] # x.seen
        <4>1. backups[v] # {i[2]} BY <1>3, <3>4
        <4>2. [digest |-> i[2], file |-> i[2]] \in others BY <3>1, <3>4, <4>1
        <4> QED BY <2>5, <3>4, <4>2
      <3> QED BY <3>2, <3>3, <3>4
    <2> QED BY <2>6, <2>7, <2>8, <2>9, <2>10, <2>11 DEF IInv
  <1> QED BY <1>4, <1>5 DEF MoveAside

LEMMA InstallBackupInv == ASSUME IInv, NEW o \in Opener, InstallBackup(o) PROVE IInv'
  <1> DEFINE x == opener[o]
             v == Target(o)
             s == [x EXCEPT !.pc = "migrate"]
  <1>1. /\ Busy(o) /\ UNCHANGED <<db, archives>>
        /\ x \in OpenerRecord /\ x.pc = "install" /\ x.at # 0 /\ v = x.at + 1
        /\ db.version \in 0..8
    BY DEF InstallBackup, Busy, At, IInv, TypeOK, Upgrading, Target, Database, SCHEMA_VERSION
  <1>2. /\ v \in Version /\ v # 1 /\ x.temporary \in SnapshotRecord
    BY <1>1, SessionType DEF Upgrading, OpenerRecord, Version, SCHEMA_VERSION
  <1>3. ~past.overlapped =>
          db.version = x.at /\ x.temporary = Snapshot(db) /\ backups[v] = {}
    BY <1>1 DEF IInv, Undisturbed, Prepared, Upgrading
  <1>4. s \in OpenerRecord /\ s.pc = "migrate" /\ s.at = x.at
    BY <1>1 DEF OpenerRecord, OpenerPc, Upgrading
  <1>5. Become(o, s) BY DEF InstallBackup, Goto
  <1> HIDE DEF s
  <1>6. /\ opener' \in [Opener -> OpenerRecord] /\ opener'[o] = s
        /\ \A p \in Opener : p # o => opener'[p] = opener[p]
    BY <1>4, <1>5, BecomeFacts DEF IInv
  <1>7. /\ backups' \in [Version -> SUBSET SnapshotRecord]
        /\ backups'[v] = {x.temporary}
        /\ \A u \in Version : u # v => backups'[u] = backups[u]
    BY <1>2 DEF InstallBackup, IInv, TypeOK
  <1>8. /\ past' \in PastRecord /\ past'.start = past.start
        /\ past'.overlapped = past.overlapped /\ past'.before = past.before
        /\ past'.installed = past.installed \cup {<<v, x.temporary>>}
    <2>1. past' = [past EXCEPT !.installed = @ \cup {<<v, x.temporary>>}]
      BY DEF InstallBackup
    <2>2. past \in PastRecord /\ <<v, x.temporary>> \in Version \X SnapshotRecord
      BY <1>2 DEF IInv, TypeOK
    <2> QED BY <2>1, <2>2 DEF PastRecord
  <1>9. TypeOK'
    <2>1. \A p \in Opener : p = o \/ opener'[p] = opener[p] BY <1>6
    <2> QED BY <1>1, <1>4, <1>6, <1>7, <1>8, <2>1 DEF IInv, TypeOK, At
  <1>10. OneFile' /\ Versioned' /\ Reached' /\ HistoryLeadsToVersion'
    BY <1>1, <1>7, <1>8 DEF IInv, OneFile, Versioned, Reached, HistoryLeadsToVersion
  <1>11. Alone' /\ OpenMeansCurrent'
    BY <1>1, <1>4, <1>6, <1>8 DEF IInv, Alone, OpenMeansCurrent, Busy, At
  <1>12. Undisturbed'
    <2> SUFFICES ASSUME ~past.overlapped, NEW p \in Opener PROVE Prepared(p)'
      BY <1>8 DEF Undisturbed
    <2>1. CASE p = o
      BY <1>1, <1>3, <1>4, <1>6, <1>7, <2>1 DEF Prepared, Upgrading, Snapshot, Target
    <2>2. CASE p # o BY <1>1, <1>6, <2>2, OthersPrepared
    <2> QED BY <2>1, <2>2
  <1>13. RollbackSourceIsExact'
    <2>1. ASSUME ~past.overlapped PROVE past.before[v] = {}
      BY <1>1, <1>2, <1>3, <2>1 DEF IInv, Reached
    <2> QED BY <1>7, <1>8, <2>1 DEF IInv, RollbackSourceIsExact, Version, SCHEMA_VERSION
  <1>14. EvidenceIsPreserved'
    <2> SUFFICES ASSUME ~past.overlapped, NEW i \in past'.installed
                 PROVE  \/ backups'[i[1]] = {i[2]}
                        \/ [digest |-> i[2], file |-> i[2]] \in archives[i[1]]
      BY <1>1, <1>8 DEF EvidenceIsPreserved
    <2>1. CASE i = <<v, x.temporary>> BY <1>7, <2>1
    <2>2. CASE i \in past.installed
      <3>1. /\ i[1] \in Version
            /\ \/ backups[i[1]] = {i[2]}
               \/ [digest |-> i[2], file |-> i[2]] \in archives[i[1]]
        BY <2>2 DEF IInv, TypeOK, PastRecord, EvidenceIsPreserved
      <3> QED BY <1>3, <1>7, <3>1
    <2> QED BY <1>8, <2>1, <2>2
  <1> QED BY <1>9, <1>10, <1>11, <1>12, <1>13, <1>14 DEF IInv

-----------------------------------------------------------------------------
\* The steps that change the root

LEMMA RunStatementInv == ASSUME IInv, NEW o \in Opener, RunStatement(o) PROVE IInv'
  <1> DEFINE x == opener[o]
             last == x.statement = Len(SCHEMA)
             s == [x EXCEPT !.pc = IF last THEN "validate" ELSE "script",
                            !.statement = IF last THEN 0 ELSE @ + 1]
             creates == x.statement = 2 /\ "version" \notin db.shape
  <1>1. /\ Busy(o) /\ UNCHANGED <<backups, archives, past>>
        /\ x \in OpenerRecord /\ x.pc = "script" /\ x.statement \in 1..11
        /\ db \in Database
    <2>1. x \in OpenerRecord /\ x.pc = "script" /\ x.statement # 0 /\ db \in Database
      BY DEF RunStatement, At, IInv, TypeOK
    <2>2. x.statement \in 1..11 BY <2>1, SchemaFacts DEF OpenerRecord
    <2> QED BY <2>1, <2>2 DEF RunStatement, Busy, At, Files
  <1>2. /\ s \in OpenerRecord /\ s.pc \in {"script", "validate"}
        /\ s.pc = "script" => s.statement # 0
    <2> HIDE DEF last
    <2>1. (IF last THEN 0 ELSE x.statement + 1) \in 0..Len(SCHEMA)
      BY <1>1, SchemaFacts DEF last
    <2>2. x.statement + 1 # 0 BY <1>1
    <2>3. CASE last BY <1>1, <2>1, <2>3 DEF OpenerRecord, OpenerPc
    <2>4. CASE ~last BY <1>1, <2>1, <2>2, <2>4 DEF OpenerRecord, OpenerPc
    <2> QED BY <2>3, <2>4
  <1>3. Become(o, s) BY DEF RunStatement
  <1> HIDE DEF s
  <1>4. /\ opener' \in [Opener -> OpenerRecord] /\ opener'[o] = s
        /\ \A p \in Opener : p # o => opener'[p] = opener[p]
    BY <1>2, <1>3, BecomeFacts DEF IInv
  <1>5. /\ db' \in Database
        /\ db'.shape = db.shape \cup SCHEMA[x.statement]
        /\ db'.version = IF creates THEN SCHEMA_VERSION ELSE db.version
        /\ db'.history = db.history /\ db'.facts = db.facts
    <2>1. SCHEMA[x.statement] \subseteq SchemaObject BY <1>1, SchemaFacts
    <2>2. db' = [db EXCEPT !.shape = @ \cup SCHEMA[x.statement],
                           !.version = IF creates THEN SCHEMA_VERSION ELSE @]
      BY DEF RunStatement
    <2>3. SCHEMA_VERSION \in 0..SCHEMA_VERSION BY DEF SCHEMA_VERSION
    <2> QED BY <1>1, <2>1, <2>2, <2>3 DEF Database
  <1>6. db.version \in 0..8 BY <1>1 DEF Database, SCHEMA_VERSION
  <1>7. creates => db.version = 0 /\ past.start \in Nat /\ ~(past.start > 0)
    BY <1>6 DEF IInv, Versioned, TypeOK, PastRecord, SCHEMA_VERSION
  <1>8. TypeOK'
    <2>1. \A p \in Opener : p = o \/ opener'[p] = opener[p] BY <1>4
    <2> QED BY <1>1, <1>2, <1>4, <1>5, <2>1 DEF IInv, TypeOK, At, Upgrading
  <1>9. OneFile' /\ RollbackSourceIsExact' /\ EvidenceIsPreserved'
    BY <1>1 DEF IInv, OneFile, RollbackSourceIsExact, EvidenceIsPreserved
  <1>10. Versioned'
    <2>1. "version" \in SCHEMA[x.statement] <=> x.statement = 2 BY <1>1, SchemaFacts
    <2> QED BY <1>1, <1>5, <1>7, <2>1 DEF IInv, Versioned, SCHEMA_VERSION
  <1>11. Reached'
    BY <1>1, <1>5, <1>6, <1>7 DEF IInv, Reached, Version, SCHEMA_VERSION
  <1>12. HistoryLeadsToVersion'
    BY <1>1, <1>5, <1>7 DEF IInv, HistoryLeadsToVersion
  <1>13. Alone' BY <1>1, <1>4 DEF IInv, Alone, Busy, At
  <1>14. Undisturbed'
    <2>1. Prepared(o)' BY <1>2, <1>4 DEF Prepared, Upgrading
    <2> QED BY <1>1, <1>4, <2>1, OthersPrepared DEF Undisturbed
  <1>15. OpenMeansCurrent'
    <2>1. "version" \in Canonical BY ReleasedFacts DEF Canonical, SCHEMA_VERSION
    <2>2. SCHEMA[x.statement] \subseteq Canonical BY <1>1, SchemaFacts
    <2> SUFFICES ASSUME NEW p \in Opener, At(p, "open")'
                 PROVE  /\ db'.version = SCHEMA_VERSION /\ db'.shape = Canonical
                        /\ HistoryIsValid(db'.history)
      BY DEF OpenMeansCurrent
    <2>3. At(p, "open") BY <1>2, <1>4 DEF At
    <2> QED BY <1>5, <2>1, <2>2, <2>3 DEF IInv, OpenMeansCurrent
  <1> QED BY <1>8, <1>9, <1>10, <1>11, <1>12, <1>13, <1>14, <1>15 DEF IInv

\* One more version, at the end of the history.
LEMMA HistoryGrows ==
  ASSUME NEW start \in Nat, NEW version \in Nat, start <= version
  PROVE  Append([k \in 1..(version - start) |-> start + k], version + 1)
           = [k \in 1..(version + 1 - start) |-> start + k]
  <1> DEFINE h == [k \in 1..(version - start) |-> start + k]
             g == [k \in 1..(version + 1 - start) |-> start + k]
             n == version - start
  <1>1. n \in Nat /\ version + 1 - start = n + 1 /\ version + 1 = start + (n + 1) OBVIOUS
  <1>2. h \in Seq(Nat) /\ Len(h) = n BY <1>1, IsASeq, LenProperties
  <1>3. g \in Seq(Nat) /\ Len(g) = n + 1 BY <1>1, IsASeq, LenProperties
  <1> DEFINE a == Append(h, version + 1)
  <1>4. a \in Seq(Nat) /\ Len(a) = n + 1 BY <1>2
  <1>5. ASSUME NEW k \in 1..n + 1 PROVE a[k] = g[k]
    <2>1. CASE k = n + 1 BY <1>1, <1>2, <2>1
    <2>2. CASE k # n + 1
      <3>1. k \in 1..n BY <1>1, <2>2
      <3> QED BY <1>1, <1>2, <3>1
    <2> QED BY <2>1, <2>2
  <1> HIDE DEF a, g
  <1>6. a = g BY <1>3, <1>4, <1>5, SeqEqual
  <1> QED BY <1>6 DEF a, g

LEMMA TransitionInv ==
  ASSUME IInv, NEW o \in Opener, At(o, "migrate"), db.version = opener[o].at,
         Transition(o), UNCHANGED <<backups, archives>>
  PROVE  IInv'
  <1> DEFINE x == opener[o]
             v == Target(o)
             s == [Closed EXCEPT !.pc = "version", !.migrated = TRUE]
  <1>1. /\ Busy(o) /\ x \in OpenerRecord /\ x.pc = "migrate" /\ db \in Database
        /\ v = db.version + 1 /\ past \in PastRecord
    BY DEF Busy, At, IInv, TypeOK, Target
  <1>2. v \in 2..8 /\ db.version \in 1..7
    <2>1. db.version \in 0..8 BY <1>1 DEF Database, SCHEMA_VERSION
    <2>2. v \in 2..SCHEMA_VERSION BY <1>1, SessionType DEF Upgrading, IInv
    <2> QED BY <1>1, <2>1, <2>2 DEF SCHEMA_VERSION
  <1>3. s \in OpenerRecord /\ s.pc = "version" /\ Become(o, s)
    BY ClosedType DEF OpenerRecord, OpenerPc, Closed, Transition
  <1> HIDE DEF s
  <1>4. /\ opener' \in [Opener -> OpenerRecord] /\ opener'[o] = s
        /\ \A p \in Opener : p # o => opener'[p] = opener[p]
    BY <1>3, BecomeFacts DEF IInv
  <1>5. /\ db' \in Database
        /\ db'.shape = (db.shape \cup Adds(v)) \ {"unowned"}
        /\ db'.version = v /\ db'.history = Append(db.history, v)
    <2>1. db' = [db EXCEPT !.version = v, !.history = Append(@, v),
                           !.shape = (@ \cup Adds(v)) \ {"unowned"}]
      BY DEF Transition
    <2>2. Adds(v) \subseteq SchemaObject BY <1>2, AddsFacts
    <2>3. v \in 0..SCHEMA_VERSION /\ v \in Nat BY <1>2 DEF SCHEMA_VERSION
    <2>4. Append(db.history, v) \in Seq(Nat) BY <1>1, <2>3 DEF Database
    <2> QED BY <1>1, <2>1, <2>2, <2>3, <2>4 DEF Database
  <1>6. v \in Version /\ Snapshot(db) \in SnapshotRecord
    BY <1>1, <1>2 DEF Version, SCHEMA_VERSION, Snapshot, SnapshotRecord, Database
  <1>7. /\ past' \in PastRecord /\ past'.start = past.start
        /\ past'.overlapped = past.overlapped /\ past'.installed = past.installed
        /\ past'.before[v] = {Snapshot(db)}
        /\ \A u \in Version : u # v => past'.before[u] = past.before[u]
    <2>1. past' = [past EXCEPT !.before = [@ EXCEPT ![v] = {Snapshot(db)}]]
      BY DEF Transition
    <2>2. past.before \in [Version -> SUBSET SnapshotRecord] BY <1>1 DEF PastRecord
    <2> DEFINE b == [past.before EXCEPT ![v] = {Snapshot(db)}]
    <2>3. /\ b \in [Version -> SUBSET SnapshotRecord] /\ b[v] = {Snapshot(db)}
          /\ \A u \in Version : u # v => b[u] = past.before[u]
      BY <1>6, <2>2
    <2>4. past' = [past EXCEPT !.before = b] BY <2>1
    <2> HIDE DEF b
    <2>5. past'.before = b /\ past' \in PastRecord BY <1>1, <2>3, <2>4 DEF PastRecord
    <2> QED BY <1>1, <2>3, <2>4, <2>5 DEF PastRecord
  <1>8. TypeOK'
    <2>1. \A p \in Opener : p = o \/ opener'[p] = opener[p] BY <1>4
    <2> QED BY <1>1, <1>3, <1>4, <1>5, <1>7, <2>1 DEF IInv, TypeOK, At, Upgrading
  <1>9. OneFile' /\ EvidenceIsPreserved'
    BY <1>7 DEF IInv, OneFile, EvidenceIsPreserved
  <1>10. Versioned'
    <2>1. "version" \in db.shape BY <1>2 DEF IInv, Versioned
    <2> QED BY <1>1, <1>2, <1>5, <1>7, <2>1 DEF IInv, Versioned, PastRecord, SCHEMA_VERSION
  <1>11. Reached' BY <1>1, <1>2, <1>5, <1>7 DEF IInv, Reached, Version, SCHEMA_VERSION
  <1>12. HistoryLeadsToVersion'
    <2> SUFFICES ASSUME past.start > 0
        PROVE  /\ db'.history = [k \in 1..(db'.version - past.start) |-> past.start + k]
               /\ UNION {Adds(u) : u \in 2..db'.version} \subseteq db'.shape
      BY <1>7 DEF HistoryLeadsToVersion
    <2>1. past.start \in Nat /\ past.start <= db.version /\ db.version \in Nat
      BY <1>1, <1>2 DEF IInv, Versioned, PastRecord, SCHEMA_VERSION
    <2>2. db.history = [k \in 1..(db.version - past.start) |-> past.start + k]
      BY DEF IInv, HistoryLeadsToVersion
    <2>3. db'.history = [k \in 1..(db'.version - past.start) |-> past.start + k]
      <3>1. db'.version = db.version + 1 /\ db'.history = Append(db.history, db.version + 1)
        BY <1>1, <1>5
      <3> DEFINE n == db.version
      <3>2. past.start \in Nat /\ n \in Nat /\ past.start <= n BY <2>1
      <3> DEFINE g(m) == [k \in 1..(m - past.start) |-> past.start + k]
      <3>3. db.history = g(n) BY <2>2
      <3> HIDE DEF n
      <3>4. Append(g(n), n + 1) = g(n + 1) BY <3>2, HistoryGrows
      <3>5. db'.version = n + 1 /\ db'.history = Append(db.history, n + 1) BY <3>1 DEF n
      <3> HIDE DEF g
      <3>7. db'.history = g(db'.version) BY <3>3, <3>4, <3>5, Zenon
      <3> QED BY <3>7 DEF g
    <2>4. ASSUME NEW a \in UNION {Adds(u) : u \in 2..db'.version} PROVE a \in db'.shape
      <3>1. PICK u \in 2..v : a \in Adds(u) BY <1>5, <2>4
      <3>2. a # "unowned" BY <1>2, <3>1, AddsFacts
      <3>3. CASE u = v BY <1>5, <3>1, <3>2, <3>3
      <3>4. CASE u # v
        <4>1. u \in 2..db.version BY <1>1, <1>2, <3>4
        <4>2. a \in db.shape BY <3>1, <4>1 DEF IInv, HistoryLeadsToVersion
        <4> QED BY <1>5, <3>2, <4>2
      <3> QED BY <3>3, <3>4
    <2> QED BY <2>3, <2>4
  <1>13. Alone' BY <1>1, <1>4, <1>7 DEF IInv, Alone, Busy, At
  <1>14. Undisturbed'
    <2>1. Prepared(o)' BY <1>3, <1>4 DEF Prepared, Upgrading
    <2> QED BY <1>1, <1>4, <1>7, <2>1, OthersPrepared DEF Undisturbed
  <1>15. OpenMeansCurrent'
    \* Nobody has the root open: it is not current.
    <2>1. \A p \in Opener : ~At(p, "open")
      BY <1>2 DEF IInv, OpenMeansCurrent, SCHEMA_VERSION
    <2> QED BY <1>3, <1>4, <2>1 DEF OpenMeansCurrent, At
  <1>16. RollbackSourceIsExact'
    <2>1. ~past.overlapped => backups[v] = {Snapshot(db)}
      BY <1>1 DEF IInv, Undisturbed, Prepared
    <2> QED BY <1>7, <2>1 DEF IInv, RollbackSourceIsExact, Version, SCHEMA_VERSION
  <1> QED BY <1>8, <1>9, <1>10, <1>11, <1>12, <1>13, <1>14, <1>15, <1>16 DEF IInv

LEMMA MigrateInv == ASSUME IInv, NEW o \in Opener, Migrate(o) PROVE IInv'
  <1>1. At(o, "migrate") /\ UNCHANGED <<backups, archives>> BY DEF Migrate, Files
  <1>2. CASE db.version = opener[o].at /\ Transition(o) BY <1>1, <1>2, TransitionInv
  <1>3. CASE Fail(o) /\ UNCHANGED <<db, past>> BY <1>1, <1>3, EndStep
  <1> QED BY <1>2, <1>3 DEF Migrate

LEMMA WriteFactInv == ASSUME IInv, WriteFact PROVE IInv'
  <1>1. /\ \A o \in Opener : ~Busy(o)
        /\ UNCHANGED <<backups, archives, opener, past>>
        /\ db.version \in 1..7
        /\ db' \in Database /\ db'.shape = db.shape /\ db'.version = db.version
        /\ db'.history = db.history
    <2>1. db \in Database /\ db' = [db EXCEPT !.facts = @ + 1] BY DEF WriteFact, IInv, TypeOK
    <2>2. /\ db' \in Database /\ db'.shape = db.shape /\ db'.version = db.version
          /\ db'.history = db.history
      BY <2>1 DEF Database
    <2>3. db.version \in 1..7 BY DEF WriteFact, SCHEMA_VERSION
    <2> QED BY <2>2, <2>3 DEF WriteFact, Files
  <1>2. TypeOK' BY <1>1 DEF IInv, TypeOK, At
  <1>3. OneFile' /\ Versioned' /\ Reached' /\ HistoryLeadsToVersion' /\ Alone'
          /\ OpenMeansCurrent' /\ RollbackSourceIsExact' /\ EvidenceIsPreserved'
    BY <1>1 DEF IInv, OneFile, Versioned, Reached, HistoryLeadsToVersion, Alone, Busy, At,
           OpenMeansCurrent, RollbackSourceIsExact, EvidenceIsPreserved
  <1>4. \A o \in Opener : opener[o].pc \in {"closed", "open"} BY <1>1 DEF Busy, At
  <1>5. Undisturbed' BY <1>1, <1>4 DEF Undisturbed, Prepared, Upgrading
  <1> QED BY <1>2, <1>3, <1>5 DEF IInv

-----------------------------------------------------------------------------
\* The invariant is inductive: one lemma per action.
THEOREM StepInv == IInv /\ [Next]_vars => IInv'
  <1> SUFFICES ASSUME IInv, [Next]_vars PROVE IInv' OBVIOUS
  <1>1. ASSUME NEW o \in Opener, Opening(o) PROVE IInv'
    <2>1. CASE Close(o) BY <2>1, EndStep DEF Close, Files
    <2> QED BY <1>1, <2>1, OpenInv, FindMetadataInv, ReadVersionInv, RunStatementInv,
               ValidateInv, WriteBackupInv, CompareBackupInv, FindArchiveInv,
               MoveAsideInv, InstallBackupInv, MigrateInv
            DEF Opening
  <1>2. ASSUME NEW o \in Opener, Die(o) PROVE IInv' BY <1>2, EndStep DEF Die, Files
  <1>3. CASE UNCHANGED vars
    BY <1>3 DEF vars, IInv, TypeOK, OneFile, Versioned, Reached, HistoryLeadsToVersion,
           Alone, Busy, At, Undisturbed, Prepared, Target, Snapshot, OpenMeansCurrent,
           RollbackSourceIsExact, EvidenceIsPreserved
  <1> QED BY <1>1, <1>2, <1>3, WriteFactInv DEF Next

\* The inductive invariant holds in every state.
THEOREM MigrationsInv == Spec => []IInv
  BY InitInv, StepInv, PTL DEF Spec

\* The fields of the root, its files and its openings keep their types
\* (migrations.py initialize_schema).
THEOREM MigrationsTypeCorrect == Spec => []TypeOK
  <1>1. IInv => TypeOK BY DEF IInv
  <1> QED BY <1>1, MigrationsInv, PTL

\* A migrated root is at the version its history leads to, whoever migrated it
\* and wherever he died (migrations.py _advance_version).
THEOREM HistoryLeads == Spec => []HistoryLeadsToVersion
  <1>1. IInv => HistoryLeadsToVersion BY DEF IInv
  <1> QED BY <1>1, MigrationsInv, PTL

\* Whoever gets to use the root finds the whole current schema (migrations.py
\* _validate_current_schema), and finds it as long as he uses it.
THEOREM OpenIsCurrent == Spec => []OpenMeansCurrent
  <1>1. IInv => OpenMeansCurrent BY DEF IInv
  <1> QED BY <1>1, MigrationsInv, PTL

\* Without overlapping openings the backup of every transition is the root as the
\* transition found it (migrations.py _ensure_backup).
THEOREM RollbackSourceExact == Spec => []RollbackSourceIsExact
  <1>1. IInv => RollbackSourceIsExact BY DEF IInv
  <1> QED BY <1>1, MigrationsInv, PTL

\* And no installed backup is lost (migrations.py _ensure_backup).
THEOREM EvidencePreserved == Spec => []EvidenceIsPreserved
  <1>1. IInv => EvidenceIsPreserved BY DEF IInv
  <1> QED BY <1>1, MigrationsInv, PTL
=============================================================================
