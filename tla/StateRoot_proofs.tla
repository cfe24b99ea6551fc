----------------------------- MODULE StateRoot_proofs -----------------------------
(***************************************************************************)
(* Why backups are complete and receipts honest, why no root is lost or    *)
(* absent for longer than a restore takes, and why the roots and the       *)
(* identities they have verified stay sound, however many requests,        *)
(* backups, restores, losses and failures there are.                       *)
(***************************************************************************)
EXTENDS StateRoot, SequenceTheorems, FiniteSetTheorems, TLAPS

Id == Nat \X Nat
File == [whole: BOOLEAN, id: Id]
RootRecord == [facts: SUBSET Fact, files: [Object -> File],
               cached: [Object -> Id], born: SUBSET Fact]
BackupRecord == [facts: SUBSET Fact, files: [Object -> File],
                 manifest: SUBSET Fact, there: BOOLEAN]
RequestRecord ==
  [pc: {"idle", "validate", "put", "commit", "committed"}, conn: Nat,
   todo: SUBSET Object, rows: [Object -> Id], verified: [Object -> Id]]
CallPc == {"idle", "snapshot", "copy", "publish", "done", "failed", "stage_journal",
           "stage_objects", "verify", "realize", "aside", "install", "restored", "cleanup"}
CallRecord ==
  [pc: CallPc, kind: {"none", "backup", "restore"}, dest: Destination \cup {0},
   replace: BOOLEAN, conn: Nat, refs: SUBSET Object, todo: SUBSET Object,
   copy: BackupRecord, root: Nat, found: Nat, previous: Nat]
Index == 1..Len(roots)

RootsOK == roots \in Seq(RootRecord) /\ target \in Nat /\ (target # 0 => target \in Index)
RequestOK == /\ request \in [Fact -> RequestRecord]
             /\ \A f \in Fact : Open(f) => request[f].conn \in Index
CallOK == /\ call \in [Operator -> CallRecord]
          /\ \A p \in Operator :
               /\ ~CallAt(p, "idle") => call[p].dest \in Destination
               /\ CallAt(p, "idle") => call[p] = NoCall
               /\ call[p].root # 0 => call[p].root \in Index
               /\ call[p].previous # 0 => call[p].previous \in Index
PastOK == /\ past \in [damaged: SUBSET (Nat \X Object), moved: SUBSET Nat,
                       strayed: SUBSET Nat, exchanges: Nat]
          /\ IsFiniteSet(past.damaged)

TypeOK ==
  /\ RootsOK /\ RequestOK /\ CallOK /\ PastOK
  /\ backups \in [Destination -> BackupRecord]
  /\ previous \subseteq Index

-----------------------------------------------------------------------------
\* The operators of the model

LEMMA RefsType ==
  ASSUME NEW facts \in SUBSET Fact
  PROVE  Refs(facts) \in SUBSET Object
  BY StateRootAssumption DEF Refs

LEMMA NoFileType == NoId \in Id /\ NoFile \in File /\ NoFile.id = NoId /\ NoFile.whole = FALSE
  BY DEF NoId, Id, NoFile, File

LEMMA StampType ==
  ASSUME PastOK, NEW i \in Nat
  PROVE  /\ Cardinality(past.damaged) \in Nat
         /\ Stamp(i) \in Id /\ Stamp(i) # NoId
         /\ Stamp(i)[1] = i /\ Stamp(i)[2] = Cardinality(past.damaged) + 1
  <1>1. Cardinality(past.damaged) \in Nat BY FS_CardinalityType DEF PastOK
  <1> QED BY <1>1 DEF Stamp, Id, NoId

LEMMA FilesOfType ==
  ASSUME PastOK, NEW i \in Nat, NEW objects \in SUBSET Object
  PROVE  FilesOf(objects, i) \in [Object -> File]
  BY StampType, NoFileType DEF FilesOf, File

LEMMA FilesType == RootsOK => Files \in [Object -> File]
  <1> SUFFICES ASSUME RootsOK PROVE Files \in [Object -> File] OBVIOUS
  <1>1. CASE target = 0 BY <1>1, NoFileType DEF Files
  <1>2. CASE target # 0
    <2>1. roots[target] \in RootRecord BY <1>2 DEF RootsOK, Index
    <2> QED BY <1>2, <2>1 DEF Files, RootRecord
  <1> QED BY <1>1, <1>2

LEMMA EmptyTypes == /\ NoRows \in [Object -> Id] /\ EmptyRoot \in RootRecord
                    /\ NoBackup \in BackupRecord /\ NoRequest \in RequestRecord
                    /\ NoCall \in CallRecord
  <1>1. NoRows \in [Object -> Id] BY NoFileType DEF NoRows
  <1>2. EmptyRoot \in RootRecord BY <1>1, NoFileType DEF EmptyRoot, Root, RootRecord
  <1>3. NoBackup \in BackupRecord BY NoFileType DEF NoBackup, BackupRecord
  <1>4. NoRequest \in RequestRecord BY <1>1 DEF NoRequest, RequestRecord
  <1>5. NoCall \in CallRecord BY <1>3 DEF NoCall, CallRecord, CallPc
  <1> QED BY <1>1, <1>2, <1>3, <1>4, <1>5

LEMMA RealizedType ==
  ASSUME TypeOK, NEW b \in BackupRecord
  PROVE  Realized(b) \in RootRecord /\ Realized(b).born = b.facts
  <1> DEFINE i == Len(roots) + 1
  <1>1. i \in Nat BY DEF TypeOK, RootsOK
  <1>2. b.facts \in SUBSET Fact BY DEF BackupRecord
  <1>3. FilesOf(Refs(b.facts), i) \in [Object -> File]
    BY <1>1, <1>2, RefsType, FilesOfType DEF TypeOK
  <1>4. [o \in Object |-> IF o \in Refs(b.facts) \cap Startup THEN Stamp(i) ELSE NoId]
          \in [Object -> Id]
    BY <1>1, StampType, NoFileType DEF TypeOK
  <1> QED BY <1>2, <1>3, <1>4 DEF Realized, Root, RootRecord

\* Changing one root, or adding one.
LEMMA RootsChange ==
  ASSUME NEW s \in Seq(RootRecord), NEW i \in 1..Len(s), NEW x \in RootRecord,
         NEW t, t = [s EXCEPT ![i] = x]
  PROVE  /\ t \in Seq(RootRecord) /\ Len(t) = Len(s) /\ t[i] = x
         /\ \A j \in 1..Len(s) : j # i => t[j] = s[j]
  <1>1. s \in [1..Len(s) -> RootRecord] /\ Len(s) \in Nat OBVIOUS
  <1>2. t \in [1..Len(s) -> RootRecord] BY <1>1
  <1>3. t \in Seq(RootRecord) /\ Len(t) = Len(s)
    BY <1>1, <1>2 
  <1> QED BY <1>1, <1>3

LEMMA RootsAppend ==
  ASSUME NEW s \in Seq(RootRecord), NEW x \in RootRecord, NEW t, t = Append(s, x)
  PROVE  /\ t \in Seq(RootRecord) /\ Len(t) = Len(s) + 1 /\ t[Len(s) + 1] = x
         /\ Len(s) \in Nat
         /\ \A j \in 1..Len(s) : t[j] = s[j]
  OBVIOUS

-----------------------------------------------------------------------------
\* What the steps that change roots do to them.

ChangesRoot(i, x) ==
  /\ i \in Index /\ x \in RootRecord
  /\ roots' \in Seq(RootRecord) /\ Len(roots') = Len(roots) /\ roots'[i] = x
  /\ \A j \in Index : j # i => roots'[j] = roots[j]
AddsRoot(x) ==
  /\ x \in RootRecord
  /\ roots' \in Seq(RootRecord) /\ Len(roots') = Len(roots) + 1
  /\ Len(roots) \in Nat /\ roots'[Len(roots) + 1] = x
  /\ \A j \in Index : roots'[j] = roots[j]

LEMMA RecordEffect ==
  ASSUME TypeOK, NEW f \in Fact, RecordValidations(f)
  PROVE  LET i == request[f].conn
         IN  ChangesRoot(i, [roots[i] EXCEPT !.cached = Recorded(@, request[f].verified)])
  <1> DEFINE i == request[f].conn
  <1>1. i \in Index /\ request[f].verified \in [Object -> Id]
    BY DEF TypeOK, RequestOK, RecordValidations, Open, RequestAt, RequestRecord
  <1>2. roots \in Seq(RootRecord) /\ roots[i] \in RootRecord
    BY <1>1 DEF TypeOK, RootsOK, Index
  <1>3. ASSUME NEW x, x = [roots[i] EXCEPT !.cached = Recorded(@, request[f].verified)]
        PROVE  ChangesRoot(i, x)
    <2>1. Recorded(roots[i].cached, request[f].verified) \in [Object -> Id]
      BY <1>1, <1>2 DEF Recorded, RootRecord
    <2>2. x \in RootRecord BY <1>2, <1>3, <2>1 DEF RootRecord
    <2>3. roots' = [roots EXCEPT ![i] = x] BY <1>3 DEF RecordValidations
    <2> QED BY <1>1, <1>2, <2>2, <2>3, RootsChange DEF ChangesRoot, Index
  <1> QED BY <1>3

LEMMA PutEffect ==
  ASSUME TypeOK, NEW f \in Fact, Put(f), roots' # roots
  PROVE  LET file == [whole |-> TRUE, id |-> Stamp(target)]
         IN  /\ target # 0 /\ ~Present(Files[ObjectOf[f]])
             /\ ChangesRoot(target,
                  [roots[target] EXCEPT !.files = [@ EXCEPT ![ObjectOf[f]] = file]])
  <1> DEFINE file == [whole |-> TRUE, id |-> Stamp(target)]
             o == ObjectOf[f]
  <1>1. /\ target # 0 /\ ~Present(Files[o])
        /\ roots' = [roots EXCEPT ![target].files[o] = file]
    BY DEF Put
  <1>2. target \in Index /\ roots \in Seq(RootRecord) /\ roots[target] \in RootRecord
    BY <1>1 DEF TypeOK, RootsOK, Index
  <1>3. file \in File BY StampType DEF TypeOK, RootsOK, File
  <1>4. ASSUME NEW x, x = [roots[target] EXCEPT !.files = [@ EXCEPT ![o] = file]]
        PROVE  ChangesRoot(target, x)
    <2>1. x \in RootRecord BY <1>2, <1>3, <1>4 DEF RootRecord
    <2>2. roots' = [roots EXCEPT ![target] = x] BY <1>1, <1>4
    <2> QED BY <1>2, <2>1, <2>2, RootsChange DEF ChangesRoot, Index
  <1> QED BY <1>1, <1>4

LEMMA CommitEffect ==
  ASSUME TypeOK, NEW f \in Fact, Commit(f)
  PROVE  LET i == request[f].conn
         IN  ChangesRoot(i, [roots[i] EXCEPT !.facts = @ \cup {f}])
  <1> DEFINE i == request[f].conn
  <1>1. i \in Index BY DEF TypeOK, RequestOK, Commit, Open, RequestAt
  <1>2. roots \in Seq(RootRecord) /\ roots[i] \in RootRecord
    BY <1>1 DEF TypeOK, RootsOK, Index
  <1>3. ASSUME NEW x, x = [roots[i] EXCEPT !.facts = @ \cup {f}]
        PROVE  ChangesRoot(i, x)
    <2>1. x \in RootRecord BY <1>2, <1>3 DEF RootRecord
    <2>2. roots' = [roots EXCEPT ![i] = x] BY <1>3 DEF Commit
    <2> QED BY <1>1, <1>2, <2>1, <2>2, RootsChange DEF ChangesRoot, Index
  <1> QED BY <1>3

LEMMA DamageEffect ==
  ASSUME TypeOK, NEW o \in Object, Damage(o)
  PROVE  /\ target # 0 /\ Present(Files[o]) /\ <<target, o>> \notin past.damaged
         /\ past' = [past EXCEPT !.damaged = @ \cup {<<target, o>>}]
         /\ \E file \in {NoFile, [whole |-> FALSE,
                                  id |-> <<target, Cardinality(past.damaged) + 2>>]} :
              ChangesRoot(target, [roots[target] EXCEPT !.files = [@ EXCEPT ![o] = file]])
  <1>1. Present(Files[o]) /\ <<target, o>> \notin past.damaged
        /\ past' = [past EXCEPT !.damaged = @ \cup {<<target, o>>}]
    BY DEF Damage
  <1>2. target # 0 BY <1>1, NoFileType DEF Files, Present
  <1>3. target \in Index /\ roots \in Seq(RootRecord) /\ roots[target] \in RootRecord
    BY <1>2 DEF TypeOK, RootsOK, Index
  <1>4. PICK file \in {NoFile, [whole |-> FALSE,
                                id |-> <<target, Cardinality(past.damaged) + 2>>]} :
          roots' = [roots EXCEPT ![target].files[o] = file]
    BY DEF Damage
  <1>5. file \in File
    <2>1. target \in Nat /\ Cardinality(past.damaged) \in Nat
      BY StampType DEF TypeOK, RootsOK
    <2>2. <<target, Cardinality(past.damaged) + 2>> \in Id BY <2>1 DEF Id
    <2>3. [whole |-> FALSE, id |-> <<target, Cardinality(past.damaged) + 2>>] \in File
      BY <2>2 DEF File
    <2> QED BY <1>4, <2>3, NoFileType
  <1>6. ASSUME NEW x, x = [roots[target] EXCEPT !.files = [@ EXCEPT ![o] = file]]
        PROVE  ChangesRoot(target, x)
    <2>1. x \in RootRecord BY <1>3, <1>5, <1>6 DEF RootRecord
    <2>2. roots' = [roots EXCEPT ![target] = x] BY <1>4, <1>6
    <2> QED BY <1>3, <2>1, <2>2, RootsChange DEF ChangesRoot, Index
  <1> QED BY <1>1, <1>2, <1>4, <1>6

LEMMA OpenRootEffect ==
  ASSUME TypeOK, OpenRoot
  PROVE  /\ target' # 0 /\ target' = Opened
         /\ target # 0 => roots' = roots /\ target' = target
         /\ target = 0 => AddsRoot(EmptyRoot) /\ target' = Len(roots) + 1
  <1>1. Len(roots) \in Nat /\ roots \in Seq(RootRecord) BY DEF TypeOK, RootsOK
  <1>2. target' # 0 /\ target' = Opened BY <1>1 DEF OpenRoot, Opened
  <1>3. CASE target = 0
    <2>1. roots' = Append(roots, EmptyRoot) /\ target' = Len(roots) + 1
      BY <1>3 DEF OpenRoot, Opened
    <2> QED BY <1>1, <1>2, <1>3, <2>1, EmptyTypes, RootsAppend DEF AddsRoot, Index
  <1>4. CASE target # 0 BY <1>2, <1>4 DEF OpenRoot, Opened
  <1> QED BY <1>2, <1>3, <1>4

LEMMA RealizeEffect ==
  ASSUME TypeOK, NEW p \in Operator, Realize(p)
  PROVE  AddsRoot(Realized(call[p].copy))
  <1>1. call[p].copy \in BackupRecord BY DEF TypeOK, CallOK, CallRecord
  <1>2. Realized(call[p].copy) \in RootRecord BY <1>1, RealizedType
  <1> QED BY <1>2, RootsAppend DEF Realize, AddsRoot, TypeOK, RootsOK, Index

-----------------------------------------------------------------------------
\* Types

\* No root disappears: an index stays one.
LEMMA IndexGrows ==
  ASSUME TypeOK,
         \/ roots' = roots
         \/ \E i \in Index, x \in RootRecord : ChangesRoot(i, x)
         \/ \E x \in RootRecord : AddsRoot(x)
  PROVE  /\ roots' \in Seq(RootRecord) /\ Index \subseteq Index' /\ Len(roots) \in Nat
         /\ Len(roots') \in Nat
  BY DEF TypeOK, RootsOK, Index, ChangesRoot, AddsRoot

\* A step of request f.
LEMMA RequestTypes ==
  ASSUME TypeOK, NEW f \in Fact, NEW c \in RequestRecord,
         request' = [request EXCEPT ![f] = c],
         c.pc \in {"validate", "put", "commit"} => c.conn \in Index',
         Index \subseteq Index'
  PROVE  RequestOK'
  BY DEF TypeOK, RequestOK, Open

\* A step of operator p.
LEMMA CallTypes ==
  ASSUME TypeOK, NEW p \in Operator, NEW c \in CallRecord,
         call' = [call EXCEPT ![p] = c], c.pc # "idle", c.dest \in Destination,
         c.root # 0 => c.root \in Index', c.previous # 0 => c.previous \in Index',
         Index \subseteq Index'
  PROVE  CallOK'
  BY DEF TypeOK, CallOK, CallAt

LEMMA RequestsKeepTypes ==
  ASSUME TypeOK, NEW f \in Fact, Serve(f)
  PROVE  TypeOK'
  <1>0. request[f] \in RequestRecord /\ Len(roots) \in Nat
        /\ (Open(f) => request[f].conn \in Index)
    BY DEF TypeOK, RequestOK, RootsOK
  <1>1. CASE Connect(f)
    <2> DEFINE journal == IF target = 0 THEN EmptyRoot ELSE roots[target]
    <2>1. /\ target' \in Index' /\ target' = Opened /\ roots' \in Seq(RootRecord)
          /\ target' # 0 /\ Index \subseteq Index' /\ target' \in Nat
      BY <1>0, <1>1, OpenRootEffect DEF Connect, AddsRoot, Index, TypeOK, RootsOK
    <2>2. journal \in RootRecord
      BY EmptyTypes DEF TypeOK, RootsOK, Index
    <2>3. ASSUME NEW c, c = [pc |-> "validate", conn |-> Opened,
                             todo |-> Refs(journal.facts) \cap Startup,
                             rows |-> journal.cached, verified |-> NoRows]
          PROVE  RequestOK'
      <3>1. c \in RequestRecord
        BY <2>1, <2>2, <2>3, RefsType, EmptyTypes DEF RootRecord, RequestRecord
      <3> QED BY <1>1, <2>1, <2>3, <3>1, RequestTypes DEF Connect
    <2>4. RequestOK' BY <2>3
    <2> QED BY <1>1, <2>1, <2>4 DEF Connect, TypeOK, RootsOK, CallOK, CallAt, PastOK
  <1>2. CASE ValidateObject(f) \/ (Put(f) /\ roots' = roots) \/ CommitFails(f)
    <2>1. PICK c \in RequestRecord :
            /\ request' = [request EXCEPT ![f] = c]
            /\ c.pc \in {"validate", "put", "commit"} => c.conn \in Index
      <3>1. CASE EndRequest(f)
        BY <3>1, EmptyTypes DEF EndRequest, NoRequest
      <3>2. CASE ValidateObject(f) /\ ~EndRequest(f)
        <4>1. PICK o \in request[f].todo :
                \/ request' = [request EXCEPT ![f].todo = @ \ {o}]
                \/ request' = [request EXCEPT ![f].todo = @ \ {o},
                                              ![f].verified[o] = Files[o].id]
          BY <3>2 DEF ValidateObject
        <4>2. o \in Object /\ Files[o].id \in Id
          BY <1>0, <4>1, FilesType DEF RequestRecord, TypeOK, File
        <4>3. Open(f) BY <3>2 DEF ValidateObject, RequestAt, Open
        <4>4. CASE request' = [request EXCEPT ![f].todo = @ \ {o}]
          <5> DEFINE c == [request[f] EXCEPT !.todo = @ \ {o}]
          <5>1. c \in RequestRecord /\ c.conn = request[f].conn
            BY <1>0 DEF RequestRecord
          <5>2. request' = [request EXCEPT ![f] = c] BY <4>4
          <5> QED BY <1>0, <4>3, <5>1, <5>2
        <4>5. CASE request' = [request EXCEPT ![f].todo = @ \ {o},
                                              ![f].verified[o] = Files[o].id]
          <5> DEFINE c == [request[f] EXCEPT !.todo = @ \ {o},
                                             !.verified = [@ EXCEPT ![o] = Files[o].id]]
          <5>1. c \in RequestRecord /\ c.conn = request[f].conn
            BY <1>0, <4>2 DEF RequestRecord
          <5>2. request' = [request EXCEPT ![f] = c]
            BY <1>0, <4>2, <4>5 DEF RequestRecord, TypeOK, RequestOK
          <5> QED BY <1>0, <4>3, <5>1, <5>2
        <4> QED BY <4>1, <4>4, <4>5
      <3>3. CASE Put(f) /\ RequestGoto(f, "commit")
        <4> DEFINE c == [request[f] EXCEPT !.pc = "commit"]
        <4>1. request' = [request EXCEPT ![f] = c] BY <3>3 DEF RequestGoto
        <4>2. Open(f) BY <3>3 DEF Put, RequestAt, Open
        <4>3. c \in RequestRecord /\ c.conn = request[f].conn
          BY <1>0 DEF RequestRecord
        <4> QED BY <1>0, <4>1, <4>2, <4>3
      <3> QED BY <1>2, <3>1, <3>2, <3>3 DEF Put, CommitFails
    <2>2. UNCHANGED <<roots, target, previous, backups, call, past>>
      BY <1>2 DEF ValidateObject, Put, CommitFails
    <2>3. RequestOK' BY <2>1, <2>2, RequestTypes DEF Index
    <2> QED BY <2>2, <2>3 DEF TypeOK, RootsOK, Index, CallOK, CallAt, PastOK
  <1>3. CASE RecordValidations(f) \/ (Put(f) /\ roots' # roots) \/ Commit(f)
    <2>1. PICK pc \in {"put", "commit", "committed"} : RequestGoto(f, pc)
      BY <1>3 DEF RecordValidations, Put, Commit
    <2>2. \E i \in Index, x \in RootRecord : ChangesRoot(i, x)
      BY <1>3, RecordEffect, PutEffect, CommitEffect DEF ChangesRoot
    <2>3. /\ roots' \in Seq(RootRecord) /\ Index \subseteq Index'
      BY <2>2, IndexGrows
    <2>4. UNCHANGED <<target, previous, backups, call, past>> /\ Open(f)
      BY <1>3 DEF RecordValidations, Put, Commit, RequestAt, Open
    <2>5. [request[f] EXCEPT !.pc = pc] \in RequestRecord
          /\ [request[f] EXCEPT !.pc = pc].conn = request[f].conn
      BY <1>0, <2>1 DEF RequestRecord
    <2>6. request' = [request EXCEPT ![f] = [request[f] EXCEPT !.pc = pc]]
      BY <2>1 DEF RequestGoto
    <2>7. RequestOK' BY <1>0, <2>3, <2>4, <2>5, <2>6, RequestTypes
    <2>8. RootsOK' BY <2>3, <2>4 DEF TypeOK, RootsOK
    <2>9. CallOK' BY <2>3, <2>4 DEF TypeOK, CallOK, CallAt
    <2>10. PastOK' BY <2>4 DEF TypeOK, PastOK
    <2> QED BY <2>3, <2>4, <2>7, <2>8, <2>9, <2>10 DEF TypeOK
  <1> QED BY <1>1, <1>2, <1>3 DEF Serve

LEMMA GotoTypes ==
  ASSUME TypeOK, NEW p \in Operator, NEW pc \in CallPc, pc # "idle", CallGoto(p, pc),
         ~CallAt(p, "idle"), Index \subseteq Index'
  PROVE  CallOK'
  <1> DEFINE c == [call[p] EXCEPT !.pc = pc]
  <1>1. call[p] \in CallRecord BY DEF TypeOK, CallOK
  <1>2. /\ c \in CallRecord /\ c.pc = pc /\ c.dest = call[p].dest
        /\ c.root = call[p].root /\ c.previous = call[p].previous
    BY <1>1 DEF CallRecord
  <1>3. call' = [call EXCEPT ![p] = c] BY DEF CallGoto
  <1>4. ASSUME NEW d, d = c PROVE CallOK'
    BY <1>2, <1>3, <1>4, CallTypes DEF TypeOK, CallOK
  <1> QED BY <1>4

\* The roots and requests stay: only calls and backups change.
LEMMA OthersKeepTypes ==
  ASSUME TypeOK, CallOK', backups' \in [Destination -> BackupRecord],
         UNCHANGED <<roots, target, previous, request, past>>
  PROVE  TypeOK'
  BY DEF TypeOK, RootsOK, RequestOK, PastOK, Index, Open

LEMMA BackupsKeepTypes ==
  ASSUME TypeOK, NEW p \in Operator, TakeBackup(p)
  PROVE  TypeOK'
  <1>0. /\ call[p] \in CallRecord /\ Len(roots) \in Nat /\ 0 \notin Index
        /\ ~CallAt(p, "idle") => call[p].dest \in Destination
        /\ call[p].root # 0 => call[p].root \in Index
        /\ call[p].previous # 0 => call[p].previous \in Index
    BY DEF TypeOK, CallOK, RootsOK, Index
  <1>1. ASSUME NEW d \in Destination, BeginBackup(p, d) PROVE TypeOK'
    <2> DEFINE c == [NoCall EXCEPT !.pc = "snapshot", !.kind = "backup", !.dest = d]
    <2>1. ASSUME NEW x, x = c PROVE CallOK'
      <3>1. /\ x \in CallRecord /\ x.pc = "snapshot" /\ x.dest = d
            /\ x.root = 0 /\ x.previous = 0
        BY <2>1, EmptyTypes DEF NoCall, CallRecord, CallPc
      <3> QED BY <1>1, <2>1, <3>1, CallTypes DEF BeginBackup, CallBecomes, Index
    <2>2. CallOK' BY <2>1
    <2> QED BY <1>1, <2>2, OthersKeepTypes DEF BeginBackup, TypeOK
  <1>2. CASE Snapshot(p)
    <2> DEFINE facts == IF target = 0 THEN {} ELSE roots[target].facts
               c == [call[p] EXCEPT !.pc = "copy", !.conn = Opened,
                       !.refs = Refs(facts), !.todo = Refs(facts),
                       !.copy = Backup(facts, NoBackup.files)]
    <2>1. /\ target' \in Index' /\ target' = Opened /\ roots' \in Seq(RootRecord)
          /\ Index \subseteq Index' /\ target' \in Nat
      BY <1>0, <1>2, OpenRootEffect DEF Snapshot, AddsRoot, Index, TypeOK, RootsOK
    <2>2. facts \in SUBSET Fact
      <3>1. target # 0 => roots[target] \in RootRecord BY DEF TypeOK, RootsOK, Index
      <3> QED BY <3>1 DEF RootRecord
    <2>3. Backup(facts, NoBackup.files) \in BackupRecord
      BY <2>2, EmptyTypes DEF Backup, BackupRecord
    <2>4. Refs(facts) \in SUBSET Object BY <2>2, RefsType
    <2>5. c \in CallRecord
      BY <1>0, <2>1, <2>3, <2>4 DEF CallRecord, CallPc
    <2>6. /\ c.pc = "copy" /\ c.dest = call[p].dest
          /\ c.root = call[p].root /\ c.previous = call[p].previous
      BY <1>0 DEF CallRecord
    <2>7. ~CallAt(p, "idle") /\ call' = [call EXCEPT ![p] = c]
      BY <1>2 DEF Snapshot, CallAt, CallBecomes
    <2>8. ASSUME NEW x, x = c PROVE CallOK'
      BY <1>0, <2>1, <2>5, <2>6, <2>7, <2>8, CallTypes
    <2>9. CallOK' /\ RootsOK' BY <2>1, <2>8 DEF RootsOK
    <2>10. RequestOK' /\ PastOK'
      BY <1>2, <2>1 DEF TypeOK, RequestOK, Open, PastOK, Snapshot
    <2> QED BY <1>2, <2>1, <2>9, <2>10 DEF TypeOK, Snapshot
  <1>3. ASSUME NEW o \in call[p].todo, CallAt(p, "copy"),
               call' = [call EXCEPT ![p].todo = @ \ {o}, ![p].copy.files[o] = Files[o]],
               UNCHANGED <<roots, target, previous, backups, request, faults, past>>
        PROVE  TypeOK'
    <2> DEFINE files == [call[p].copy.files EXCEPT ![o] = Files[o]]
               todo == call[p].todo \ {o}
    <2>1. o \in Object /\ Files[o] \in File
      BY <1>0, <1>3, FilesType DEF CallRecord, TypeOK
    <2>2. files \in [Object -> File] BY <1>0, <2>1 DEF CallRecord, BackupRecord
    <2>3. call' = [call EXCEPT ![p].todo = todo, ![p].copy.files = files]
      BY <1>0, <1>3 DEF CallRecord, BackupRecord, TypeOK, CallOK
    <2>4. todo \in SUBSET Object BY <1>0 DEF CallRecord
    <2>5. ASSUME NEW g \in [Object -> File], NEW t \in SUBSET Object,
                 NEW b, b = [call[p].copy EXCEPT !.files = g],
                 NEW c, c = [call[p] EXCEPT !.todo = t, !.copy = b],
                 call' = [call EXCEPT ![p].todo = t, ![p].copy.files = g]
          PROVE  CallOK'
      <3>1. call[p].copy \in BackupRecord BY <1>0 DEF CallRecord
      <3>2. b \in BackupRecord BY <2>5, <3>1 DEF BackupRecord
      <3>3. /\ c \in CallRecord /\ c.pc = call[p].pc /\ c.dest = call[p].dest
            /\ c.root = call[p].root /\ c.previous = call[p].previous
        BY <1>0, <2>5, <3>2 DEF CallRecord
      <3>4. call' = [call EXCEPT ![p] = c]
        BY <1>0, <2>5 DEF CallRecord, TypeOK, CallOK
      <3> QED BY <1>0, <1>3, <3>3, <3>4, CallTypes DEF CallAt, Index
    <2>6. CallOK' BY <2>2, <2>3, <2>4, <2>5
    <2> QED BY <1>3, <2>6, OthersKeepTypes DEF TypeOK
  <1>4. ASSUME NEW pc \in CallPc, pc # "idle", CallGoto(p, pc), ~CallAt(p, "idle"),
               UNCHANGED <<roots, target, previous, request, past>>,
               backups' \in [Destination -> BackupRecord]
        PROVE  TypeOK'
    BY <1>4, GotoTypes, OthersKeepTypes DEF Index
  <1>5. CASE CopyObject(p)
    BY <1>3, <1>4, <1>5 DEF CopyObject, CallAt, CallPc, TypeOK
  <1>6. CASE VerifyCopy(p)
    BY <1>4, <1>6 DEF VerifyCopy, CallAt, CallPc, TypeOK
  <1>7. CASE Publish(p)
    <2>1. backups' \in [Destination -> BackupRecord]
      BY <1>0, <1>7 DEF Publish, TypeOK, CallRecord
    <2> QED BY <1>4, <1>7, <2>1 DEF Publish, CallAt, CallPc
  <1> QED BY <1>1, <1>2, <1>5, <1>6, <1>7 DEF TakeBackup

LEMMA RestoresKeepTypes ==
  ASSUME TypeOK, NEW p \in Operator, Restore(p)
  PROVE  TypeOK'
  <1>0. /\ call[p] \in CallRecord /\ Len(roots) \in Nat /\ 0 \notin Index
        /\ ~CallAt(p, "idle") => call[p].dest \in Destination
        /\ call[p].root # 0 => call[p].root \in Index
        /\ call[p].previous # 0 => call[p].previous \in Index
        /\ target \in Nat /\ (target # 0 => target \in Index)
    BY DEF TypeOK, CallOK, RootsOK, Index
  <1>1. ASSUME NEW c \in CallRecord, call' = [call EXCEPT ![p] = c], c.pc # "idle",
               c.dest \in Destination, c.root = 0 \/ c.root = call[p].root,
               c.previous = 0 \/ c.previous = call[p].previous,
               UNCHANGED <<roots, target, previous, backups, request, past>>
        PROVE  TypeOK'
    <2>1. CallOK' BY <1>0, <1>1, CallTypes DEF Index
    <2> QED BY <1>1, <2>1, OthersKeepTypes DEF TypeOK
  <1>2. ASSUME NEW d \in Destination, NEW replace \in BOOLEAN, BeginRestore(p, d, replace)
        PROVE  TypeOK'
    <2> DEFINE c == [NoCall EXCEPT !.pc = "stage_journal", !.kind = "restore",
                       !.dest = d, !.replace = replace, !.found = target]
    <2>1. ASSUME NEW x, x = c PROVE TypeOK'
      <3>1. /\ x \in CallRecord /\ x.pc = "stage_journal" /\ x.dest = d
            /\ x.root = 0 /\ x.previous = 0
        BY <1>0, <2>1, EmptyTypes DEF NoCall, CallRecord, CallPc
      <3> QED BY <1>1, <1>2, <2>1, <3>1 DEF BeginRestore, CallBecomes
    <2> QED BY <2>1
  <1>3. CASE StageJournal(p)
    <2> DEFINE given == backups[call[p].dest]
               c == [call[p] EXCEPT !.pc = "stage_objects", !.refs = Refs(given.facts),
                       !.copy = [NoBackup EXCEPT !.facts = given.facts]]
    <2>1. given \in BackupRecord /\ call[p].dest \in Destination
      BY <1>0, <1>3 DEF StageJournal, CallAt, TypeOK
    <2>2. given.facts \in SUBSET Fact BY <2>1 DEF BackupRecord
    <2>3. Refs(given.facts) \in SUBSET Object BY <2>2, RefsType
    <2>4. [NoBackup EXCEPT !.facts = given.facts] \in BackupRecord
      BY <2>2, EmptyTypes DEF BackupRecord
    <2>5. /\ c \in CallRecord /\ c.pc = "stage_objects" /\ c.dest = call[p].dest
          /\ c.root = call[p].root /\ c.previous = call[p].previous
      BY <1>0, <2>3, <2>4 DEF CallRecord, CallPc
    <2>6. call' = [call EXCEPT ![p] = c] BY <1>3 DEF StageJournal
    <2>7. ASSUME NEW x, x = c PROVE TypeOK'
      BY <1>1, <1>3, <2>1, <2>5, <2>6, <2>7 DEF StageJournal
    <2> QED BY <2>7
  <1>4. ASSUME NEW pc \in CallPc, pc # "idle", NEW b \in BackupRecord, ~CallAt(p, "idle"),
               call' = [call EXCEPT ![p].pc = pc, ![p].copy = b],
               UNCHANGED <<roots, target, previous, backups, request, past>>
        PROVE  TypeOK'
    <2> DEFINE c == [call[p] EXCEPT !.pc = pc, !.copy = b]
    <2>1. /\ c \in CallRecord /\ c.pc = pc /\ c.dest = call[p].dest
          /\ c.root = call[p].root /\ c.previous = call[p].previous
      BY <1>0, <1>4 DEF CallRecord
    <2>2. call' = [call EXCEPT ![p] = c] BY <1>4 DEF TypeOK, CallOK
    <2>3. ASSUME NEW x, x = c PROVE TypeOK' BY <1>0, <1>1, <1>4, <2>1, <2>2, <2>3
    <2> QED BY <2>3
  <1>5. ASSUME NEW pc \in CallPc, pc # "idle", CallGoto(p, pc), ~CallAt(p, "idle"),
               UNCHANGED <<roots, request, past, backups>>, target' \in Nat,
               target' # 0 => target' \in Index, previous' \subseteq Index
        PROVE  TypeOK'
    <2>1. CallOK' BY <1>5, GotoTypes DEF Index
    <2> QED BY <1>5, <2>1 DEF TypeOK, RootsOK, RequestOK, PastOK, Index, Open
  <1>6. CASE StageObjects(p)
    <2> DEFINE given == backups[call[p].dest]
    <2>1. ~CallAt(p, "idle") BY <1>6 DEF StageObjects, CallAt
    <2>2. CASE CallGoto(p, "cleanup")
      BY <1>0, <1>5, <1>6, <2>1, <2>2 DEF StageObjects, CallPc, TypeOK
    <2>3. CASE call' = [call EXCEPT ![p].pc = "verify", ![p].copy.files = given.files]
      <3> DEFINE b == [call[p].copy EXCEPT !.files = given.files]
      <3>1. given \in BackupRecord BY <1>0, <2>1 DEF TypeOK
      <3>2. b \in BackupRecord BY <1>0, <3>1 DEF CallRecord, BackupRecord
      <3>3. call' = [call EXCEPT ![p].pc = "verify", ![p].copy = b]
        BY <1>0, <2>3 DEF CallRecord, TypeOK, CallOK
      <3>4. ASSUME NEW x, x = b PROVE TypeOK'
        BY <1>4, <1>6, <2>1, <3>2, <3>3, <3>4 DEF StageObjects, CallPc
      <3> QED BY <3>4
    <2> QED BY <1>6, <2>2, <2>3 DEF StageObjects
  <1>7. CASE VerifyStaged(p)
    <2> DEFINE b == [call[p].copy EXCEPT !.manifest = backups[call[p].dest].manifest]
               pc == IF Verified(b) /\ (target = 0 \/ call[p].replace)
                     THEN "realize" ELSE "cleanup"
    <2>1. ~CallAt(p, "idle") BY <1>7 DEF VerifyStaged, CallAt
    <2>2. backups[call[p].dest] \in BackupRecord BY <1>0, <2>1 DEF TypeOK
    <2>3. b \in BackupRecord BY <1>0, <2>2 DEF CallRecord, BackupRecord
    <2>4. call' = [call EXCEPT ![p].pc = pc, ![p].copy = b]
      BY <1>0, <1>7 DEF VerifyStaged, CallRecord, TypeOK, CallOK
    <2>5. ASSUME NEW x, x = b, NEW y, y = pc PROVE TypeOK'
      <3>1. y \in CallPc /\ y # "idle" BY <2>5 DEF CallPc
      <3> QED BY <1>4, <1>7, <2>1, <2>3, <2>4, <2>5, <3>1 DEF VerifyStaged
    <2> QED BY <2>5
  <1>8. CASE Realize(p)
    <2> DEFINE c == [call[p] EXCEPT !.pc = "aside", !.root = Len(roots) + 1]
    <2>1. AddsRoot(Realized(call[p].copy)) BY <1>8, RealizeEffect
    <2>2. /\ roots' \in Seq(RootRecord) /\ Index \subseteq Index'
          /\ Len(roots) + 1 \in Index'
      BY <1>0, <2>1 DEF AddsRoot, Index
    <2>3. ~CallAt(p, "idle") /\ call' = [call EXCEPT ![p] = c]
      BY <1>8 DEF Realize, CallAt, TypeOK, CallOK
    <2>4. ASSUME NEW i \in Nat, i = Len(roots) + 1,
                 NEW x, x = [call[p] EXCEPT !.pc = "aside", !.root = i]
          PROVE  CallOK'
      <3>1. /\ x \in CallRecord /\ x.pc = "aside" /\ x.dest = call[p].dest
            /\ x.root = i /\ x.previous = call[p].previous
        BY <1>0, <2>4 DEF CallRecord, CallPc
      <3> QED BY <1>0, <2>2, <2>3, <2>4, <3>1, CallTypes
    <2>5. Len(roots) + 1 \in Nat BY <1>0
    <2>6. CallOK' BY <2>4, <2>5
    <2>7. UNCHANGED <<target, previous, backups, request, past>> BY <1>8 DEF Realize
    <2>8. RootsOK' BY <1>0, <2>2, <2>7 DEF RootsOK
    <2>9. RequestOK' /\ PastOK' BY <2>2, <2>7 DEF TypeOK, RequestOK, Open, PastOK
    <2> QED BY <2>2, <2>6, <2>7, <2>8, <2>9 DEF TypeOK
  <1>9. CASE MoveAside(p)
    <2>1. ~CallAt(p, "idle") BY <1>9 DEF MoveAside, CallAt
    <2>2. CASE CallGoto(p, "install") /\ UNCHANGED <<target, previous, past>>
      BY <1>0, <1>5, <1>9, <2>1, <2>2 DEF MoveAside, CallPc, TypeOK
    <2>3. CASE target # 0 /\ ~UNCHANGED <<target, previous, past>>
      <3> DEFINE c == [call[p] EXCEPT !.pc = "install", !.previous = target]
      <3>1. /\ previous' = previous \cup {target} /\ target' = 0
            /\ call' = [call EXCEPT ![p].pc = "install", ![p].previous = target]
            /\ past' = [past EXCEPT !.moved = @ \cup {target},
                         !.strayed = @ \cup {i \in {target} :
                            \E f \in Fact : Open(f) /\ request[f].conn = i}]
            /\ UNCHANGED <<roots, backups, request>>
        BY <1>9, <2>3 DEF MoveAside
      <3>2. /\ c \in CallRecord /\ c.pc = "install" /\ c.dest = call[p].dest
            /\ c.root = call[p].root /\ c.previous = target
        BY <1>0 DEF CallRecord, CallPc
      <3>3. call' = [call EXCEPT ![p] = c] BY <3>1 DEF TypeOK, CallOK
      <3>4. ASSUME NEW x, x = c PROVE CallOK'
        BY <1>0, <2>1, <2>3, <3>1, <3>2, <3>3, <3>4, CallTypes DEF Index
      <3>5. CallOK' BY <3>4
      <3>6. past' \in [damaged: SUBSET (Nat \X Object), moved: SUBSET Nat,
                       strayed: SUBSET Nat, exchanges: Nat]
            /\ past'.damaged = past.damaged
        BY <1>0, <3>1 DEF TypeOK, PastOK
      <3>7. PastOK' BY <3>6 DEF TypeOK, PastOK
      <3>8. RootsOK' /\ RequestOK' /\ previous' \subseteq Index'
        BY <1>0, <2>3, <3>1 DEF TypeOK, RootsOK, RequestOK, Open, Index
      <3> QED BY <3>1, <3>5, <3>7, <3>8 DEF TypeOK
    <2> QED BY <1>9, <2>2, <2>3 DEF MoveAside
  <1>10. CASE Install(p)
    <2>1. ~CallAt(p, "idle") BY <1>10 DEF Install, CallAt
    <2>2. CASE target' = target
      BY <1>0, <1>5, <1>10, <2>1, <2>2 DEF Install, CallPc, TypeOK
    <2>3. CASE target' = call[p].root
      <3>1. call[p].root \in Nat BY <1>0 DEF CallRecord
      <3> QED BY <1>0, <1>5, <1>10, <2>1, <2>3, <3>1 DEF Install, CallPc, TypeOK
    <2> QED BY <1>10, <2>2, <2>3 DEF Install
  <1>11. CASE InstallFails(p)
    BY <1>0, <1>5, <1>11 DEF InstallFails, CallAt, CallPc, TypeOK
  <1>12. CASE Cleanup(p)
    <2>1. previous' \subseteq previous /\ (target' = target \/ target' = call[p].previous)
      BY <1>12 DEF Cleanup
    <2>2. call[p].previous \in Nat BY <1>0 DEF CallRecord
    <2> QED BY <1>0, <1>5, <1>12, <2>1, <2>2 DEF Cleanup, CallAt, CallPc, TypeOK
  <1> QED BY <1>2, <1>3, <1>6, <1>7, <1>8, <1>9, <1>10, <1>11, <1>12 DEF Restore

LEMMA MachineKeepsTypes ==
  ASSUME TypeOK,
         \/ \E o \in Object : Damage(o)
         \/ \E d \in Destination, e \in Destination : Exchange(d, e)
  PROVE  TypeOK'
  <1>1. ASSUME NEW o \in Object, Damage(o) PROVE TypeOK'
    <2>1. /\ roots' \in Seq(RootRecord) /\ Index' = Index
          /\ past' = [past EXCEPT !.damaged = @ \cup {<<target, o>>}]
      BY <1>1, DamageEffect DEF ChangesRoot, Index
    <2>2. UNCHANGED <<target, previous, backups, request, call>> /\ target \in Nat
      BY <1>1 DEF Damage, TypeOK, RootsOK
    <2>3. PastOK'
      <3>1. IsFiniteSet(past.damaged \cup {<<target, o>>})
        BY FS_AddElement DEF TypeOK, PastOK
      <3>2. /\ past'.damaged = past.damaged \cup {<<target, o>>}
            /\ past' \in [damaged: SUBSET (Nat \X Object), moved: SUBSET Nat,
                          strayed: SUBSET Nat, exchanges: Nat]
        BY <2>1, <2>2 DEF TypeOK, PastOK
      <3> QED BY <3>1, <3>2 DEF PastOK
    <2>4. RootsOK' BY <2>1, <2>2 DEF TypeOK, RootsOK
    <2>5. RequestOK' /\ CallOK'
      BY <2>1, <2>2 DEF TypeOK, RequestOK, Open, CallOK, CallAt
    <2> QED BY <2>1, <2>2, <2>3, <2>4, <2>5 DEF TypeOK
  <1>2. ASSUME NEW d \in Destination, NEW e \in Destination, Exchange(d, e) PROVE TypeOK'
    <2>1. backups' \in [Destination -> BackupRecord]
      BY <1>2 DEF Exchange, TypeOK
    <2>2. past' \in [damaged: SUBSET (Nat \X Object), moved: SUBSET Nat,
                     strayed: SUBSET Nat, exchanges: Nat]
          /\ past'.damaged = past.damaged
      BY <1>2 DEF Exchange, TypeOK, PastOK
    <2>3. PastOK' BY <2>2 DEF TypeOK, PastOK
    <2>4. UNCHANGED <<roots, target, previous, request, call>> BY <1>2 DEF Exchange
    <2>5. RootsOK' /\ RequestOK' /\ CallOK' /\ previous' \subseteq Index'
      BY <2>4 DEF TypeOK, RootsOK, RequestOK, Open, CallOK, CallAt, Index
    <2> QED BY <2>1, <2>3, <2>5 DEF TypeOK
  <1> QED BY <1>1, <1>2

LEMMA InitTypes == Init => TypeOK
  <1> SUFFICES ASSUME Init PROVE TypeOK OBVIOUS
  <1> DEFINE files == [o \in Object |-> IF o \in Refs(Held)
                         THEN [whole |-> TRUE, id |-> <<1, 1>>] ELSE NoFile]
  <1>1. files \in [Object -> File] BY NoFileType DEF File, Id
  <1>2. Root(Held, files, NoRows) \in RootRecord
    BY <1>1, EmptyTypes, StateRootAssumption DEF Root, RootRecord
  <1>3. RootsOK /\ 1 \in Index
    BY <1>2 DEF Init, RootsOK, Index
  <1>4. RequestOK BY EmptyTypes DEF Init, RequestOK, NoRequest, Open
  <1>5. CallOK BY EmptyTypes DEF Init, CallOK, NoCall, CallAt
  <1>6. PastOK BY FS_EmptySet DEF Init, PastOK
  <1>7. backups \in [Destination -> BackupRecord]
    <2>1. ASSUME NEW facts \in SUBSET Held
          PROVE  Backup(facts, [o \in Object |-> IF o \in Refs(facts)
                   THEN [whole |-> TRUE, id |-> <<1, 1>>] ELSE NoFile]) \in BackupRecord
      <3> DEFINE copied == [o \in Object |-> IF o \in Refs(facts)
                              THEN [whole |-> TRUE, id |-> <<1, 1>>] ELSE NoFile]
      <3>1. copied \in [Object -> File] BY NoFileType DEF File, Id
      <3>2. facts \in SUBSET Fact BY StateRootAssumption
      <3> QED BY <3>1, <3>2 DEF Backup, BackupRecord
    <2> DEFINE S == {NoBackup} \cup {Backup(facts, [o \in Object |-> IF o \in Refs(facts)
                       THEN [whole |-> TRUE, id |-> <<1, 1>>] ELSE NoFile]) :
                       facts \in SUBSET Held}
    <2>2. S \subseteq BackupRecord BY <2>1, EmptyTypes
    <2>3. backups \in [Destination -> S] BY DEF Init
    <2> HIDE DEF S
    <2> QED BY <2>2, <2>3
  <1>8. previous \subseteq Index BY DEF Init
  <1> QED BY <1>3, <1>4, <1>5, <1>6, <1>7, <1>8 DEF TypeOK

LEMMA TypesKeep == TypeOK /\ [Next]_vars => TypeOK'
  <1> SUFFICES ASSUME TypeOK, [Next]_vars PROVE TypeOK' OBVIOUS
  <1>1. CASE UNCHANGED vars
    BY <1>1 DEF vars, TypeOK, RootsOK, RequestOK, Open, CallOK, CallAt, PastOK, Index
  <1> QED BY <1>1, RequestsKeepTypes, BackupsKeepTypes, RestoresKeepTypes,
             MachineKeepsTypes DEF Next

-----------------------------------------------------------------------------
\* Where the roots are.

Early == {"idle", "snapshot", "copy", "publish", "done",
          "stage_journal", "stage_objects", "verify", "realize"}
\* p holds a root that no path leads to yet, or one that it moved aside.
Holds(p) == call[p].pc \in {"aside", "install"}
MovedOne(p) == call[p].pc \in {"install", "cleanup"} /\ call[p].previous # 0

LocationInv ==
  /\ NoRootIsLost
  /\ AbsenceIsTransient
  /\ target \notin previous
  /\ \A p \in Operator :
       /\ call[p].pc \in Early => call[p].root = 0 /\ call[p].previous = 0
       /\ CallAt(p, "aside") => call[p].previous = 0
       /\ Holds(p) => /\ call[p].root # 0 /\ call[p].root # target
                      /\ call[p].root \notin previous
       /\ MovedOne(p) => call[p].previous \in previous
  /\ \A p, q \in Operator : p # q =>
       /\ Holds(p) /\ Holds(q) => call[p].root # call[q].root
       /\ MovedOne(p) /\ MovedOne(q) => call[p].previous # call[q].previous

\* A root that is opened for the first time.
LEMMA NewRootLocated ==
  ASSUME TypeOK, LocationInv, target = 0, target' = Len(roots) + 1,
         Len(roots') = Len(roots) + 1, UNCHANGED previous,
         \A p \in Operator : /\ call'[p].root = call[p].root
                             /\ call'[p].previous = call[p].previous
                             /\ \/ call'[p].pc = call[p].pc
                                \/ {call[p].pc, call'[p].pc} \subseteq Early
  PROVE  LocationInv'
  <1>1. Len(roots) \in Nat BY DEF TypeOK, RootsOK
  <1>2. \A p \in Operator :
          /\ call'[p].pc = "restored" <=> call[p].pc = "restored"
          /\ call'[p].pc \in Early <=> call[p].pc \in Early
          /\ call'[p].pc = "aside" <=> call[p].pc = "aside"
          /\ call'[p].pc \in {"aside", "install"} <=> call[p].pc \in {"aside", "install"}
          /\ call'[p].pc \in {"install", "cleanup"} <=> call[p].pc \in {"install", "cleanup"}
    BY DEF Early
  <1>3. NoRootIsLost'
    <2>1. ASSUME NEW i \in 1..Len(roots), i # target'
          PROVE  \/ i \in previous
                 \/ \E p \in Operator : i = call'[p].root /\ call'[p].pc # "restored"
      <3>1. i # target BY <1>1
      <3> QED BY <1>2, <3>1 DEF LocationInv, NoRootIsLost, CallAt
    <2>2. \A i \in 1..Len(roots') : i \in 1..Len(roots) \/ i = target' BY <1>1
    <2> QED BY <2>1, <2>2 DEF NoRootIsLost, CallAt
  <1>4. AbsenceIsTransient' BY <1>1 DEF AbsenceIsTransient
  <1>5. target' \notin previous'
    BY <1>1 DEF TypeOK, Index
  <1>6. \A p \in Operator : call[p].root # target'
    BY <1>1 DEF TypeOK, CallOK, Index
  <1> QED BY <1>2, <1>3, <1>4, <1>5, <1>6 DEF LocationInv, Holds, MovedOne, CallAt

\* A step that moves no root and starts or ends no move.
LEMMA LocationStays ==
  ASSUME TypeOK, LocationInv, Len(roots') = Len(roots), UNCHANGED <<target, previous>>,
         \A p \in Operator :
           \/ call'[p] = call[p]
           \/ /\ call[p].pc \in Early /\ call'[p].root = 0 /\ call'[p].previous = 0
              /\ call'[p].pc \notin {"aside", "install"}
  PROVE  LocationInv'
  <1>1. \A p \in Operator : \/ call'[p] = call[p]
                            \/ /\ call[p].root = 0 /\ call[p].previous = 0
                               /\ call[p].pc \notin {"install", "cleanup", "aside"}
                               /\ call'[p].root = 0 /\ call'[p].previous = 0
                               /\ call'[p].pc \notin {"aside", "install"}
    BY DEF LocationInv, Early
  <1>2. \A i \in 1..Len(roots) : i # 0 BY DEF TypeOK, RootsOK
  <1>3. NoRootIsLost' BY <1>1, <1>2 DEF LocationInv, NoRootIsLost, CallAt
  <1>4. AbsenceIsTransient' BY <1>1 DEF LocationInv, AbsenceIsTransient
  <1> QED BY <1>1, <1>3, <1>4 DEF LocationInv, Holds, MovedOne, CallAt, Early

LEMMA RequestsKeepLocation ==
  ASSUME TypeOK, LocationInv, NEW f \in Fact, Serve(f)
  PROVE  LocationInv'
  <1>1. CASE Connect(f) /\ target = 0
    BY <1>1, OpenRootEffect, NewRootLocated DEF Connect, AddsRoot
  <1>2. CASE Connect(f) /\ target # 0
    BY <1>2, OpenRootEffect, LocationStays DEF Connect
  <1>3. CASE ~Connect(f)
    <2>1. UNCHANGED <<target, previous, call>>
      BY <1>3 DEF Serve, ValidateObject, RecordValidations, Put, Commit, CommitFails
    <2>2. Len(roots') = Len(roots)
      <3>1. CASE RecordValidations(f) BY <3>1, RecordEffect DEF ChangesRoot
      <3>2. CASE Put(f) BY <3>2, PutEffect DEF ChangesRoot
      <3>3. CASE Commit(f) BY <3>3, CommitEffect DEF ChangesRoot
      <3>4. CASE UNCHANGED roots BY <3>4
      <3> QED BY <1>3, <3>1, <3>2, <3>3, <3>4 DEF Serve, ValidateObject, CommitFails
    <2> QED BY <2>1, <2>2, LocationStays
  <1> QED BY <1>1, <1>2, <1>3

LEMMA BackupsKeepLocation ==
  ASSUME TypeOK, LocationInv, NEW p \in Operator, TakeBackup(p)
  PROVE  LocationInv'
  <1>0. /\ call \in [Operator -> CallRecord] /\ call[p] \in CallRecord
        /\ call[p].pc \in Early => call[p].root = 0 /\ call[p].previous = 0
    BY DEF TypeOK, CallOK, LocationInv
  <1>1. CASE Snapshot(p)
    <2>1. /\ call'[p].root = call[p].root /\ call'[p].previous = call[p].previous
          /\ call'[p].pc = "copy" /\ call[p].pc = "snapshot"
          /\ \A q \in Operator : q # p => call'[q] = call[q]
          /\ UNCHANGED previous /\ OpenRoot
      BY <1>0, <1>1 DEF Snapshot, CallAt, CallBecomes, CallRecord
    <2>2. CASE target = 0
      BY <1>0, <2>1, <2>2, OpenRootEffect, NewRootLocated DEF AddsRoot, Early
    <2>3. CASE target # 0
      BY <1>0, <2>1, <2>3, OpenRootEffect, LocationStays DEF Early
    <2> QED BY <2>2, <2>3
  <1>2. CASE ~Snapshot(p)
    <2>1. /\ call'[p].root = 0 /\ call'[p].previous = 0 /\ call[p].pc \in Early
          /\ call'[p].pc \notin {"aside", "install"}
          /\ \A q \in Operator : q # p => call'[q] = call[q]
          /\ UNCHANGED <<roots, target, previous>>
      <3>1. CASE \E d \in Destination : BeginBackup(p, d)
        BY <1>0, <3>1 DEF BeginBackup, CallAt, CallBecomes, NoCall, Early
      <3>2. CASE CopyObject(p)
        BY <1>0, <3>2 DEF CopyObject, CallAt, CallGoto, CallRecord, Early
      <3>3. CASE VerifyCopy(p) \/ Publish(p)
        BY <1>0, <3>3 DEF VerifyCopy, Publish, CallAt, CallGoto, CallRecord, Early
      <3> QED BY <1>2, <3>1, <3>2, <3>3 DEF TakeBackup
    <2> QED BY <2>1, LocationStays
  <1> QED BY <1>1, <1>2

LEMMA RealizeKeepsLocation ==
  ASSUME TypeOK, LocationInv, NEW p \in Operator, Realize(p)
  PROVE  LocationInv'
  <1> DEFINE n == Len(roots) + 1
  <1>1. /\ Len(roots) \in Nat /\ Len(roots') = n
        /\ call \in [Operator -> CallRecord] /\ call[p] \in CallRecord
        /\ \A q \in Operator : (call[q].root # 0 => call[q].root \in Index)
        /\ target # 0 => target \in Index
        /\ previous \subseteq Index /\ n \notin Index /\ n # 0
    BY RealizeEffect DEF AddsRoot, TypeOK, RootsOK, CallOK, Index
  <1>2. /\ call'[p].pc = "aside" /\ call'[p].root = n
        /\ call'[p].previous = call[p].previous
        /\ call[p].pc = "realize" /\ call[p].root = 0 /\ call[p].previous = 0
        /\ \A q \in Operator : q # p => call'[q] = call[q]
        /\ UNCHANGED <<target, previous>>
    BY <1>1 DEF Realize, CallAt, CallRecord, LocationInv, Early
  <1>3. NoRootIsLost'
    <2>1. ASSUME NEW i \in 1..n
          PROVE  \/ i = target \/ i \in previous
                 \/ \E q \in Operator : i = call'[q].root /\ call'[q].pc # "restored"
      <3>1. CASE i = n BY <1>2, <3>1
      <3>2. CASE i # n
        <4>1. i \in 1..Len(roots) /\ i # 0 BY <1>1, <3>2
        <4> QED BY <1>2, <4>1 DEF LocationInv, NoRootIsLost, CallAt
      <3> QED BY <3>1, <3>2
    <2> QED BY <1>1, <1>2, <2>1 DEF NoRootIsLost, CallAt
  <1>4. AbsenceIsTransient' BY <1>2 DEF LocationInv, AbsenceIsTransient
  <1>5. \A q \in Operator : Holds(q) => call[q].root # n BY <1>1 DEF LocationInv
  <1>6. n # target /\ n \notin previous BY <1>1
  <1> QED BY <1>1, <1>2, <1>3, <1>4, <1>5, <1>6 DEF LocationInv, Holds, MovedOne, CallAt, Early

LEMMA MoveAsideKeepsLocation ==
  ASSUME TypeOK, LocationInv, NEW p \in Operator, MoveAside(p)
  PROVE  LocationInv'
  <1>1. /\ call \in [Operator -> CallRecord] /\ call[p] \in CallRecord
        /\ call[p].pc = "aside" /\ call[p].previous = 0 /\ call[p].root # 0
        /\ call[p].root # target /\ call[p].root \notin previous
        /\ UNCHANGED roots
    BY DEF TypeOK, CallOK, MoveAside, CallAt, LocationInv, Holds
  <1>2. /\ call'[p].pc = "install" /\ call'[p].root = call[p].root
        /\ \A q \in Operator : q # p => call'[q] = call[q]
    BY <1>1 DEF MoveAside, CallGoto, CallRecord
  <1>3. CASE UNCHANGED <<target, previous>> /\ call'[p].previous = 0
    <2>1. NoRootIsLost' BY <1>1, <1>2, <1>3 DEF LocationInv, NoRootIsLost, CallAt
    <2>2. AbsenceIsTransient' BY <1>1, <1>2, <1>3 DEF LocationInv, AbsenceIsTransient
    <2> QED BY <1>1, <1>2, <1>3, <2>1, <2>2 DEF LocationInv, Holds, MovedOne, CallAt, Early
  <1>4. CASE /\ target # 0 /\ target' = 0 /\ previous' = previous \cup {target}
             /\ call'[p].previous = target
    <2>1. NoRootIsLost' BY <1>1, <1>2, <1>4 DEF LocationInv, NoRootIsLost, CallAt
    <2>2. AbsenceIsTransient' BY <1>2, <1>4 DEF AbsenceIsTransient
    <2>3. 0 \notin previous' BY <1>4 DEF TypeOK, RootsOK, Index
    <2> QED BY <1>1, <1>2, <1>4, <2>1, <2>2, <2>3 DEF LocationInv, Holds, MovedOne, CallAt, Early
  <1> QED BY <1>1, <1>3, <1>4 DEF MoveAside, CallGoto, CallRecord

LEMMA InstallKeepsLocation ==
  ASSUME TypeOK, LocationInv, NEW p \in Operator, Install(p) \/ InstallFails(p)
  PROVE  LocationInv'
  <1>1. /\ call \in [Operator -> CallRecord] /\ call[p] \in CallRecord
        /\ call[p].pc = "install" /\ call[p].root # 0
        /\ call[p].root # target /\ call[p].root \notin previous
        /\ UNCHANGED <<roots, previous>>
        /\ \A i \in 1..Len(roots) : i # 0
    BY DEF TypeOK, RootsOK, CallOK, Install, InstallFails, CallAt, LocationInv, Holds
  <1>2. /\ call'[p].root = call[p].root /\ call'[p].previous = call[p].previous
        /\ \A q \in Operator : q # p => call'[q] = call[q]
        /\ \/ target' = target /\ call'[p].pc = "cleanup"
           \/ target = 0 /\ target' = call[p].root /\ call'[p].pc = "restored"
    BY <1>1 DEF Install, InstallFails, CallGoto, CallRecord
  <1>3. CASE target' = target /\ call'[p].pc = "cleanup"
    <2>1. NoRootIsLost' BY <1>1, <1>2, <1>3 DEF LocationInv, NoRootIsLost, CallAt
    <2>2. AbsenceIsTransient' BY <1>1, <1>2, <1>3 DEF LocationInv, AbsenceIsTransient
    <2> QED BY <1>1, <1>2, <1>3, <2>1, <2>2 DEF LocationInv, Holds, MovedOne, CallAt, Early
  <1>4. CASE target = 0 /\ target' = call[p].root /\ call'[p].pc = "restored"
    <2>1. NoRootIsLost' BY <1>1, <1>2, <1>4 DEF LocationInv, NoRootIsLost, CallAt
    <2>2. AbsenceIsTransient' BY <1>1, <1>4 DEF AbsenceIsTransient
    <2> QED BY <1>1, <1>2, <1>4, <2>1, <2>2 DEF LocationInv, Holds, MovedOne, CallAt, Early
  <1> QED BY <1>2, <1>3, <1>4

LEMMA CleanupKeepsLocation ==
  ASSUME TypeOK, LocationInv, NEW p \in Operator, Cleanup(p)
  PROVE  LocationInv'
  <1> DEFINE old == call[p].previous
  <1>1. /\ call \in [Operator -> CallRecord] /\ call[p] \in CallRecord
        /\ call[p].pc = "cleanup" /\ UNCHANGED roots
        /\ 0 \notin previous /\ (old # 0 => old \in previous)
    BY DEF TypeOK, RootsOK, Index, CallOK, Cleanup, CallAt, LocationInv, MovedOne
  <1>2. /\ call'[p].root = call[p].root /\ call'[p].previous = old
        /\ call'[p].pc = "failed"
        /\ \A q \in Operator : q # p => call'[q] = call[q]
    BY <1>1 DEF Cleanup, CallGoto, CallRecord
  <1>3. CASE old \in previous /\ target = 0
    <2>1. target' = old /\ previous' = previous \ {old} /\ old # 0
      BY <1>1, <1>3 DEF Cleanup
    <2>2. NoRootIsLost'
      <3>1. \A i \in 1..Len(roots) : i # 0 BY DEF TypeOK, RootsOK
      <3> QED BY <1>1, <1>2, <1>3, <2>1, <3>1 DEF LocationInv, NoRootIsLost, CallAt
    <2>3. AbsenceIsTransient' BY <2>1 DEF AbsenceIsTransient
    <2>4. \A q \in Operator : q # p /\ MovedOne(q) => call[q].previous # old
      BY <1>1, <2>1 DEF LocationInv, MovedOne
    <2> QED BY <1>1, <1>2, <1>3, <2>1, <2>2, <2>3, <2>4
            DEF LocationInv, Holds, MovedOne, CallAt, Early
  <1>4. CASE ~(old \in previous /\ target = 0)
    <2>1. UNCHANGED <<target, previous>> BY <1>4 DEF Cleanup
    <2>2. NoRootIsLost' BY <1>1, <1>2, <2>1 DEF LocationInv, NoRootIsLost, CallAt
    <2>3. AbsenceIsTransient'
      BY <1>1, <1>2, <1>4, <2>1 DEF LocationInv, AbsenceIsTransient
    <2> QED BY <1>1, <1>2, <2>1, <2>2, <2>3 DEF LocationInv, Holds, MovedOne, CallAt, Early
  <1> QED BY <1>3, <1>4

LEMMA RestoresKeepLocation ==
  ASSUME TypeOK, LocationInv, NEW p \in Operator, Restore(p)
  PROVE  LocationInv'
  <1>0. /\ call \in [Operator -> CallRecord] /\ call[p] \in CallRecord
        /\ call[p].pc \in Early => call[p].root = 0 /\ call[p].previous = 0
    BY DEF TypeOK, CallOK, LocationInv
  <1>1. CASE \/ \E d \in Destination, replace \in BOOLEAN : BeginRestore(p, d, replace)
             \/ StageJournal(p) \/ StageObjects(p) \/ VerifyStaged(p)
    <2>1. /\ call'[p].root = 0 /\ call'[p].previous = 0 /\ call[p].pc \in Early
          /\ call'[p].pc \notin {"aside", "install"}
          /\ \A q \in Operator : q # p => call'[q] = call[q]
          /\ UNCHANGED <<roots, target, previous>>
      <3>1. CASE \E d \in Destination, replace \in BOOLEAN : BeginRestore(p, d, replace)
        BY <1>0, <3>1 DEF BeginRestore, CallAt, CallBecomes, NoCall, Early
      <3>2. CASE StageJournal(p)
        BY <1>0, <3>2 DEF StageJournal, CallAt, CallRecord, Early
      <3>3. CASE StageObjects(p)
        BY <1>0, <3>3 DEF StageObjects, CallAt, CallGoto, CallRecord, Early
      <3>4. CASE VerifyStaged(p)
        BY <1>0, <3>4 DEF VerifyStaged, CallAt, CallRecord, Early
      <3> QED BY <1>1, <3>1, <3>2, <3>3, <3>4
    <2> QED BY <2>1, LocationStays
  <1> QED BY <1>1, RealizeKeepsLocation, MoveAsideKeepsLocation, InstallKeepsLocation,
             CleanupKeepsLocation DEF Restore

LEMMA LocationInit == Init => LocationInv
  BY DEF Init, LocationInv, NoRootIsLost, AbsenceIsTransient, Holds, MovedOne,
         NoCall, CallAt, Early

LEMMA LocationKeeps == TypeOK /\ LocationInv /\ [Next]_vars => LocationInv'
  <1> SUFFICES ASSUME TypeOK, LocationInv, [Next]_vars PROVE LocationInv' OBVIOUS
  <1>1. CASE UNCHANGED vars BY <1>1, LocationStays DEF vars
  <1>2. ASSUME NEW o \in Object, Damage(o) PROVE LocationInv'
    BY <1>2, DamageEffect, LocationStays DEF ChangesRoot, Damage
  <1>3. ASSUME NEW d \in Destination, NEW e \in Destination, Exchange(d, e)
        PROVE  LocationInv'
    BY <1>3, LocationStays DEF Exchange
  <1> QED BY <1>1, <1>2, <1>3, RequestsKeepLocation, BackupsKeepLocation,
             RestoresKeepLocation DEF Next

-----------------------------------------------------------------------------
\* What backups and restores hold in their hands.

EvidenceInv ==
  \A p \in Operator :
    LET c == call[p] IN
    /\ c.pc \in {"copy", "publish"} => c.copy.there /\ c.copy.manifest = c.copy.facts
    /\ c.pc = "publish" => Complete(c.copy)
    /\ c.pc = "realize" => c.copy.manifest = c.copy.facts
    /\ c.pc \in {"aside", "install", "restored"} =>
         c.root # 0 /\ roots[c.root].born = c.copy.manifest

\* What a root was made of stays what it was.
BornStays == \A i \in Index : roots'[i].born = roots[i].born

LEMMA StepsKeepBorn == TypeOK /\ [Next]_vars => BornStays
  <1> SUFFICES ASSUME TypeOK, [Next]_vars PROVE BornStays OBVIOUS
  <1>1. ASSUME NEW x \in RootRecord, AddsRoot(x) PROVE BornStays
    BY <1>1 DEF AddsRoot, BornStays
  <1>2. CASE UNCHANGED roots BY <1>2 DEF BornStays
  <1>3. \A i \in Index : roots[i] \in RootRecord BY DEF TypeOK, RootsOK, Index
  <1>4. ASSUME NEW f \in Fact, Serve(f) PROVE BornStays
    <2>1. CASE Connect(f)
      BY <1>1, <1>2, <2>1, OpenRootEffect, EmptyTypes DEF Connect
    <2>2. CASE RecordValidations(f)
      BY <1>3, <2>2, RecordEffect DEF ChangesRoot, BornStays, RootRecord
    <2>3. CASE Put(f)
      BY <1>2, <1>3, <2>3, PutEffect DEF ChangesRoot, BornStays, RootRecord
    <2>4. CASE Commit(f)
      BY <1>3, <2>4, CommitEffect DEF ChangesRoot, BornStays, RootRecord
    <2> QED BY <1>2, <1>4, <2>1, <2>2, <2>3, <2>4 DEF Serve, ValidateObject, CommitFails
  <1>5. ASSUME NEW p \in Operator, TakeBackup(p) PROVE BornStays
    <2>1. CASE Snapshot(p) BY <1>1, <1>2, <2>1, OpenRootEffect, EmptyTypes DEF Snapshot
    <2> QED BY <1>2, <1>5, <2>1 DEF TakeBackup, BeginBackup, CopyObject, VerifyCopy, Publish
  <1>6. ASSUME NEW p \in Operator, Restore(p) PROVE BornStays
    <2>1. CASE Realize(p) BY <1>1, <2>1, RealizeEffect DEF AddsRoot
    <2> QED BY <1>2, <1>6, <2>1 DEF Restore, BeginRestore, StageJournal, StageObjects,
               VerifyStaged, MoveAside, Install, InstallFails, Cleanup
  <1>7. ASSUME NEW o \in Object, Damage(o) PROVE BornStays
    BY <1>3, <1>7, DamageEffect DEF ChangesRoot, BornStays, RootRecord
  <1> QED BY <1>2, <1>4, <1>5, <1>6, <1>7 DEF Next, Exchange, vars

\* A step of p, whose call holds its evidence afterwards.
LEMMA EvidenceStays ==
  ASSUME TypeOK, EvidenceInv, BornStays, NEW p \in Operator,
         \A q \in Operator : q # p => call'[q] = call[q],
         LET c == call'[p] IN
           /\ c.pc \in {"copy", "publish"} => c.copy.there /\ c.copy.manifest = c.copy.facts
           /\ c.pc = "publish" => Complete(c.copy)
           /\ c.pc = "realize" => c.copy.manifest = c.copy.facts
           /\ c.pc \in {"aside", "install", "restored"} =>
                c.root # 0 /\ roots'[c.root].born = c.copy.manifest
  PROVE  EvidenceInv'
  <1>1. \A q \in Operator : call[q].root # 0 => call[q].root \in Index
    BY DEF TypeOK, CallOK
  <1> QED BY <1>1 DEF EvidenceInv, BornStays, Complete

LEMMA BackupsKeepEvidence ==
  ASSUME TypeOK, EvidenceInv, BornStays, NEW p \in Operator, TakeBackup(p)
  PROVE  EvidenceInv'
  <1>1. call \in [Operator -> CallRecord] /\ call[p] \in CallRecord
    BY DEF TypeOK, CallOK
  <1>2. CASE Snapshot(p)
    BY <1>1, <1>2, EvidenceStays DEF Snapshot, CallBecomes, Backup, CallRecord
  <1>3. CASE CopyObject(p)
    <2>1. call'[p].pc = "failed" \/
            /\ call'[p].pc = "copy" /\ call[p].pc = "copy"
            /\ call'[p].copy.there = call[p].copy.there
            /\ call'[p].copy.manifest = call[p].copy.manifest
            /\ call'[p].copy.facts = call[p].copy.facts
      BY <1>1, <1>3 DEF CopyObject, CallAt, CallGoto, CallRecord, BackupRecord
    <2>2. \A q \in Operator : q # p => call'[q] = call[q]
      BY <1>1, <1>3 DEF CopyObject, CallGoto
    <2> QED BY <2>1, <2>2, EvidenceStays DEF EvidenceInv
  <1>4. CASE VerifyCopy(p)
    <2>1. /\ call'[p].copy = call[p].copy /\ call[p].pc = "copy"
          /\ call'[p].pc = IF Complete(call[p].copy) THEN "publish" ELSE "failed"
          /\ \A q \in Operator : q # p => call'[q] = call[q]
      BY <1>1, <1>4 DEF VerifyCopy, CallAt, CallGoto, CallRecord
    <2>2. Complete(call[p].copy) => Complete(call'[p].copy) BY <2>1
    <2> QED BY <2>1, <2>2, EvidenceStays DEF EvidenceInv
  <1>5. CASE Publish(p)
    <2>1. /\ call'[p].pc \in {"failed", "done"}
          /\ \A q \in Operator : q # p => call'[q] = call[q]
      BY <1>1, <1>5 DEF Publish, CallGoto, CallRecord
    <2> QED BY <2>1, EvidenceStays
  <1>6. CASE \E d \in Destination : BeginBackup(p, d)
    <2>1. /\ call'[p].pc = "snapshot"
          /\ \A q \in Operator : q # p => call'[q] = call[q]
      BY <1>1, <1>6 DEF BeginBackup, CallBecomes, NoCall
    <2> QED BY <2>1, EvidenceStays
  <1> QED BY <1>2, <1>3, <1>4, <1>5, <1>6 DEF TakeBackup

LEMMA RestoresKeepEvidence ==
  ASSUME TypeOK, EvidenceInv, BornStays, NEW p \in Operator, Restore(p)
  PROVE  EvidenceInv'
  <1>1. /\ call \in [Operator -> CallRecord] /\ call[p] \in CallRecord
        /\ call[p].root # 0 => call[p].root \in Index
    BY DEF TypeOK, CallOK
  <1>2. CASE /\ call'[p].pc \in {"stage_journal", "stage_objects", "verify", "cleanup", "failed"}
             /\ \A q \in Operator : q # p => call'[q] = call[q]
    BY <1>2, EvidenceStays
  <1>3. CASE \/ \E d \in Destination, replace \in BOOLEAN : BeginRestore(p, d, replace)
             \/ StageJournal(p) \/ StageObjects(p) \/ InstallFails(p) \/ Cleanup(p)
    <2>1. CASE \E d \in Destination, replace \in BOOLEAN : BeginRestore(p, d, replace)
      BY <1>1, <1>2, <2>1 DEF BeginRestore, CallBecomes, NoCall
    <2>2. CASE StageJournal(p) BY <1>1, <1>2, <2>2 DEF StageJournal, CallRecord
    <2>3. CASE StageObjects(p) BY <1>1, <1>2, <2>3 DEF StageObjects, CallGoto, CallRecord
    <2>4. CASE InstallFails(p) \/ Cleanup(p)
      BY <1>1, <1>2, <2>4 DEF InstallFails, Cleanup, CallGoto, CallRecord
    <2> QED BY <1>3, <2>1, <2>2, <2>3, <2>4
  <1>4. CASE VerifyStaged(p)
    <2> DEFINE staged == [call[p].copy EXCEPT !.manifest = backups[call[p].dest].manifest]
    <2>1. /\ call'[p].copy = staged
          /\ \/ call'[p].pc = "cleanup"
             \/ call'[p].pc = "realize" /\ Verified(staged)
          /\ \A q \in Operator : q # p => call'[q] = call[q]
      <3>1. ASSUME NEW b, b = staged, NEW pc,
                   pc = IF Verified(b) /\ (target = 0 \/ call[p].replace)
                        THEN "realize" ELSE "cleanup"
            PROVE  /\ call'[p].copy = b /\ call'[p].pc = pc
                   /\ \A q \in Operator : q # p => call'[q] = call[q]
        BY <1>1, <1>4, <3>1 DEF VerifyStaged, CallRecord
      <3> QED BY <3>1
    <2>2. Verified(staged) => staged.manifest = staged.facts BY DEF Verified
    <2> HIDE DEF staged
    <2> QED BY <2>1, <2>2, EvidenceStays
  <1>5. CASE Realize(p)
    <2>1. /\ call'[p].pc = "aside" /\ call'[p].root = Len(roots) + 1
          /\ call'[p].copy = call[p].copy /\ call[p].pc = "realize"
          /\ \A q \in Operator : q # p => call'[q] = call[q]
      BY <1>1, <1>5 DEF Realize, CallAt, CallRecord
    <2>2. call[p].copy \in BackupRecord BY <1>1 DEF CallRecord
    <2>3. roots'[Len(roots) + 1].born = call[p].copy.facts /\ Len(roots) + 1 # 0
      BY <1>5, <2>2, RealizeEffect, RealizedType DEF AddsRoot
    <2> QED BY <2>1, <2>3, EvidenceStays DEF EvidenceInv
  <1>6. CASE MoveAside(p) \/ Install(p)
    <2>1. /\ call'[p].pc \in {"install", "restored", "cleanup"}
          /\ call[p].pc \in {"aside", "install"}
          /\ call'[p].root = call[p].root /\ call'[p].copy = call[p].copy
          /\ \A q \in Operator : q # p => call'[q] = call[q]
      BY <1>1, <1>6 DEF MoveAside, Install, CallAt, CallGoto, CallRecord
    <2>2. call[p].root # 0 /\ roots'[call[p].root].born = call[p].copy.manifest
      BY <1>1, <2>1 DEF EvidenceInv, BornStays
    <2> QED BY <2>1, <2>2, EvidenceStays
  <1> QED BY <1>3, <1>4, <1>5, <1>6, RealizeEffect DEF Restore

LEMMA EvidenceInit == Init => EvidenceInv
  BY DEF Init, EvidenceInv, NoCall

LEMMA EvidenceKeeps == TypeOK /\ EvidenceInv /\ [Next]_vars => EvidenceInv'
  <1> SUFFICES ASSUME TypeOK, EvidenceInv, [Next]_vars PROVE EvidenceInv' OBVIOUS
  <1>1. BornStays BY StepsKeepBorn
  <1>2. CASE UNCHANGED call
    <2>1. \A q \in Operator : call[q].root # 0 => call[q].root \in Index
      BY DEF TypeOK, CallOK
    <2> QED BY <1>1, <1>2, <2>1 DEF EvidenceInv, BornStays, Complete
  <1>3. ASSUME NEW f \in Fact, Serve(f) PROVE EvidenceInv'
    BY <1>2, <1>3 DEF Serve, Connect, ValidateObject, RecordValidations, Put, Commit,
                      CommitFails
  <1> QED BY <1>1, <1>2, <1>3, BackupsKeepEvidence, RestoresKeepEvidence
          DEF Next, Damage, Exchange, vars

\* Only publishing makes a backup appear, and it publishes what was verified.
LEMMA BackupsAppearComplete ==
  ASSUME TypeOK, EvidenceInv, [Next]_vars, NEW d \in Destination,
         backups'[d].there, ~backups[d].there
  PROVE  Verified(backups'[d])
  <1>1. backups' # backups OBVIOUS
  <1>2. CASE \E p \in Operator : Publish(p)
    <2>1. PICK p \in Operator : Publish(p) BY <1>2
    <2>2. backups' = [backups EXCEPT ![call[p].dest] = call[p].copy] /\ call[p].pc = "publish"
      BY <1>1, <2>1 DEF Publish, CallAt
    <2>3. backups'[d] = call[p].copy BY <2>2 DEF TypeOK
    <2> QED BY <2>2, <2>3 DEF EvidenceInv, Verified
  <1>3. CASE \E a \in Destination, b \in Destination : Exchange(a, b)
    <2>1. PICK a \in Destination, b \in Destination : Exchange(a, b) BY <1>3
    <2> QED BY <2>1 DEF Exchange, TypeOK
  <1> QED BY <1>1, <1>2, <1>3
          DEF Next, vars, Serve, Connect, ValidateObject, RecordValidations, Put, Commit,
              CommitFails, TakeBackup, BeginBackup, Snapshot, CopyObject, VerifyCopy,
              Restore, BeginRestore, StageJournal, StageObjects, VerifyStaged, Realize,
              MoveAside, Install, InstallFails, Cleanup, Damage

-----------------------------------------------------------------------------
\* Files and their identities.

Losses == Cardinality(past.damaged)

\* A file that is there carries the number of its root, and of a loss at most.
FilesInv ==
  \A i \in Index, o \in Object :
    LET file == roots[i].files[o] IN
    /\ file.whole => Present(file)
    /\ Present(file) => file.id[1] = i /\ file.id[2] <= Losses + 1

\* No file of object o that has the identity v, now or later, is altered.
Vouched(o, v) ==
  \/ v = NoId
  \/ /\ v[2] <= Losses + 1
     /\ \A i \in Index : roots[i].files[o].id = v => roots[i].files[o].whole

CacheInv ==
  \A o \in Object :
    /\ \A i \in Index : Vouched(o, roots[i].cached[o])
    /\ \A f \in Fact : Vouched(o, request[f].rows[o]) /\ Vouched(o, request[f].verified[o])

\* A step that damages nothing: files stay, or are written whole.
Undamaged ==
  /\ past'.damaged = past.damaged
  /\ Index \subseteq Index'
  /\ \A i \in Index : \A o \in Object :
       \/ roots'[i].files[o] = roots[i].files[o]
       \/ roots'[i].files[o] = [whole |-> TRUE, id |-> Stamp(i)]
  /\ \A i \in Index' \ Index : \A o \in Object :
       \/ roots'[i].files[o] = NoFile
       \/ roots'[i].files[o] = [whole |-> TRUE, id |-> Stamp(i)]

LEMMA UndamagedFiles ==
  ASSUME TypeOK, TypeOK', FilesInv, Undamaged
  PROVE  /\ FilesInv'
         /\ \A o \in Object, v \in Id : Vouched(o, v) => Vouched(o, v)'
  <1>1. Losses \in Nat /\ Losses' = Losses
    BY StampType DEF TypeOK, RootsOK, Undamaged, Losses
  <1>2. ASSUME NEW i \in Index'
        PROVE  LET file == [whole |-> TRUE, id |-> Stamp(i)]
               IN  /\ file.whole /\ Present(file) /\ file.id[1] = i
                   /\ file.id[2] <= Losses + 1
    <2>1. i \in Nat BY DEF TypeOK, RootsOK, Index
    <2> QED BY <2>1, <1>1, StampType DEF TypeOK, Losses, Present
  <1>3. ~NoFile.whole /\ ~Present(NoFile) /\ NoFile.id = NoId
    BY NoFileType DEF Present
  <1>4. FilesInv'
    <2>1. ASSUME NEW i \in Index', NEW o \in Object
          PROVE  LET file == roots'[i].files[o] IN
                 /\ file.whole => Present(file)
                 /\ Present(file) => file.id[1] = i /\ file.id[2] <= Losses + 1
      <3>1. CASE roots'[i].files[o] = [whole |-> TRUE, id |-> Stamp(i)]
        BY <1>2, <3>1
      <3>2. CASE roots'[i].files[o] = NoFile BY <1>3, <3>2
      <3>3. CASE i \in Index /\ roots'[i].files[o] = roots[i].files[o]
        BY <3>3 DEF FilesInv
      <3> QED BY <3>1, <3>2, <3>3 DEF Undamaged
    <2> QED BY <1>1, <2>1 DEF FilesInv, Present
  <1>5. ASSUME NEW o \in Object, NEW v \in Id, Vouched(o, v), v # NoId,
               NEW i \in Index', roots'[i].files[o].id = v
        PROVE  roots'[i].files[o].whole
    <2>1. CASE i \in Index /\ roots'[i].files[o] = roots[i].files[o]
      BY <1>5, <2>1 DEF Vouched
    <2>2. CASE roots'[i].files[o] = NoFile BY <1>3, <1>5, <2>2
    <2>3. CASE roots'[i].files[o] = [whole |-> TRUE, id |-> Stamp(i)] BY <2>3
    <2> QED BY <2>1, <2>2, <2>3 DEF Undamaged
  <1>6. ASSUME NEW o \in Object, NEW v \in Id, Vouched(o, v) PROVE Vouched(o, v)'
    BY <1>1, <1>5, <1>6 DEF Vouched
  <1> QED BY <1>4, <1>6

LEMMA DamagedFiles ==
  ASSUME TypeOK, TypeOK', FilesInv, NEW o \in Object, Damage(o)
  PROVE  /\ FilesInv'
         /\ \A n \in Object, v \in Id : Vouched(n, v) => Vouched(n, v)'
         /\ Index' = Index
         /\ \A i \in Index : /\ roots'[i].facts = roots[i].facts
                             /\ roots'[i].cached = roots[i].cached
                             /\ \A n \in Object : <<i, n>> # <<target, o>> =>
                                  roots'[i].files[n] = roots[i].files[n]
  <1>1. PICK file \in {NoFile, [whole |-> FALSE, id |-> <<target, Losses + 2>>]} :
          ChangesRoot(target, [roots[target] EXCEPT !.files = [@ EXCEPT ![o] = file]])
    BY DamageEffect DEF Losses
  <1>2. /\ Losses \in Nat /\ Losses' = Losses + 1
    <2>1. past'.damaged = past.damaged \cup {<<target, o>>}
      BY DamageEffect DEF TypeOK, PastOK
    <2>2. <<target, o>> \notin past.damaged BY DamageEffect
    <2> QED BY <2>1, <2>2, FS_AddElement, FS_CardinalityType DEF TypeOK, PastOK, Losses
  <1>3. target \in Index /\ roots[target] \in RootRecord /\ target \in Nat
    BY <1>1 DEF ChangesRoot, TypeOK, RootsOK, Index
  <1>4. /\ \A i \in Index : i # target => roots'[i] = roots[i]
        /\ \A n \in Object : n # o => roots'[target].files[n] = roots[target].files[n]
        /\ roots'[target].files[o] = file
        /\ roots'[target].facts = roots[target].facts
        /\ roots'[target].cached = roots[target].cached
        /\ Index' = Index
    BY <1>1, <1>3 DEF ChangesRoot, RootRecord, Index
  <1>5. /\ \A i \in Index : /\ roots'[i].facts = roots[i].facts
                            /\ roots'[i].cached = roots[i].cached
        /\ \A i \in Index, n \in Object : <<i, n>> # <<target, o>> =>
             roots'[i].files[n] = roots[i].files[n]
    BY <1>4
  <1>6. /\ ~file.whole
        /\ Present(file) => file.id = <<target, Losses + 2>>
        /\ ~Present(file) => file.id = NoId
    BY NoFileType DEF Present
  <1>7. FilesInv'
    <2>1. ASSUME NEW i \in Index, NEW n \in Object
          PROVE  LET g == roots'[i].files[n] IN
                 /\ g.whole => Present(g)
                 /\ Present(g) => g.id[1] = i /\ g.id[2] <= Losses + 2
      <3>1. CASE <<i, n>> = <<target, o>> BY <1>2, <1>4, <1>6, <3>1
      <3>2. CASE <<i, n>> # <<target, o>>
        <4>1. roots[i] \in RootRecord BY DEF TypeOK, RootsOK, Index
        <4>2. roots[i].files[n].id \in Id BY <4>1 DEF RootRecord, File
        <4>3. roots'[i].files[n] = roots[i].files[n] BY <1>5, <3>2
        <4>4. LET g == roots[i].files[n] IN
              /\ g.whole => Present(g)
              /\ Present(g) => g.id[1] = i /\ g.id[2] <= Losses + 1
          BY DEF FilesInv
        <4>5. roots[i].files[n].id[2] \in Nat BY <4>2 DEF Id
        <4> QED BY <1>2, <4>3, <4>4, <4>5
      <3> QED BY <3>1, <3>2
    <2> QED BY <1>2, <1>4, <2>1 DEF FilesInv, Present
  <1>8. ASSUME NEW n \in Object, NEW v \in Id, Vouched(n, v) PROVE Vouched(n, v)'
    <2>1. CASE v = NoId BY <2>1 DEF Vouched
    <2>2. CASE v # NoId
      <3>1. v[2] <= Losses + 1 /\ v[2] \in Nat BY <1>8, <2>2 DEF Vouched, Id
      <3>2. v # file.id BY <1>2, <1>6, <2>2, <3>1
      <3>3. \A i \in Index : roots'[i].files[n].id = v => roots'[i].files[n].whole
        BY <1>4, <1>5, <1>8, <2>2, <3>2 DEF Vouched
      <3> QED BY <1>2, <1>4, <3>1, <3>3 DEF Vouched
    <2> QED BY <2>1, <2>2
  <1> QED BY <1>4, <1>5, <1>7, <1>8

\* A backup damages nothing, and changes roots only where it opens one.
LEMMA BackupsOnlyRead ==
  ASSUME NEW p \in Operator, TakeBackup(p)
  PROVE  /\ UNCHANGED <<past, request>>
         /\ UNCHANGED roots \/ Snapshot(p)
  <1>1. CASE \E d \in Destination : BeginBackup(p, d) BY <1>1, Zenon DEF BeginBackup
  <1>2. CASE Snapshot(p) BY <1>2, Zenon DEF Snapshot
  <1>3. CASE CopyObject(p) BY <1>3, Zenon DEF CopyObject
  <1>4. CASE VerifyCopy(p) \/ Publish(p) BY <1>4, Zenon DEF VerifyCopy, Publish
  <1> QED BY <1>1, <1>2, <1>3, <1>4 DEF TakeBackup

\* A restore writes to no root, and adds one.
LEMMA RestoresOnlyAdd ==
  ASSUME NEW p \in Operator, Restore(p)
  PROVE  /\ UNCHANGED request
         /\ UNCHANGED roots \/ Realize(p)
         /\ UNCHANGED past \/ MoveAside(p)
         /\ target' = target \/ target = 0 \/ MoveAside(p)
  <1>1. CASE \E d \in Destination, replace \in BOOLEAN : BeginRestore(p, d, replace)
    BY <1>1, Zenon DEF BeginRestore
  <1>2. CASE StageJournal(p) \/ StageObjects(p)
    BY <1>2, Zenon DEF StageJournal, StageObjects
  <1>3. CASE VerifyStaged(p) BY <1>3, Zenon DEF VerifyStaged
  <1>4. CASE Realize(p) BY <1>4, Zenon DEF Realize
  <1>5. CASE MoveAside(p) \/ Cleanup(p) BY <1>5, Zenon DEF MoveAside, Cleanup
  <1>6. CASE Install(p) \/ InstallFails(p) BY <1>6, Zenon DEF Install, InstallFails
  <1> QED BY <1>1, <1>2, <1>3, <1>4, <1>5, <1>6 DEF Restore

\* Every step but Damage is one that damages nothing.
LEMMA OthersDamageNothing ==
  ASSUME TypeOK, [Next]_vars, \A o \in Object : ~Damage(o)
  PROVE  Undamaged
  <1>1. /\ roots \in Seq(RootRecord) /\ Len(roots) \in Nat
        /\ \A i \in Index : roots[i] \in RootRecord
    BY DEF TypeOK, RootsOK, Index
  <1>2. past'.damaged = past.damaged
    <2>1. \/ UNCHANGED past
          \/ \E p \in Operator : MoveAside(p)
          \/ \E d \in Destination, e \in Destination : Exchange(d, e)
      <3>1. ASSUME NEW f \in Fact, Serve(f) PROVE UNCHANGED past
        BY <3>1 DEF Serve, Connect, ValidateObject, RecordValidations, Put, Commit,
                    CommitFails
      <3>2. ASSUME NEW p \in Operator, TakeBackup(p) PROVE UNCHANGED past
        BY <3>2, BackupsOnlyRead
      <3>3. ASSUME NEW p \in Operator, Restore(p) PROVE UNCHANGED past \/ MoveAside(p)
        BY <3>3 DEF Restore, BeginRestore, StageJournal, StageObjects, VerifyStaged,
                    Realize, Install, InstallFails, Cleanup
      <3> QED BY <3>1, <3>2, <3>3 DEF Next, vars
    <2>2. CASE \E p \in Operator : MoveAside(p)
      BY <2>2 DEF MoveAside, TypeOK, PastOK
    <2>3. CASE \E d \in Destination, e \in Destination : Exchange(d, e)
      BY <2>3 DEF Exchange, TypeOK, PastOK
    <2> QED BY <2>1, <2>2, <2>3
  <1>3. CASE UNCHANGED roots BY <1>2, <1>3 DEF Undamaged, Index
  <1>4. ASSUME NEW x \in RootRecord, AddsRoot(x),
               \A o \in Object : \/ x.files[o] = NoFile
                                 \/ x.files[o] = [whole |-> TRUE, id |-> Stamp(Len(roots) + 1)]
        PROVE  Undamaged
    <2>1. /\ Index' \ Index = {Len(roots) + 1} /\ Index \subseteq Index'
          /\ \A i \in Index : roots'[i] = roots[i]
          /\ roots'[Len(roots) + 1] = x
      BY <1>1, <1>4 DEF AddsRoot, Index
    <2> QED BY <1>2, <1>4, <2>1 DEF Undamaged
  <1>5. ASSUME NEW i \in Index, NEW x \in RootRecord, ChangesRoot(i, x),
               \A o \in Object : \/ x.files[o] = roots[i].files[o]
                                 \/ x.files[o] = [whole |-> TRUE, id |-> Stamp(i)]
        PROVE  Undamaged
    <2>1. /\ Index' = Index /\ roots'[i] = x
          /\ \A j \in Index : j # i => roots'[j] = roots[j]
      BY <1>1, <1>5 DEF ChangesRoot, Index
    <2> QED BY <1>2, <1>5, <2>1 DEF Undamaged
  <1>6. CASE \/ \E f \in Fact : Connect(f)
             \/ \E p \in Operator : Snapshot(p)
    <2>1. OpenRoot
      <3>1. ASSUME NEW f \in Fact, Connect(f) PROVE OpenRoot BY <3>1 DEF Connect
      <3>2. ASSUME NEW p \in Operator, Snapshot(p) PROVE OpenRoot BY <3>2 DEF Snapshot
      <3> QED BY <1>6, <3>1, <3>2
    <2>2. \A o \in Object : EmptyRoot.files[o] = NoFile BY DEF EmptyRoot, Root
    <2> QED BY <1>3, <1>4, <2>1, <2>2, OpenRootEffect, EmptyTypes
  <1>7. ASSUME NEW p \in Operator, Realize(p) PROVE Undamaged
    <2>1. AddsRoot(Realized(call[p].copy)) /\ Realized(call[p].copy) \in RootRecord
      BY <1>7, RealizeEffect DEF AddsRoot
    <2>2. \A o \in Object :
            \/ Realized(call[p].copy).files[o] = NoFile
            \/ Realized(call[p].copy).files[o] = [whole |-> TRUE, id |-> Stamp(Len(roots) + 1)]
      BY DEF Realized, Root, FilesOf
    <2> QED BY <1>4, <2>1, <2>2
  <1>8. ASSUME NEW f \in Fact, RecordValidations(f) \/ Commit(f) PROVE Undamaged
    <2> DEFINE i == request[f].conn
    <2>1. PICK x \in RootRecord : ChangesRoot(i, x) /\ x.files = roots[i].files
      BY <1>1, <1>8, RecordEffect, CommitEffect DEF ChangesRoot, RootRecord
    <2>2. i \in Index BY <2>1 DEF ChangesRoot
    <2> QED BY <1>5, <2>1, <2>2
  <1>9. ASSUME NEW f \in Fact, Put(f), roots' # roots PROVE Undamaged
    <2> DEFINE o == ObjectOf[f]
    <2>1. PICK file : /\ file = [whole |-> TRUE, id |-> Stamp(target)]
                      /\ ChangesRoot(target, [roots[target] EXCEPT !.files = [@ EXCEPT ![o] = file]])
      BY <1>9, PutEffect
    <2>2. target \in Index /\ roots[target] \in RootRecord
      BY <1>1, <2>1 DEF ChangesRoot
    <2>3. ASSUME NEW x, x = [roots[target] EXCEPT !.files = [@ EXCEPT ![o] = file]]
          PROVE  Undamaged
      <3>1. x \in RootRecord /\ ChangesRoot(target, x) BY <2>1, <2>3 DEF ChangesRoot
      <3>2. \A n \in Object : x.files[n] = roots[target].files[n] \/ x.files[n] = file
        BY <2>2, <2>3 DEF RootRecord
      <3> QED BY <1>5, <2>1, <2>2, <3>1, <3>2
    <2> QED BY <2>3
  <1>10. ASSUME NEW f \in Fact, Serve(f) PROVE Undamaged
    BY <1>3, <1>6, <1>8, <1>9, <1>10 DEF Serve, ValidateObject, CommitFails
  <1>11. ASSUME NEW p \in Operator, TakeBackup(p) PROVE Undamaged
    BY <1>3, <1>6, <1>11, BackupsOnlyRead
  <1>12. ASSUME NEW p \in Operator, Restore(p) PROVE Undamaged
    BY <1>3, <1>7, <1>12, RestoresOnlyAdd
  <1> QED BY <1>3, <1>10, <1>11, <1>12 DEF Next, vars, Exchange

\* What vouched for a file still does after any step.
LEMMA FilesKeep ==
  ASSUME TypeOK, FilesInv, [Next]_vars
  PROVE  /\ FilesInv'
         /\ \A o \in Object, v \in Id : Vouched(o, v) => Vouched(o, v)'
  <1>1. TypeOK' BY TypesKeep
  <1>2. CASE \E o \in Object : Damage(o) BY <1>1, <1>2, DamagedFiles
  <1>3. CASE \A o \in Object : ~Damage(o)
    BY <1>1, <1>3, OthersDamageNothing, UndamagedFiles
  <1> QED BY <1>2, <1>3

\* A file that is whole vouches for itself.
LEMMA WholeIsVouched ==
  ASSUME TypeOK, FilesInv, NEW o \in Object, Files[o].whole
  PROVE  Vouched(o, Files[o].id)
  <1>1. target # 0 BY NoFileType DEF Files
  <1>2. target \in Index /\ Files[o] = roots[target].files[o]
    BY <1>1 DEF TypeOK, RootsOK, Files
  <1>3. Present(Files[o]) /\ Files[o].id[1] = target /\ Files[o].id[2] <= Losses + 1
    BY <1>2 DEF FilesInv
  <1>4. ASSUME NEW i \in Index, roots[i].files[o].id = Files[o].id
        PROVE  roots[i].files[o].whole
    <2>1. Present(roots[i].files[o]) BY <1>3, <1>4 DEF Present
    <2>2. i = target BY <1>3, <1>4, <2>1 DEF FilesInv
    <2> QED BY <1>2, <2>2
  <1> QED BY <1>3, <1>4 DEF Vouched

\* No root has a file that the next root will have.
LEMMA NextStampIsVouched ==
  ASSUME TypeOK, FilesInv, NEW o \in Object
  PROVE  Vouched(o, Stamp(Len(roots) + 1))
  <1> DEFINE v == Stamp(Len(roots) + 1)
  <1>1. Len(roots) \in Nat /\ Losses \in Nat
    BY StampType DEF TypeOK, RootsOK, Losses
  <1>2. v # NoId /\ v[1] = Len(roots) + 1 /\ v[2] = Losses + 1
    BY <1>1, StampType DEF TypeOK, Losses
  <1>3. ASSUME NEW i \in Index, roots[i].files[o].id = v PROVE FALSE
    <2>1. roots[i].files[o].id[1] = i BY <1>2, <1>3 DEF FilesInv, Present
    <2>2. i <= Len(roots) /\ i \in Nat BY <1>1 DEF Index
    <2> QED BY <1>1, <1>2, <1>3, <2>1, <2>2
  <1> QED BY <1>1, <1>2, <1>3 DEF Vouched

\* What is recorded after a step was vouched for before it.
RootsVouched == \A o \in Object : \A i \in Index' : Vouched(o, roots'[i].cached[o])
RequestsVouched ==
  \A o \in Object, f \in Fact :
    Vouched(o, request'[f].rows[o]) /\ Vouched(o, request'[f].verified[o])

LEMMA CacheStays ==
  ASSUME TypeOK', [Next]_vars, TypeOK, FilesInv, RootsVouched, RequestsVouched
  PROVE  CacheInv'
  <1>1. ASSUME NEW o \in Object, NEW i \in Index' PROVE Vouched(o, roots[i].cached[o])'
    <2>1. roots'[i] \in RootRecord BY DEF TypeOK, RootsOK, Index
    <2>2. roots'[i].cached[o] \in Id BY <2>1 DEF RootRecord
    <2>3. Vouched(o, roots'[i].cached[o]) BY DEF RootsVouched
    <2> QED BY <2>2, <2>3, FilesKeep DEF Vouched, Losses, Index
  <1>2. ASSUME NEW o \in Object, NEW f \in Fact
        PROVE  Vouched(o, request[f].rows[o])' /\ Vouched(o, request[f].verified[o])'
    <2>1. request'[f].rows[o] \in Id /\ request'[f].verified[o] \in Id
      BY DEF TypeOK, RequestOK, RequestRecord
    <2>2. Vouched(o, request'[f].rows[o]) /\ Vouched(o, request'[f].verified[o])
      BY DEF RequestsVouched
    <2> QED BY <2>1, <2>2, FilesKeep DEF Vouched, Losses, Index
  <1> QED BY <1>1, <1>2 DEF CacheInv, Index

LEMMA RootsAreVouched ==
  ASSUME TypeOK, FilesInv, CacheInv, [Next]_vars
  PROVE  RootsVouched
  <1>1. /\ roots \in Seq(RootRecord) /\ Len(roots) \in Nat
        /\ \A i \in Index : roots[i] \in RootRecord
    BY DEF TypeOK, RootsOK, Index
  <1>2. CASE UNCHANGED roots BY <1>2 DEF RootsVouched, CacheInv, Index
  <1>3. ASSUME NEW x \in RootRecord, AddsRoot(x), \A o \in Object : Vouched(o, x.cached[o])
        PROVE  RootsVouched
    <2>1. /\ Index' = Index \cup {Len(roots) + 1}
          /\ \A i \in Index : roots'[i] = roots[i]
          /\ roots'[Len(roots) + 1] = x
      BY <1>1, <1>3 DEF AddsRoot, Index
    <2> QED BY <1>3, <2>1 DEF RootsVouched, CacheInv
  <1>4. ASSUME NEW i \in Index, NEW x \in RootRecord, ChangesRoot(i, x),
               \A o \in Object : Vouched(o, x.cached[o])
        PROVE  RootsVouched
    <2>1. /\ Index' = Index /\ roots'[i] = x
          /\ \A j \in Index : j # i => roots'[j] = roots[j]
      BY <1>1, <1>4 DEF ChangesRoot, Index
    <2> QED BY <1>4, <2>1 DEF RootsVouched, CacheInv
  <1>5. \A o \in Object : EmptyRoot.cached[o] = NoId /\ Vouched(o, NoId)
    BY DEF EmptyRoot, Root, NoRows, Vouched
  <1>6. CASE OpenRoot BY <1>2, <1>3, <1>5, <1>6, OpenRootEffect, EmptyTypes
  <1>7. ASSUME NEW f \in Fact, RecordValidations(f) PROVE RootsVouched
    <2> DEFINE i == request[f].conn
    <2>1. i \in Index BY <1>7, RecordEffect DEF ChangesRoot
    <2>2. PICK x \in RootRecord :
            /\ ChangesRoot(i, x) /\ x.cached = Recorded(roots[i].cached, request[f].verified)
      BY <1>1, <1>7, <2>1, RecordEffect DEF ChangesRoot, RootRecord
    <2>3. \A o \in Object : Vouched(o, x.cached[o])
      BY <2>1, <2>2 DEF Recorded, CacheInv
    <2> QED BY <1>4, <2>1, <2>2, <2>3
  <1>8. ASSUME NEW f \in Fact, Commit(f) \/ (Put(f) /\ roots' # roots) PROVE RootsVouched
    <2>1. PICK i \in Index, x \in RootRecord :
            ChangesRoot(i, x) /\ x.cached = roots[i].cached
      <3>1. CASE Commit(f)
        <4>1. ASSUME NEW i, i = request[f].conn,
                     NEW x, x = [roots[i] EXCEPT !.facts = @ \cup {f}]
              PROVE  i \in Index /\ x \in RootRecord /\ ChangesRoot(i, x)
                     /\ x.cached = roots[i].cached
          BY <1>1, <3>1, <4>1, CommitEffect DEF ChangesRoot, RootRecord
        <4> DEFINE i == request[f].conn
                   x == [roots[i] EXCEPT !.facts = @ \cup {f}]
        <4>2. i \in Index /\ x \in RootRecord /\ ChangesRoot(i, x)
              /\ x.cached = roots[i].cached
          BY <4>1
        <4> HIDE DEF i, x
        <4> QED BY <4>2
      <3>2. CASE Put(f) /\ roots' # roots
        BY <1>1, <3>2, PutEffect DEF ChangesRoot, RootRecord
      <3> QED BY <1>8, <3>1, <3>2
    <2> QED BY <1>4, <2>1 DEF CacheInv
  <1>9. ASSUME NEW p \in Operator, Realize(p) PROVE RootsVouched
    <2> DEFINE x == Realized(call[p].copy)
    <2>1. AddsRoot(x) /\ x \in RootRecord BY <1>9, RealizeEffect DEF AddsRoot
    <2>2. \A o \in Object : x.cached[o] = NoId \/ x.cached[o] = Stamp(Len(roots) + 1)
      BY DEF Realized, Root
    <2>3. \A o \in Object : Vouched(o, x.cached[o])
      BY <1>5, <2>2, NextStampIsVouched
    <2> HIDE DEF x
    <2> QED BY <1>3, <2>1, <2>3
  <1>10. ASSUME NEW o \in Object, Damage(o) PROVE RootsVouched
    <2>1. /\ Index' = Index
          /\ \A i \in Index : roots'[i].cached = roots[i].cached
      BY <1>10, DamagedFiles, TypesKeep
    <2> QED BY <2>1 DEF RootsVouched, CacheInv
  <1>11. ASSUME NEW f \in Fact, Serve(f) PROVE RootsVouched
    <2>1. CASE Connect(f) BY <1>6, <2>1 DEF Connect
    <2> QED BY <1>2, <1>7, <1>8, <1>11, <2>1 DEF Serve, ValidateObject, CommitFails
  <1>12. ASSUME NEW p \in Operator, TakeBackup(p) PROVE RootsVouched
    <2>1. CASE Snapshot(p) BY <1>6, <2>1 DEF Snapshot
    <2> QED BY <1>2, <1>12, <2>1, BackupsOnlyRead
  <1>13. ASSUME NEW p \in Operator, Restore(p) PROVE RootsVouched
    BY <1>2, <1>9, <1>13, RestoresOnlyAdd
  <1> QED BY <1>2, <1>10, <1>11, <1>12, <1>13 DEF Next, vars, Exchange

LEMMA RequestsAreVouched ==
  ASSUME TypeOK, FilesInv, CacheInv, [Next]_vars
  PROVE  RequestsVouched
  <1>1. request \in [Fact -> RequestRecord] BY DEF TypeOK, RequestOK
  <1>2. \A o \in Object : Vouched(o, NoId) /\ NoRows[o] = NoId BY DEF Vouched, NoRows
  <1>3. CASE UNCHANGED request BY <1>3 DEF RequestsVouched, CacheInv
  <1>4. ASSUME NEW f \in Fact, \A g \in Fact : g # f => request'[g] = request[g],
               \A o \in Object : /\ Vouched(o, request'[f].rows[o])
                                 /\ Vouched(o, request'[f].verified[o])
        PROVE  RequestsVouched
    BY <1>4 DEF RequestsVouched, CacheInv
  <1>5. ASSUME NEW f \in Fact, EndRequest(f) PROVE RequestsVouched
    <2>1. request'[f] = NoRequest /\ \A g \in Fact : g # f => request'[g] = request[g]
      BY <1>1, <1>5 DEF EndRequest
    <2>2. NoRequest.rows = NoRows /\ NoRequest.verified = NoRows BY DEF NoRequest
    <2> QED BY <1>2, <1>4, <2>1, <2>2
  <1>6. ASSUME NEW f \in Fact, NEW pc, RequestGoto(f, pc) PROVE RequestsVouched
    <2>1. /\ request'[f].rows = request[f].rows /\ request'[f].verified = request[f].verified
          /\ \A g \in Fact : g # f => request'[g] = request[g]
      BY <1>1, <1>6 DEF RequestGoto, RequestRecord
    <2> QED BY <1>4, <2>1 DEF CacheInv
  <1>7. ASSUME NEW f \in Fact, Connect(f) PROVE RequestsVouched
    <2> DEFINE journal == IF target = 0 THEN EmptyRoot ELSE roots[target]
    <2>1. /\ request'[f].rows = journal.cached /\ request'[f].verified = NoRows
          /\ \A g \in Fact : g # f => request'[g] = request[g]
      BY <1>1, <1>7 DEF Connect
    <2>2. \A o \in Object : Vouched(o, journal.cached[o])
      <3>1. CASE target = 0 BY <1>2, <3>1 DEF EmptyRoot, Root
      <3>2. CASE target # 0 BY <3>2 DEF TypeOK, RootsOK, CacheInv
      <3> QED BY <3>1, <3>2
    <2> HIDE DEF journal
    <2> QED BY <1>2, <1>4, <2>1, <2>2
  <1>8. ASSUME NEW f \in Fact, ValidateObject(f) PROVE RequestsVouched
    <2>1. PICK o \in request[f].todo :
            \/ request' = [request EXCEPT ![f].todo = @ \ {o}]
            \/ /\ Files[o].whole
               /\ request' = [request EXCEPT ![f].todo = @ \ {o},
                                             ![f].verified[o] = Files[o].id]
            \/ EndRequest(f)
      BY <1>8, Zenon DEF ValidateObject
    <2>2. o \in Object BY <1>1, <2>1 DEF RequestRecord
    <2>3. CASE request' = [request EXCEPT ![f].todo = @ \ {o}]
      <3>1. /\ request'[f].rows = request[f].rows /\ request'[f].verified = request[f].verified
            /\ \A g \in Fact : g # f => request'[g] = request[g]
        BY <1>1, <2>3 DEF RequestRecord
      <3> QED BY <1>4, <3>1 DEF CacheInv
    <2>4. CASE /\ Files[o].whole
               /\ request' = [request EXCEPT ![f].todo = @ \ {o},
                                             ![f].verified[o] = Files[o].id]
      <3>1. ASSUME NEW v, v = Files[o].id
            PROVE  /\ request'[f].rows = request[f].rows
                   /\ request'[f].verified = [request[f].verified EXCEPT ![o] = v]
                   /\ \A g \in Fact : g # f => request'[g] = request[g]
        BY <1>1, <2>4, <3>1 DEF RequestRecord
      <3>2. Vouched(o, Files[o].id) BY <2>2, <2>4, WholeIsVouched
      <3>3. ASSUME NEW v, v = Files[o].id, NEW n \in Object
            PROVE  \/ request'[f].verified[n] = request[f].verified[n]
                   \/ n = o /\ request'[f].verified[n] = v
        <4>1. request'[f].verified = [request[f].verified EXCEPT ![o] = v] BY <3>1, <3>3
        <4>2. request[f].verified \in [Object -> Id] BY <1>1 DEF RequestRecord
        <4> QED BY <4>1, <4>2
      <3>4. \A n \in Object : /\ Vouched(n, request'[f].rows[n])
                              /\ Vouched(n, request'[f].verified[n])
        <4>1. ASSUME NEW n \in Object PROVE Vouched(n, request[f].rows[n])
                                           /\ Vouched(n, request[f].verified[n])
          BY DEF CacheInv
        <4>2. \A n \in Object : \/ request'[f].verified[n] = request[f].verified[n]
                                \/ n = o /\ request'[f].verified[n] = Files[o].id
          BY <3>3
        <4>3. request'[f].rows = request[f].rows BY <3>1
        <4> QED BY <3>2, <4>1, <4>2, <4>3
      <3>5. \A g \in Fact : g # f => request'[g] = request[g] BY <3>1
      <3> QED BY <1>4, <3>4, <3>5
    <2> QED BY <1>5, <2>1, <2>3, <2>4
  <1>9. ASSUME NEW f \in Fact, Serve(f) PROVE RequestsVouched
    <2>1. CASE RecordValidations(f) BY <1>6, <2>1 DEF RecordValidations
    <2>2. CASE Put(f) BY <1>5, <1>6, <2>2 DEF Put
    <2>3. CASE Commit(f) BY <1>6, <2>3 DEF Commit
    <2>4. CASE CommitFails(f) BY <1>5, <2>4 DEF CommitFails
    <2> QED BY <1>7, <1>8, <1>9, <2>1, <2>2, <2>3, <2>4 DEF Serve
  <1>10. ASSUME NEW p \in Operator, TakeBackup(p) \/ Restore(p) PROVE RequestsVouched
    <2>1. CASE TakeBackup(p) BY <1>3, <2>1, BackupsOnlyRead
    <2>2. CASE Restore(p) BY <1>3, <2>2, RestoresOnlyAdd
    <2> QED BY <1>10, <2>1, <2>2
  <1> QED BY <1>3, <1>9, <1>10 DEF Next, vars, Damage, Exchange

LEMMA CacheKeeps ==
  TypeOK /\ FilesInv /\ CacheInv /\ [Next]_vars => FilesInv' /\ CacheInv'
  BY TypesKeep, FilesKeep, RootsAreVouched, RequestsAreVouched, CacheStays

LEMMA CacheInit == Init => FilesInv /\ CacheInv
  <1> SUFFICES ASSUME Init PROVE FilesInv /\ CacheInv OBVIOUS
  <1>1. Len(roots) = 1 /\ Index = {1} BY DEF Init, Index
  <1>2. Losses = 0 BY FS_EmptySet DEF Init, Losses
  <1>3. \A o \in Object : \/ roots[1].files[o] = NoFile
                          \/ roots[1].files[o] = [whole |-> TRUE, id |-> <<1, 1>>]
    BY DEF Init, Root
  <1>4. roots[1].cached = NoRows BY DEF Init, Root
  <1>5. \A f \in Fact : request[f].rows = NoRows /\ request[f].verified = NoRows
    BY DEF Init, NoRequest
  <1>6. FilesInv
    <2>1. ASSUME NEW o \in Object, NEW file, file = roots[1].files[o]
          PROVE  /\ file.whole => Present(file)
                 /\ Present(file) => file.id[1] = 1 /\ file.id[2] <= 1
      <3>1. CASE file = NoFile BY <3>1, NoFileType DEF Present
      <3>2. CASE file = [whole |-> TRUE, id |-> <<1, 1>>] BY <3>2 DEF Present, NoId
      <3> QED BY <1>3, <2>1, <3>1, <3>2
    <2> QED BY <1>1, <1>2, <2>1 DEF FilesInv
  <1>7. CacheInv BY <1>1, <1>4, <1>5 DEF CacheInv, Vouched, NoRows
  <1> QED BY <1>6, <1>7

LEMMA CacheIsHonest == FilesInv /\ CacheInv => CacheIsSound
  BY DEF FilesInv, CacheInv, Vouched, CacheIsSound, Present, Index

-----------------------------------------------------------------------------
\* Roots and the objects their facts refer to.

\* Root i has the object o, unless it was damaged.
HasObject(i, o) == roots[i].files[o].whole \/ <<i, o>> \in past.damaged
Strayed(i) == i \in past.strayed

CompleteInv ==
  /\ RootsStayComplete
  /\ \A f \in Fact :
       /\ Open(f) => request[f].conn = target \/ Strayed(request[f].conn)
       /\ RequestAt(f, "commit") =>
            Strayed(request[f].conn) \/ HasObject(request[f].conn, ObjectOf[f])

LEMMA PastGrows ==
  ASSUME TypeOK, [Next]_vars
  PROVE  past.damaged \subseteq past'.damaged /\ past.strayed \subseteq past'.strayed
  <1>1. CASE UNCHANGED past BY <1>1
  <1>2. CASE \E o \in Object : Damage(o) BY <1>2 DEF Damage, TypeOK, PastOK
  <1>3. CASE \E d \in Destination, e \in Destination : Exchange(d, e)
    BY <1>3 DEF Exchange, TypeOK, PastOK
  <1>4. ASSUME NEW p \in Operator, MoveAside(p)
        PROVE past.damaged \subseteq past'.damaged /\ past.strayed \subseteq past'.strayed
    BY <1>4 DEF MoveAside, TypeOK, PastOK
  <1>5. ASSUME NEW f \in Fact, Serve(f) PROVE UNCHANGED past
    BY <1>5 DEF Serve, Connect, ValidateObject, RecordValidations, Put, Commit,
                CommitFails
  <1> QED BY <1>1, <1>2, <1>3, <1>4, <1>5, BackupsOnlyRead, RestoresOnlyAdd
          DEF Next, vars

\* A root that has an object keeps it, whatever happens.
LEMMA ObjectsStay ==
  ASSUME TypeOK, FilesInv, [Next]_vars
  PROVE  /\ Index \subseteq Index'
         /\ \A i \in Index, o \in Object : HasObject(i, o) => HasObject(i, o)'
  <1>1. past.damaged \subseteq past'.damaged BY PastGrows
  <1>2. ASSUME NEW o \in Object, Damage(o)
        PROVE  /\ Index' = Index
               /\ \A i \in Index, n \in Object : HasObject(i, n) => HasObject(i, n)'
    <2>1. <<target, o>> \in past'.damaged
      BY <1>2, DamageEffect DEF TypeOK, PastOK
    <2>2. /\ Index' = Index
          /\ \A i \in Index, n \in Object :
               <<i, n>> # <<target, o>> => roots'[i].files[n] = roots[i].files[n]
      BY <1>2, DamagedFiles, TypesKeep
    <2> QED BY <1>1, <2>1, <2>2 DEF HasObject
  <1>3. CASE \A o \in Object : ~Damage(o)
    <2>1. Undamaged BY <1>3, OthersDamageNothing
    <2>2. ASSUME NEW i \in Index, NEW o \in Object, HasObject(i, o)
          PROVE  HasObject(i, o)'
      <3>1. CASE roots'[i].files[o] = [whole |-> TRUE, id |-> Stamp(i)]
        BY <3>1 DEF HasObject
      <3>2. CASE roots'[i].files[o] = roots[i].files[o]
        BY <1>1, <2>2, <3>2 DEF HasObject
      <3> QED BY <2>1, <3>1, <3>2 DEF Undamaged
    <2> QED BY <2>1, <2>2 DEF Undamaged
  <1> QED BY <1>2, <1>3

\* What a step leaves in the Journal of root i refers to what the root has, or to
\* the object of the fact that it commits.
FactsFrom(i) ==
  \/ i \in Index /\ roots'[i].facts = roots[i].facts
  \/ i \notin Index /\ \A o \in Refs(roots'[i].facts) : roots'[i].files[o].whole
  \/ \E f \in Fact : /\ Commit(f) /\ i \in Index /\ i = request[f].conn
                     /\ roots'[i].facts = roots[i].facts \cup {f}

LEMMA FactsAreKnown ==
  ASSUME TypeOK, FilesInv, [Next]_vars, NEW i \in Index'
  PROVE  FactsFrom(i)
  <1>1. /\ roots \in Seq(RootRecord) /\ Len(roots) \in Nat
        /\ \A j \in Index : roots[j] \in RootRecord
    BY DEF TypeOK, RootsOK, Index
  <1>2. CASE UNCHANGED roots BY <1>2 DEF FactsFrom, Index
  <1>3. ASSUME NEW x \in RootRecord, AddsRoot(x),
               \A o \in Refs(x.facts) : x.files[o].whole
        PROVE  FactsFrom(i)
    <2>1. i \in Index \/ (i = Len(roots) + 1 /\ i \notin Index)
      BY <1>1, <1>3 DEF AddsRoot, Index
    <2> QED BY <1>3, <2>1 DEF AddsRoot, FactsFrom
  <1>4. ASSUME NEW j \in Index, NEW x \in RootRecord, ChangesRoot(j, x),
               x.facts = roots[j].facts
        PROVE  FactsFrom(i)
    BY <1>1, <1>4 DEF ChangesRoot, FactsFrom, Index
  <1>5. CASE OpenRoot
    <2>1. \A o \in Refs(EmptyRoot.facts) : EmptyRoot.files[o].whole
      BY DEF EmptyRoot, Root, Refs
    <2> QED BY <1>2, <1>3, <1>5, <2>1, OpenRootEffect, EmptyTypes
  <1>6. ASSUME NEW f \in Fact, RecordValidations(f) PROVE FactsFrom(i)
    <2> DEFINE j == request[f].conn
    <2>1. j \in Index BY <1>6, RecordEffect DEF ChangesRoot
    <2>2. PICK x \in RootRecord : ChangesRoot(j, x) /\ x.facts = roots[j].facts
      BY <1>1, <1>6, <2>1, RecordEffect DEF ChangesRoot, RootRecord
    <2> QED BY <1>4, <2>1, <2>2
  <1>7. ASSUME NEW f \in Fact, Put(f), roots' # roots PROVE FactsFrom(i)
    <2>1. PICK j \in Index, x \in RootRecord :
            ChangesRoot(j, x) /\ x.facts = roots[j].facts
      BY <1>1, <1>7, PutEffect DEF ChangesRoot, RootRecord
    <2> QED BY <1>4, <2>1
  <1>8. ASSUME NEW f \in Fact, Commit(f) PROVE FactsFrom(i)
    <2> DEFINE j == request[f].conn
    <2>1. /\ j \in Index /\ roots'[j].facts = roots[j].facts \cup {f}
          /\ \A k \in Index : k # j => roots'[k] = roots[k]
          /\ Index' = Index
      BY <1>1, <1>8, CommitEffect DEF ChangesRoot, RootRecord, Index
    <2> QED BY <1>8, <2>1 DEF FactsFrom
  <1>9. ASSUME NEW p \in Operator, Realize(p) PROVE FactsFrom(i)
    <2> DEFINE x == Realized(call[p].copy)
    <2>1. AddsRoot(x) /\ x \in RootRecord BY <1>9, RealizeEffect DEF AddsRoot
    <2>2. call[p].copy.facts \in SUBSET Fact
      BY DEF TypeOK, CallOK, CallRecord, BackupRecord
    <2>3. \A o \in Refs(x.facts) : x.files[o].whole
      BY <2>2, RefsType DEF Realized, Root, FilesOf
    <2> HIDE DEF x
    <2> QED BY <1>3, <2>1, <2>3
  <1>10. ASSUME NEW o \in Object, Damage(o) PROVE FactsFrom(i)
    BY <1>10, DamagedFiles, TypesKeep DEF FactsFrom
  <1>11. ASSUME NEW f \in Fact, Serve(f) PROVE FactsFrom(i)
    <2>1. CASE Connect(f) BY <1>5, <2>1 DEF Connect
    <2> QED BY <1>2, <1>6, <1>7, <1>8, <1>11, <2>1 DEF Serve, ValidateObject, CommitFails
  <1>12. ASSUME NEW p \in Operator, TakeBackup(p) PROVE FactsFrom(i)
    <2>1. CASE Snapshot(p) BY <1>5, <2>1 DEF Snapshot
    <2> QED BY <1>2, <1>12, <2>1, BackupsOnlyRead
  <1>13. ASSUME NEW p \in Operator, Restore(p) PROVE FactsFrom(i)
    BY <1>2, <1>9, <1>13, RestoresOnlyAdd
  <1> QED BY <1>2, <1>10, <1>11, <1>12, <1>13 DEF Next, vars, Exchange

LEMMA RootsKeepComplete ==
  ASSUME TypeOK, FilesInv, CompleteInv, [Next]_vars
  PROVE  RootsStayComplete'
  <1>1. TypeOK' BY TypesKeep
  <1>2. past.strayed \subseteq past'.strayed BY PastGrows
  <1>3. ASSUME NEW i \in Index', NEW o \in Refs(roots'[i].facts), ~Strayed(i)'
        PROVE  HasObject(i, o)'
    <2>1. roots'[i] \in RootRecord BY <1>1 DEF TypeOK, RootsOK, Index
    <2>2. o \in Object BY <2>1, RefsType DEF RootRecord
    <2>3. CASE i \in Index /\ roots'[i].facts = roots[i].facts
      <3>1. HasObject(i, o)
        BY <1>2, <1>3, <2>3 DEF CompleteInv, RootsStayComplete, HasObject, Strayed, Index
      <3> QED BY <2>2, <2>3, <3>1, ObjectsStay
    <2>4. CASE \A n \in Refs(roots'[i].facts) : roots'[i].files[n].whole
      BY <2>4 DEF HasObject
    <2>5. ASSUME NEW f \in Fact, Commit(f), i \in Index, i = request[f].conn,
                 roots'[i].facts = roots[i].facts \cup {f}
          PROVE  HasObject(i, o)'
      <3>1. o \in Refs(roots[i].facts) \/ o = ObjectOf[f] BY <2>5 DEF Refs
      <3>2. HasObject(i, o)
        BY <1>2, <1>3, <2>5, <3>1
           DEF CompleteInv, RootsStayComplete, HasObject, Strayed, Index, Commit
      <3> QED BY <2>2, <2>5, <3>2, ObjectsStay
    <2> QED BY <2>3, <2>4, <2>5, FactsAreKnown DEF FactsFrom
  <1> QED BY <1>3 DEF RootsStayComplete, HasObject, Strayed, Index

\* Requests that hold a root open.
OpenOK(f) ==
  /\ Open(f) => request[f].conn = target \/ Strayed(request[f].conn)
  /\ RequestAt(f, "commit") =>
       Strayed(request[f].conn) \/ HasObject(request[f].conn, ObjectOf[f])

LEMMA RequestsStayOpen ==
  ASSUME TypeOK, FilesInv, CompleteInv, [Next]_vars, NEW f \in Fact
  PROVE  OpenOK(f)'
  <1>1. /\ request \in [Fact -> RequestRecord] /\ ObjectOf[f] \in Object
        /\ \A g \in Fact : Open(g) => request[g].conn \in Index /\ request[g].conn # 0
    BY StateRootAssumption DEF TypeOK, RequestOK, RootsOK, Index
  <1>2. \A i : Strayed(i) => Strayed(i)' BY PastGrows DEF Strayed
  <1>3. \A i \in Index, o \in Object : HasObject(i, o) => HasObject(i, o)'
    BY ObjectsStay
  <1>4. CASE request'[f].pc \notin {"validate", "put", "commit"}
    BY <1>4 DEF OpenOK, Open, RequestAt
  <1> DEFINE Astray(i) == i \in past'.strayed
             Has(i, o) == roots'[i].files[o].whole \/ <<i, o>> \in past'.damaged
             c == request[f].conn
  <1>5. ASSUME request'[f] = request[f],
               \/ target' = target \/ target = 0
               \/ Open(f) /\ c = target => Astray(target)
        PROVE  OpenOK(f)'
    <2>1. ASSUME Open(f) PROVE c = target' \/ Astray(c)
      BY <1>1, <1>2, <1>5, <2>1 DEF CompleteInv, Strayed
    <2>2. ASSUME RequestAt(f, "commit") PROVE Astray(c) \/ Has(c, ObjectOf[f])
      <3>1. Strayed(c) \/ HasObject(c, ObjectOf[f]) BY <2>2 DEF CompleteInv
      <3>2. c \in Index BY <1>1, <2>2 DEF Open, RequestAt
      <3> QED BY <1>1, <1>2, <1>3, <3>1, <3>2 DEF Strayed, HasObject
    <2>3. (Open(f)' <=> Open(f)) /\ (RequestAt(f, "commit")' <=> RequestAt(f, "commit"))
          /\ request'[f].conn = c
      BY <1>5 DEF Open, RequestAt
    <2> QED BY <2>1, <2>2, <2>3 DEF OpenOK, Strayed, HasObject
  <1>6. ASSUME request'[f].pc # "commit", Open(f), request'[f].conn = c, target' = target
        PROVE  OpenOK(f)'
    <2>1. c = target' \/ Astray(c) BY <1>2, <1>6 DEF CompleteInv, Strayed
    <2> QED BY <1>6, <2>1 DEF OpenOK, RequestAt, Strayed
  <1>7. ASSUME NEW g \in Fact, Connect(g) PROVE OpenOK(f)'
    <2>1. target' # 0 /\ target' = Opened /\ (target # 0 => target' = target)
      BY <1>7, OpenRootEffect DEF Connect
    <2>2. CASE g = f
      <3>1. request'[f].pc = "validate" /\ request'[f].conn = Opened
        BY <1>1, <1>7, <2>2 DEF Connect
      <3> QED BY <2>1, <3>1 DEF OpenOK, RequestAt
    <2>3. CASE g # f
      <3>1. request'[f] = request[f] BY <1>1, <1>7, <2>3 DEF Connect
      <3> QED BY <1>5, <2>1, <3>1
    <2> QED BY <2>2, <2>3
  <1>8. ASSUME NEW g \in Fact, Serve(g), ~Connect(g)
        PROVE  target' = target /\ (g # f => request'[f] = request[f])
    BY <1>1, <1>8 DEF Serve, ValidateObject, RecordValidations, Put, Commit, CommitFails,
                      EndRequest, RequestGoto
  <1>9. ASSUME Put(f) PROVE OpenOK(f)'
    <2> DEFINE o == ObjectOf[f]
               i == request[f].conn
    <2>1. CASE EndRequest(f)
      BY <1>1, <1>4, <2>1 DEF EndRequest, NoRequest
    <2>2. CASE /\ RequestGoto(f, "commit")
               /\ \/ Files[o].whole /\ UNCHANGED roots
                  \/ /\ target # 0
                     /\ roots' = [roots EXCEPT ![target].files[o] =
                                    [whole |-> TRUE, id |-> Stamp(target)]]
      <3>1. request'[f].conn = i /\ target' = target /\ past' = past
        BY <1>1, <1>9, <2>2 DEF RequestGoto, Put, RequestRecord
      <3>2. i \in Index /\ (i = target \/ Strayed(i))
        BY <1>1, <1>9 DEF Put, RequestAt, Open, CompleteInv
      <3>3. i = target => roots'[i].files[o].whole
        <4>1. CASE Files[o].whole /\ UNCHANGED roots
          <5>1. ~NoFile.whole BY NoFileType
          <5> QED BY <1>1, <3>2, <4>1, <5>1 DEF Files
        <4>2. ASSUME NEW file, file = [whole |-> TRUE, id |-> Stamp(target)], target # 0,
                     roots' = [roots EXCEPT ![target].files[o] = file]
              PROVE  roots'[target].files[o].whole
          <5>1. /\ target \in Index /\ roots \in Seq(RootRecord)
                /\ roots[target] \in RootRecord
            BY <4>2 DEF TypeOK, RootsOK, Index
          <5>2. roots'[target].files[o] = file BY <1>1, <4>2, <5>1 DEF RootRecord, Index
          <5> QED BY <4>2, <5>2
        <4> QED BY <2>2, <4>1, <4>2
      <3> QED BY <3>1, <3>2, <3>3 DEF OpenOK, HasObject, Strayed
    <2> QED BY <1>9, <2>1, <2>2 DEF Put
  <1>10. ASSUME NEW g \in Fact, Serve(g) PROVE OpenOK(f)'
    <2>1. CASE Connect(g) BY <1>7, <2>1
    <2>2. CASE ~Connect(g) /\ g # f BY <1>5, <1>8, <1>10, <2>2
    <2>3. CASE Put(f) BY <1>9, <2>3
    <2>4. CASE ValidateObject(f)
      <3>1. PICK o \in request[f].todo :
              \/ request' = [request EXCEPT ![f].todo = @ \ {o}]
              \/ request' = [request EXCEPT ![f].todo = @ \ {o},
                                            ![f].verified[o] = Files[o].id]
              \/ EndRequest(f)
        BY <2>4, Zenon DEF ValidateObject
      <3>2. target' = target /\ Open(f) /\ request[f].pc = "validate"
        BY <2>4 DEF ValidateObject, RequestAt, Open
      <3>3. CASE EndRequest(f) BY <1>1, <1>4, <3>3 DEF EndRequest, NoRequest
      <3>4. ASSUME NEW v, request' = [request EXCEPT ![f].todo = @ \ {o}]
                          \/ request' = [request EXCEPT ![f].todo = @ \ {o},
                                                        ![f].verified[o] = v]
            PROVE  request'[f].pc = request[f].pc /\ request'[f].conn = request[f].conn
        BY <1>1, <3>4 DEF RequestRecord
      <3> QED BY <1>6, <3>1, <3>2, <3>3, <3>4
    <2>5. CASE RecordValidations(f)
      <3>1. /\ request'[f].pc = "put" /\ request'[f].conn = request[f].conn
            /\ target' = target /\ Open(f) /\ request[f].pc = "validate"
        BY <1>1, <2>5 DEF RecordValidations, RequestGoto, RequestAt, RequestRecord, Open
      <3> QED BY <1>6, <3>1
    <2>6. CASE Commit(f) \/ CommitFails(f)
      BY <1>1, <1>4, <2>6 DEF Commit, CommitFails, RequestGoto, EndRequest, NoRequest,
                              RequestRecord
    <2> QED BY <1>10, <2>1, <2>2, <2>3, <2>4, <2>5, <2>6 DEF Serve
  <1>11. ASSUME NEW p \in Operator, TakeBackup(p) PROVE OpenOK(f)'
    <2>1. UNCHANGED request BY <1>11, BackupsOnlyRead
    <2>2. target' = target \/ target = 0
      <3>1. CASE Snapshot(p) BY <3>1, OpenRootEffect DEF Snapshot
      <3>2. CASE CopyObject(p) BY <3>2, Zenon DEF CopyObject
      <3>3. CASE \E d \in Destination : BeginBackup(p, d) BY <3>3, Zenon DEF BeginBackup
      <3>4. CASE VerifyCopy(p) \/ Publish(p) BY <3>4, Zenon DEF VerifyCopy, Publish
      <3> QED BY <1>11, <3>1, <3>2, <3>3, <3>4 DEF TakeBackup
    <2> QED BY <1>5, <2>1, <2>2
  <1>12. ASSUME NEW p \in Operator, MoveAside(p) PROVE OpenOK(f)'
    <2>1. request' = request BY <1>12 DEF MoveAside
    <2>2. CASE target' = target BY <1>5, <2>1, <2>2
    <2>3. CASE past' = [past EXCEPT !.moved = @ \cup {target},
                         !.strayed = @ \cup {i \in {target} :
                            \E g \in Fact : Open(g) /\ request[g].conn = i}]
      <3>1. past'.strayed = past.strayed \cup {i \in {target} :
                            \E g \in Fact : Open(g) /\ request[g].conn = i}
        BY <2>3 DEF TypeOK, PastOK
      <3> QED BY <1>5, <2>1, <3>1
    <2> QED BY <1>12, <2>2, <2>3, Zenon DEF MoveAside
  <1>13. ASSUME NEW p \in Operator, Restore(p) PROVE OpenOK(f)'
    <2>1. UNCHANGED request BY <1>13, RestoresOnlyAdd
    <2> QED BY <1>5, <1>12, <1>13, <2>1, RestoresOnlyAdd
  <1>14. CASE UNCHANGED <<request, target>> BY <1>5, <1>14
  <1> QED BY <1>10, <1>11, <1>13, <1>14 DEF Next, vars, Damage, Exchange

LEMMA CompleteKeeps == TypeOK /\ FilesInv /\ CompleteInv /\ [Next]_vars => CompleteInv'
  BY RootsKeepComplete, RequestsStayOpen
     DEF CompleteInv, OpenOK, Open, RequestAt, Strayed, HasObject

LEMMA CompleteInit == Init => CompleteInv
  <1> SUFFICES ASSUME Init PROVE CompleteInv OBVIOUS
  <1>1. \A o \in Refs(Held) : o \in Object => roots[1].files[o].whole BY DEF Init, Root
  <1>2. RootsStayComplete
    BY <1>1, StateRootAssumption, RefsType DEF Init, Root, RootsStayComplete
  <1> QED BY <1>2 DEF Init, CompleteInv, NoRequest, Open, RequestAt

-----------------------------------------------------------------------------
\* Backups that fail.

\* Nothing was damaged, and no root moved away from its path.
Calm == past.damaged = {} /\ past.moved = {}

\* What a backup has copied so far, of a root that has everything.
CopyOK(c) ==
  c.kind = "backup" =>
    /\ c.pc \in {"snapshot", "copy", "publish", "done", "failed"}
    /\ c.pc = "failed" => backups[c.dest].there \/ ~Calm
    /\ c.pc = "copy" /\ Calm =>
         /\ c.copy.facts \subseteq roots[target].facts
         /\ c.todo \subseteq Refs(c.copy.facts)
         /\ \A o \in Object : IF o \in Refs(c.copy.facts) \ c.todo
                                THEN c.copy.files[o].whole
                                ELSE ~Present(c.copy.files[o])

BackupInv ==
  /\ past.strayed \subseteq past.moved
  /\ past.moved = {} => target # 0
  /\ \A p \in Operator : CopyOK(call[p])

LEMMA CalmSteps ==
  ASSUME TypeOK, FilesInv, EvidenceInv, BackupInv, [Next]_vars
  PROVE  /\ past'.strayed \subseteq past'.moved
         /\ past.damaged \subseteq past'.damaged /\ past.moved \subseteq past'.moved
         /\ past'.moved = {} => target # 0 /\ target' = target
         /\ \A i \in Index : roots[i].facts \subseteq roots'[i].facts
         /\ \A d \in Destination : backups[d].there => backups'[d].there
  <1>1. /\ past'.strayed \subseteq past'.moved
        /\ past.damaged \subseteq past'.damaged /\ past.moved \subseteq past'.moved
    <2>1. CASE UNCHANGED past BY <2>1 DEF BackupInv
    <2>2. CASE \E o \in Object : Damage(o)
      BY <2>2 DEF Damage, TypeOK, PastOK, BackupInv
    <2>3. CASE \E d \in Destination, e \in Destination : Exchange(d, e)
      BY <2>3 DEF Exchange, TypeOK, PastOK, BackupInv
    <2>4. ASSUME NEW p \in Operator, MoveAside(p), past' # past
          PROVE  /\ past'.strayed \subseteq past'.moved
                 /\ past.damaged \subseteq past'.damaged /\ past.moved \subseteq past'.moved
      <3>1. past' = [past EXCEPT !.moved = @ \cup {target},
                         !.strayed = @ \cup {i \in {target} :
                            \E g \in Fact : Open(g) /\ request[g].conn = i}]
        BY <2>4, Zenon DEF MoveAside
      <3>2. past'.damaged = past.damaged /\ past'.moved = past.moved \cup {target}
            /\ past'.strayed = past.strayed \cup {i \in {target} :
                            \E g \in Fact : Open(g) /\ request[g].conn = i}
        BY <3>1 DEF TypeOK, PastOK
      <3> QED BY <3>2 DEF BackupInv
    <2>5. ASSUME NEW f \in Fact, Serve(f) PROVE UNCHANGED past
      BY <2>5 DEF Serve, Connect, ValidateObject, RecordValidations, Put, Commit,
                  CommitFails
    <2> QED BY <2>1, <2>2, <2>3, <2>4, <2>5, BackupsOnlyRead, RestoresOnlyAdd
            DEF Next, vars
  <1>2. ASSUME past'.moved = {} PROVE target # 0 /\ target' = target
    <2>1. target # 0 BY <1>1, <1>2 DEF BackupInv
    <2>2. CASE OpenRoot BY <2>1, <2>2, OpenRootEffect
    <2>3. ASSUME NEW f \in Fact, Serve(f) PROVE OpenRoot \/ target' = target
      BY <2>3 DEF Serve, Connect, ValidateObject, RecordValidations, Put, Commit,
                  CommitFails
    <2>4. ASSUME NEW p \in Operator, TakeBackup(p) PROVE OpenRoot \/ target' = target
      <3>1. CASE \E d \in Destination : BeginBackup(p, d) BY <3>1, Zenon DEF BeginBackup
      <3>2. CASE Snapshot(p) BY <3>2, Zenon DEF Snapshot
      <3>3. CASE CopyObject(p) BY <3>3, Zenon DEF CopyObject
      <3>4. CASE VerifyCopy(p) \/ Publish(p) BY <3>4, Zenon DEF VerifyCopy, Publish
      <3> QED BY <2>4, <3>1, <3>2, <3>3, <3>4 DEF TakeBackup
    <2>5. ASSUME NEW p \in Operator, MoveAside(p) PROVE target' = target
      <3>1. CASE past' = [past EXCEPT !.moved = @ \cup {target},
                           !.strayed = @ \cup {i \in {target} :
                              \E g \in Fact : Open(g) /\ request[g].conn = i}]
        <4>1. target \in past'.moved BY <3>1 DEF TypeOK, PastOK
        <4> QED BY <1>2, <4>1
      <3> QED BY <2>5, <3>1, Zenon DEF MoveAside
    <2> QED BY <2>1, <2>2, <2>3, <2>4, <2>5, RestoresOnlyAdd
            DEF Next, vars, Damage, Exchange
  <1>3. ASSUME NEW i \in Index PROVE roots[i].facts \subseteq roots'[i].facts
    <2>1. i \in Index' BY ObjectsStay
    <2> QED BY <1>3, <2>1, FactsAreKnown DEF FactsFrom
  <1>4. ASSUME NEW d \in Destination, backups[d].there PROVE backups'[d].there
    <2>1. CASE UNCHANGED backups BY <1>4, <2>1
    <2>2. CASE \E a \in Destination, b \in Destination : Exchange(a, b)
      BY <1>4, <2>2 DEF Exchange, TypeOK
    <2>3. ASSUME NEW p \in Operator, Publish(p), backups' # backups PROVE backups'[d].there
      <3>1. /\ call[p].pc = "publish"
            /\ backups' = [backups EXCEPT ![call[p].dest] = call[p].copy]
        BY <2>3 DEF Publish, CallAt
      <3>2. call[p].copy.there BY <3>1 DEF EvidenceInv
      <3> QED BY <1>4, <3>1, <3>2 DEF TypeOK
    <2>4. ASSUME NEW p \in Operator, TakeBackup(p) PROVE UNCHANGED backups \/ Publish(p)
      <3>1. CASE \E e \in Destination : BeginBackup(p, e) BY <3>1, Zenon DEF BeginBackup
      <3>2. CASE Snapshot(p) BY <3>2, Zenon DEF Snapshot
      <3>3. CASE CopyObject(p) BY <3>3, Zenon DEF CopyObject
      <3>4. CASE VerifyCopy(p) BY <3>4, Zenon DEF VerifyCopy
      <3> QED BY <2>4, <3>1, <3>2, <3>3, <3>4 DEF TakeBackup
    <2>5. ASSUME NEW p \in Operator, Restore(p) PROVE UNCHANGED backups
      <3>1. CASE \E e \in Destination, replace \in BOOLEAN : BeginRestore(p, e, replace)
        BY <3>1, Zenon DEF BeginRestore
      <3>2. CASE StageJournal(p) \/ StageObjects(p)
        BY <3>2, Zenon DEF StageJournal, StageObjects
      <3>3. CASE VerifyStaged(p) BY <3>3, Zenon DEF VerifyStaged
      <3>4. CASE Realize(p) BY <3>4, Zenon DEF Realize
      <3>5. CASE MoveAside(p) \/ Cleanup(p) BY <3>5, Zenon DEF MoveAside, Cleanup
      <3>6. CASE Install(p) \/ InstallFails(p) BY <3>6, Zenon DEF Install, InstallFails
      <3> QED BY <2>5, <3>1, <3>2, <3>3, <3>4, <3>5, <3>6 DEF Restore
    <2>6. ASSUME NEW f \in Fact, Serve(f) PROVE UNCHANGED backups
      BY <2>6 DEF Serve, Connect, ValidateObject, RecordValidations, Put, Commit,
                  CommitFails
    <2> QED BY <2>1, <2>2, <2>3, <2>4, <2>5, <2>6 DEF Next, vars, Damage
  <1> QED BY <1>1, <1>2, <1>3, <1>4

\* A call that the step leaves alone.
LEMMA CopyStays ==
  ASSUME TypeOK, FilesInv, EvidenceInv, BackupInv, [Next]_vars,
         NEW p \in Operator, call'[p] = call[p]
  PROVE  CopyOK(call[p])'
  <1> DEFINE c == call[p]
  <1>1. c \in CallRecord /\ CopyOK(c) /\ (c.kind = "backup" => c.dest \in Destination)
    BY DEF TypeOK, CallOK, BackupInv, CallAt, NoCall
  <1>2. Calm' => Calm BY CalmSteps DEF Calm
  <1>3. Calm' => target \in Index /\ target' = target
    BY CalmSteps DEF Calm, TypeOK, RootsOK
  <1>4. Calm' => roots[target].facts \subseteq roots'[target'].facts
    BY <1>3, CalmSteps
  <1>5. c.kind = "backup" /\ backups[c.dest].there => backups'[c.dest].there
    BY <1>1, CalmSteps
  <1> HIDE DEF c
  <1>6. c.kind = "backup" =>
          /\ c.pc \in {"snapshot", "copy", "publish", "done", "failed"}
          /\ c.pc = "failed" => backups'[c.dest].there \/ ~Calm'
          /\ c.pc = "copy" /\ Calm' =>
               /\ c.copy.facts \subseteq roots'[target'].facts
               /\ c.todo \subseteq Refs(c.copy.facts)
               /\ \A o \in Object : IF o \in Refs(c.copy.facts) \ c.todo
                                      THEN c.copy.files[o].whole
                                      ELSE ~Present(c.copy.files[o])
    BY <1>1, <1>2, <1>4, <1>5 DEF CopyOK
  <1>7. call'[p] = c BY DEF c
  <1> QED BY <1>6, <1>7 DEF CopyOK, Refs, Present, Calm

LEMMA BackupsStayOK ==
  ASSUME TypeOK, FilesInv, EvidenceInv, CompleteInv, BackupInv, [Next]_vars,
         NEW p \in Operator, TakeBackup(p)
  PROVE  CopyOK(call[p])'
  <1>1. /\ call \in [Operator -> CallRecord] /\ call[p] \in CallRecord
        /\ CopyOK(call[p])
    BY DEF TypeOK, CallOK, BackupInv
  <1>2. ASSUME call[p].kind = "backup", call[p].pc = "copy", Calm, NEW o \in call[p].todo
        PROVE  o \in Object /\ Files[o].whole /\ Present(Files[o])
    <2>1. o \in Object BY <1>1 DEF CallRecord
    <2>2. target # 0 /\ target \in Index /\ target \notin past.strayed
      BY <1>2 DEF BackupInv, Calm, TypeOK, RootsOK
    <2>3. o \in Refs(roots[target].facts) BY <1>1, <1>2 DEF CopyOK, Refs
    <2>4. roots[target].files[o].whole
      BY <1>2, <2>2, <2>3 DEF CompleteInv, RootsStayComplete, Index, Calm
    <2> QED BY <2>1, <2>2, <2>4 DEF Files, FilesInv
  <1>3. CASE \E d \in Destination : BeginBackup(p, d)
    <2>1. call'[p].pc = "snapshot" BY <1>1, <1>3 DEF BeginBackup, CallBecomes, NoCall
    <2> QED BY <2>1 DEF CopyOK
  <1>4. CASE Snapshot(p)
    <2> DEFINE facts == IF target = 0 THEN {} ELSE roots[target].facts
    <2>1. /\ call'[p].pc = "copy" /\ call'[p].todo = Refs(facts)
          /\ call'[p].copy = Backup(facts, NoBackup.files)
      BY <1>1, <1>4 DEF Snapshot, CallBecomes, CallRecord
    <2>2. \A o \in Object : NoBackup.files[o] = NoFile BY DEF NoBackup
    <2>3. Calm' => facts \subseteq roots'[target'].facts
      BY CalmSteps DEF Calm, TypeOK, RootsOK
    <2>4. /\ Backup(facts, NoBackup.files).facts = facts
          /\ \A o \in Object : ~Present(Backup(facts, NoBackup.files).files[o])
      BY <2>2, NoFileType DEF Backup, Present
    <2> HIDE DEF facts
    <2> QED BY <2>1, <2>3, <2>4 DEF CopyOK, Refs, Present
  <1>5. CASE CopyObject(p)
    <2>1. PICK o \in call[p].todo :
            IF Present(Files[o])
              THEN call' = [call EXCEPT ![p].todo = @ \ {o}, ![p].copy.files[o] = Files[o]]
              ELSE CallGoto(p, "failed")
      BY <1>5, Zenon DEF CopyObject
    <2>2. /\ call[p].pc = "copy" /\ UNCHANGED past
      BY <1>5, BackupsOnlyRead, Zenon DEF CopyObject, CallAt
    <2>3. CASE CallGoto(p, "failed") /\ ~Present(Files[o])
      <3>1. call'[p].pc = "failed" /\ call'[p].kind = call[p].kind
        BY <1>1, <2>3 DEF CallGoto, CallRecord
      <3>2. call[p].kind = "backup" => ~Calm BY <1>2, <2>1, <2>2, <2>3
      <3> QED BY <2>2, <3>1, <3>2 DEF CopyOK, Calm
    <2>4. CASE Present(Files[o])
      <3> DEFINE files == [call[p].copy.files EXCEPT ![o] = Files[o]]
                 todo == call[p].todo \ {o}
      <3>0. call' = [call EXCEPT ![p].todo = todo, ![p].copy.files = files]
        BY <1>1, <2>1, <2>4 DEF CallRecord, BackupRecord
      <3>1. /\ call'[p].pc = "copy" /\ call'[p].kind = call[p].kind
            /\ call'[p].todo = todo
            /\ call'[p].copy.facts = call[p].copy.facts
            /\ call'[p].copy.files = files
        <4> HIDE DEF files, todo
        <4> QED BY <1>1, <2>2, <3>0 DEF CallRecord, BackupRecord
      <3>2. call[p].copy.files \in [Object -> File] /\ o \in Object
            /\ call[p].copy.facts \in SUBSET Fact
        BY <1>1 DEF CallRecord, BackupRecord
      <3>3. ASSUME Calm', call[p].kind = "backup"
            PROVE  /\ call'[p].copy.facts \subseteq roots'[target'].facts
                   /\ call'[p].todo \subseteq Refs(call'[p].copy.facts)
                   /\ \A n \in Object : IF n \in Refs(call'[p].copy.facts) \ call'[p].todo
                                          THEN call'[p].copy.files[n].whole
                                          ELSE ~Present(call'[p].copy.files[n])
        <4>1. Calm BY <2>2, <3>3 DEF Calm
        <4>2. /\ call[p].copy.facts \subseteq roots[target].facts
              /\ call[p].todo \subseteq Refs(call[p].copy.facts)
              /\ \A n \in Object : IF n \in Refs(call[p].copy.facts) \ call[p].todo
                                     THEN call[p].copy.files[n].whole
                                     ELSE ~Present(call[p].copy.files[n])
          BY <1>1, <2>2, <3>3, <4>1 DEF CopyOK
        <4>3. Files[o].whole BY <1>2, <2>2, <3>3, <4>1
        <4>4. call[p].copy.facts \subseteq roots'[target'].facts
          BY <3>3, <4>2, CalmSteps DEF Calm, TypeOK, RootsOK
        <4>5. \A n \in Object :
                call'[p].copy.files[n] = IF n = o THEN Files[o] ELSE call[p].copy.files[n]
          BY <3>1, <3>2
        <4>6. call'[p].todo = call[p].todo \ {o} /\ call'[p].copy.facts = call[p].copy.facts
          BY <3>1
        <4> QED BY <4>2, <4>3, <4>4, <4>5, <4>6
      <3>4. call'[p].pc = "copy" /\ call'[p].kind = call[p].kind BY <3>1
      <3> QED BY <3>3, <3>4 DEF CopyOK, Refs, Present
    <2> QED BY <2>1, <2>3, <2>4
  <1>6. CASE VerifyCopy(p)
    <2>1. /\ call[p].pc = "copy" /\ call[p].todo = {} /\ UNCHANGED past
          /\ call'[p].kind = call[p].kind
          /\ call'[p].pc = IF Complete(call[p].copy) THEN "publish" ELSE "failed"
      BY <1>1, <1>6 DEF VerifyCopy, CallAt, CallGoto, CallRecord
    <2>2. call[p].kind = "backup" /\ Calm => Complete(call[p].copy)
      BY <1>1, <2>1 DEF CopyOK, Complete
    <2> QED BY <2>1, <2>2 DEF CopyOK, Calm
  <1>7. CASE Publish(p)
    <2>1. /\ call'[p].dest = call[p].dest
          /\ \/ call'[p].pc = "done"
             \/ call'[p].pc = "failed" /\ backups[call[p].dest].there
                /\ UNCHANGED backups
      BY <1>1, <1>7 DEF Publish, CallGoto, CallRecord
    <2> QED BY <2>1 DEF CopyOK
  <1> QED BY <1>3, <1>4, <1>5, <1>6, <1>7 DEF TakeBackup

LEMMA RestoresStayOK ==
  ASSUME TypeOK, BackupInv, NEW p \in Operator, Restore(p)
  PROVE  CopyOK(call[p])'
  <1>1. call \in [Operator -> CallRecord] /\ call[p] \in CallRecord /\ CopyOK(call[p])
    BY DEF TypeOK, CallOK, BackupInv
  <1>2. CASE \E d \in Destination, replace \in BOOLEAN : BeginRestore(p, d, replace)
    <2>1. call'[p].kind = "restore"
      BY <1>1, <1>2 DEF BeginRestore, CallBecomes, NoCall
    <2> QED BY <2>1 DEF CopyOK
  <1>3. CASE call[p].pc \notin {"idle", "snapshot", "copy", "publish", "done", "failed"}
             /\ call'[p].kind = call[p].kind
    BY <1>1, <1>3 DEF CopyOK
  <1>4. CASE StageJournal(p) BY <1>1, <1>3, <1>4 DEF StageJournal, CallAt, CallRecord
  <1>5. CASE StageObjects(p)
    BY <1>1, <1>3, <1>5 DEF StageObjects, CallAt, CallGoto, CallRecord
  <1>6. CASE VerifyStaged(p)
    <2>1. PICK b, pc : call' = [call EXCEPT ![p].copy = b, ![p].pc = pc]
      BY <1>6, Zenon DEF VerifyStaged
    <2>2. call'[p].kind = call[p].kind BY <1>1, <2>1 DEF CallRecord
    <2>3. call[p].pc = "verify" BY <1>6, Zenon DEF VerifyStaged, CallAt
    <2> QED BY <1>3, <2>2, <2>3
  <1>7. CASE Realize(p) BY <1>1, <1>3, <1>7 DEF Realize, CallAt, CallRecord
  <1>8. CASE MoveAside(p) BY <1>1, <1>3, <1>8 DEF MoveAside, CallAt, CallGoto, CallRecord
  <1>9. CASE Install(p) \/ InstallFails(p) \/ Cleanup(p)
    BY <1>1, <1>3, <1>9 DEF Install, InstallFails, Cleanup, CallAt, CallGoto, CallRecord
  <1> QED BY <1>2, <1>4, <1>5, <1>6, <1>7, <1>8, <1>9 DEF Restore

\* A step of p leaves the other calls alone.
LEMMA StepsAreOnesOwn ==
  ASSUME TypeOK, NEW p \in Operator, TakeBackup(p) \/ Restore(p),
         NEW q \in Operator, q # p
  PROVE  call'[q] = call[q]
  <1>1. call \in [Operator -> CallRecord] BY DEF TypeOK, CallOK
  <1>2. CASE TakeBackup(p)
    <2>1. CASE CopyObject(p) BY <1>1, <2>1 DEF CopyObject, CallGoto
    <2>2. CASE \E d \in Destination : BeginBackup(p, d)
      BY <1>1, <2>2 DEF BeginBackup, CallBecomes
    <2>3. CASE Snapshot(p) BY <1>1, <2>3 DEF Snapshot, CallBecomes
    <2>4. CASE VerifyCopy(p) \/ Publish(p) BY <1>1, <2>4 DEF VerifyCopy, Publish, CallGoto
    <2> QED BY <1>2, <2>1, <2>2, <2>3, <2>4 DEF TakeBackup
  <1>3. CASE Restore(p)
    <2>1. CASE \E d \in Destination, replace \in BOOLEAN : BeginRestore(p, d, replace)
      BY <1>1, <2>1 DEF BeginRestore, CallBecomes
    <2>2. CASE StageJournal(p) BY <1>1, <2>2 DEF StageJournal
    <2>3. CASE StageObjects(p) BY <1>1, <2>3 DEF StageObjects, CallGoto
    <2>4. CASE VerifyStaged(p)
      <3>1. PICK b, pc : call' = [call EXCEPT ![p].copy = b, ![p].pc = pc]
        BY <2>4, Zenon DEF VerifyStaged
      <3> QED BY <1>1, <3>1
    <2>5. CASE Realize(p) BY <1>1, <2>5 DEF Realize
    <2>6. CASE MoveAside(p) BY <1>1, <2>6 DEF MoveAside, CallGoto
    <2>7. CASE Install(p) \/ InstallFails(p) \/ Cleanup(p)
      BY <1>1, <2>7 DEF Install, InstallFails, Cleanup, CallGoto
    <2> QED BY <1>3, <2>1, <2>2, <2>3, <2>4, <2>5, <2>6, <2>7 DEF Restore
  <1> QED BY <1>2, <1>3

LEMMA BackupKeeps ==
  TypeOK /\ FilesInv /\ EvidenceInv /\ CompleteInv /\ BackupInv /\ [Next]_vars => BackupInv'
  <1> SUFFICES ASSUME TypeOK, FilesInv, EvidenceInv, CompleteInv, BackupInv, [Next]_vars
               PROVE  BackupInv'
    OBVIOUS
  <1>1. past'.strayed \subseteq past'.moved /\ (past'.moved = {} => target' # 0)
    BY CalmSteps
  <1>2. ASSUME NEW p \in Operator PROVE CopyOK(call[p])'
    <2>1. CASE call'[p] = call[p] BY <2>1, CopyStays
    <2>2. CASE TakeBackup(p) BY <2>2, BackupsStayOK
    <2>3. CASE Restore(p) BY <2>3, RestoresStayOK
    <2>4. UNCHANGED call \/ \E q \in Operator : TakeBackup(q) \/ Restore(q)
      <3>1. ASSUME NEW f \in Fact, Serve(f) PROVE UNCHANGED call
        BY <3>1 DEF Serve, Connect, ValidateObject, RecordValidations, Put, Commit,
                    CommitFails
      <3> QED BY <3>1 DEF Next, vars, Damage, Exchange
    <2> QED BY <2>1, <2>2, <2>3, <2>4, StepsAreOnesOwn
  <1> QED BY <1>1, <1>2 DEF BackupInv

LEMMA BackupInit == Init => BackupInv
  BY DEF Init, BackupInv, CopyOK, NoCall

-----------------------------------------------------------------------------
\* The theorems

\* What every reachable state satisfies: the parts lean on each other only as the
\* lemmas above say.
StateInv ==
  TypeOK /\ LocationInv /\ EvidenceInv /\ FilesInv /\ CacheInv /\ CompleteInv /\ BackupInv

LEMMA StateInit == Init => StateInv
  BY InitTypes, LocationInit, EvidenceInit, CacheInit, CompleteInit, BackupInit
     DEF StateInv

LEMMA StateKeeps == StateInv /\ [Next]_vars => StateInv'
  BY TypesKeep, LocationKeeps, EvidenceKeeps, CacheKeeps, CompleteKeeps, BackupKeeps
     DEF StateInv

LEMMA StateHolds == Spec => []StateInv
  BY StateInit, StateKeeps, PTL DEF Spec

\* The variables keep their types (ops/backup.py, storage.py).
THEOREM TypesAreKept == Spec => []TypeOK
  <1>1. StateInv => TypeOK BY DEF StateInv
  <1> QED BY <1>1, StateHolds, PTL

\* However restores, requests, failures and deaths interleave, a path leads to
\* every root that was ever in service (ops/backup.py restore_backup).
THEOREM RootsAreNotLost == Spec => []NoRootIsLost
  <1>1. StateInv => NoRootIsLost BY DEF StateInv, LocationInv
  <1> QED BY <1>1, StateHolds, PTL

\* While there is no root at the path, some restore has moved one aside and is at
\* work, or died there (ops/backup.py restore_backup).
THEOREM AbsencesAreTransient == Spec => []AbsenceIsTransient
  <1>1. StateInv => AbsenceIsTransient BY DEF StateInv, LocationInv
  <1> QED BY <1>1, StateHolds, PTL

\* The receipt of a restore names the manifest of the root it installed, whatever
\* becomes of the caller's directory meanwhile (ops/backup.py restore_backup).
THEOREM ReceiptsAreTrue == Spec => []ReceiptsAreHonest
  <1>1. StateInv => ReceiptsAreHonest
    BY DEF StateInv, EvidenceInv, ReceiptsAreHonest, CallAt
  <1> QED BY <1>1, StateHolds, PTL

\* A recorded identity that matches its file vouches for the file's bytes
\* (storage.py validate_references).
THEOREM CachesAreSound == Spec => []CacheIsSound
  <1>1. StateInv => CacheIsSound BY CacheIsHonest DEF StateInv
  <1> QED BY <1>1, StateHolds, PTL

\* A root has every object that its Journal refers to, unless the object was
\* damaged or a request held the root when a restore moved it (storage.py
\* HostStorage, ops/backup.py restore_backup).
THEOREM RootsAreComplete == Spec => []RootsStayComplete
  <1>1. StateInv => RootsStayComplete BY DEF StateInv, CompleteInv
  <1> QED BY <1>1, StateHolds, PTL

\* A backup fails only for what happened to its destination or to the root, never
\* for what is committed while it copies (ops/backup.py create_backup).
THEOREM BackupsFailForCause == Spec => []BackupErrorsAreJustified
  <1>1. StateInv => BackupErrorsAreJustified
    BY DEF StateInv, BackupInv, CopyOK, Calm, BackupErrorsAreJustified, CallAt
  <1> QED BY <1>1, StateHolds, PTL

\* A backup that appears holds the objects its own Journal refers to, whole, and no
\* other (ops/backup.py create_backup).
THEOREM BackupsAreWhole == Spec => BackupsAreComplete
  <1>1. StateInv /\ [Next]_vars =>
          [\A d \in Destination : backups'[d].there /\ ~backups[d].there
                                    => Verified(backups'[d])]_vars
    BY BackupsAppearComplete DEF StateInv
  <1> QED BY <1>1, StateHolds, PTL DEF Spec, BackupsAreComplete
=============================================================================
