------------------------------- MODULE StateRoot -------------------------------
(***************************************************************************)
(* The state root as a directory: requests that open it, validate what it  *)
(* retains and append to it; backups taken of it meanwhile; and restores   *)
(* that put another root in its place by two renames.                      *)
(*                                                                         *)
(* A request holds a connection to the Journal file it opened, whatever    *)
(* path that file has later, but reaches objects by the path of the root.  *)
(* A root is the set of its committed facts and the files of its objects;  *)
(* a file has bytes, which are the object's or not, and an identity, which *)
(* changes with every change of the file.  A process that dies is one that *)
(* takes no further step: what it was building stays under names that      *)
(* nothing reads.                                                          *)
(***************************************************************************)
EXTENDS Naturals, Sequences, FiniteSets

CONSTANTS
  Fact,           \* what is committed: an event, a message, a publication
  Object,         \* what facts refer to
  ObjectOf,       \* ObjectOf[f]: the object f refers to
  Startup,        \* the objects that every opening of the root validates
  Held,           \* the facts the root holds at first
  Operator,       \* calls of create_backup and restore_backup
  Destination,    \* the directories that backups are kept in
  MaxRoots,       \* bound: roots ever created
  MaxDamage,      \* bound: files that are lost or altered
  MaxExchanges,   \* bound: backups exchanged by their owner
  MaxFaults       \* bound: transactions and renames that fail

ASSUME StateRootAssumption ==
  /\ ObjectOf \in [Fact -> Object] /\ Startup \subseteq Object
  /\ Held \subseteq Fact
  /\ {MaxRoots, MaxDamage, MaxExchanges, MaxFaults} \subseteq Nat

VARIABLES
  roots,       \* every root ever created, wherever its directory is
  target,      \* the root at the configured path, or 0
  previous,    \* the roots under .previous-* names
  backups,     \* backups[d]: the backup at d, or NoBackup
  request,     \* request[f]: the request that appends f
  call,        \* call[p]: the backup or restore that p runs
  faults,      \* the number of failed transactions and renames
  past         \* what the properties remember: damaged files, roots moved while
               \* a request held them, exchanges of backups

vars == <<roots, target, previous, backups, request, call, faults, past>>

NoId == <<0, 0>>
NoFile == [whole |-> FALSE, id |-> NoId]
Present(file) == file.id # NoId
Refs(facts) == {ObjectOf[f] : f \in facts}
NoRows == [o \in Object |-> NoId]
\* The identity of a file written now in root i: no two files of one name share it.
Stamp(i) == <<i, Cardinality(past.damaged) + 1>>
FilesOf(objects, i) ==
  [o \in Object |-> IF o \in objects THEN [whole |-> TRUE, id |-> Stamp(i)] ELSE NoFile]

\* A root with the identities of the object files its Journal has verified.
Root(facts, files, cached) ==
  [facts |-> facts, files |-> files, cached |-> cached, born |-> facts]
EmptyRoot == Root({}, [o \in Object |-> NoFile], NoRows)
NoBackup == [facts |-> {}, files |-> [o \in Object |-> NoFile], manifest |-> {}, there |-> FALSE]
Backup(facts, files) == [facts |-> facts, files |-> files, manifest |-> facts, there |-> TRUE]

\* What the object paths lead to; nothing while there is no root.
Files == IF target = 0 THEN [o \in Object |-> NoFile] ELSE roots[target].files

\* HostStorage(root) creates the root that it does not find.
CanOpen == target # 0 \/ Len(roots) < MaxRoots
Opened == IF target = 0 THEN Len(roots) + 1 ELSE target
OpenRoot ==
  /\ CanOpen
  /\ target' = Opened
  /\ roots' = IF target = 0 THEN Append(roots, EmptyRoot) ELSE roots

-----------------------------------------------------------------------------
\* A request: HostStorage(root), then one put and one append.

NoRequest == [pc |-> "idle", conn |-> 0, todo |-> {}, rows |-> NoRows,
              verified |-> NoRows]
RequestAt(f, pc) == request[f].pc = pc
RequestGoto(f, pc) == request' = [request EXCEPT ![f].pc = pc]
EndRequest(f) == request' = [request EXCEPT ![f] = NoRequest]
Open(f) == request[f].pc \in {"validate", "put", "commit"}

Connect(f) ==
  LET journal == IF target = 0 THEN EmptyRoot ELSE roots[target]
  IN  /\ RequestAt(f, "idle") /\ f \notin Held
      /\ OpenRoot
      /\ request' = [request EXCEPT ![f] =
           [pc |-> "validate", conn |-> Opened,
            todo |-> Refs(journal.facts) \cap Startup,
            rows |-> journal.cached, verified |-> NoRows]]
      /\ UNCHANGED <<previous, backups, call, faults, past>>

\* One reference: a file with the identity that was verified is not read again.
ValidateObject(f) ==
  /\ RequestAt(f, "validate")
  /\ \E o \in request[f].todo :
       LET file == Files[o] IN
       \/ /\ Present(file) /\ file.id = request[f].rows[o]
          /\ request' = [request EXCEPT ![f].todo = @ \ {o}]
       \/ /\ file.id # request[f].rows[o] /\ file.whole
          /\ request' = [request EXCEPT ![f].todo = @ \ {o},
                                        ![f].verified[o] = file.id]
       \/ ~Present(file) /\ EndRequest(f)
       \/ file.id # request[f].rows[o] /\ ~file.whole /\ EndRequest(f)
  /\ UNCHANGED <<roots, target, previous, backups, call, faults, past>>

Recorded(cached, verified) ==
  [o \in Object |-> IF verified[o] # NoId THEN verified[o] ELSE cached[o]]
\* The identities that were verified are written back when the cursor is done.
\* One that takes the identity the file has by then:
RecordValidationsOfNow(f) ==
  /\ RequestAt(f, "validate") /\ request[f].todo = {}
  /\ roots' = [roots EXCEPT ![request[f].conn].cached =
       Recorded(@, [o \in Object |-> IF request[f].verified[o] # NoId
                                         THEN Files[o].id ELSE NoId])]
  /\ RequestGoto(f, "put")
  /\ UNCHANGED <<target, previous, backups, call, faults, past>>

RecordValidations(f) ==
  /\ RequestAt(f, "validate") /\ request[f].todo = {}
  /\ roots' = [roots EXCEPT ![request[f].conn].cached = Recorded(@, request[f].verified)]
  /\ RequestGoto(f, "put")
  /\ UNCHANGED <<target, previous, backups, call, faults, past>>

\* One that leaves the object to be stored after the commit:
PutLater(f) ==
  /\ RequestAt(f, "put") /\ RequestGoto(f, "commit")
  /\ UNCHANGED <<roots, target, previous, backups, call, faults, past>>

\* ContentAddressedStore.put: by path, into whichever root is there now.
Put(f) ==
  LET o == ObjectOf[f] IN
  /\ RequestAt(f, "put")
  /\ \/ /\ target # 0 /\ ~Present(Files[o])
        /\ roots' = [roots EXCEPT ![target].files[o] = [whole |-> TRUE, id |-> Stamp(target)]]
        /\ RequestGoto(f, "commit")
     \/ Files[o].whole /\ RequestGoto(f, "commit") /\ UNCHANGED roots
     \/ target = 0 /\ EndRequest(f) /\ UNCHANGED roots
     \/ Present(Files[o]) /\ ~Files[o].whole /\ EndRequest(f) /\ UNCHANGED roots
  /\ UNCHANGED <<target, previous, backups, call, faults, past>>

\* The transaction: into the Journal file that the connection holds.
Commit(f) ==
  /\ RequestAt(f, "commit")
  /\ roots' = [roots EXCEPT ![request[f].conn].facts = @ \cup {f}]
  /\ RequestGoto(f, "committed")
  /\ UNCHANGED <<target, previous, backups, call, faults, past>>

\* It fails: the object that was stored stays.
CommitFails(f) ==
  /\ RequestAt(f, "commit") /\ faults < MaxFaults
  /\ faults' = faults + 1 /\ EndRequest(f)
  /\ UNCHANGED <<roots, target, previous, backups, call, past>>

-----------------------------------------------------------------------------
\* create_backup(root, d)

NoCall == [pc |-> "idle", kind |-> "none", dest |-> 0, replace |-> FALSE,
           conn |-> 0, refs |-> {}, todo |-> {}, copy |-> NoBackup,
           root |-> 0, found |-> 0, previous |-> 0]
CallAt(p, pc) == call[p].pc = pc
CallBecomes(p, c) == call' = [call EXCEPT ![p] = c]
CallGoto(p, pc) == call' = [call EXCEPT ![p].pc = pc]

BeginBackup(p, d) ==
  /\ CallAt(p, "idle") /\ target # 0 /\ ~backups[d].there
  /\ CallBecomes(p, [NoCall EXCEPT !.pc = "snapshot", !.kind = "backup", !.dest = d])
  /\ UNCHANGED <<roots, target, previous, backups, request, faults, past>>

\* The SQLite online backup, and the inventory that the copy itself lists.
Snapshot(p) ==
  LET facts == IF target = 0 THEN {} ELSE roots[target].facts IN
  /\ CallAt(p, "snapshot") /\ OpenRoot
  /\ CallBecomes(p, [call[p] EXCEPT !.pc = "copy", !.conn = Opened,
       !.refs = Refs(facts), !.todo = Refs(facts),
       !.copy = Backup(facts, NoBackup.files)])
  /\ UNCHANGED <<previous, backups, request, faults, past>>

CopyObject(p) ==
  /\ CallAt(p, "copy")
  /\ \E o \in call[p].todo :
       IF Present(Files[o])
         THEN call' = [call EXCEPT ![p].todo = @ \ {o}, ![p].copy.files[o] = Files[o]]
         ELSE CallGoto(p, "failed")
  /\ UNCHANGED <<roots, target, previous, backups, request, faults, past>>

\* The layout of a backup and, on a disposable copy, every object it refers to.
Complete(b) ==
  \A o \in Object : IF o \in Refs(b.facts) THEN b.files[o].whole ELSE ~Present(b.files[o])
\* What opening the copy as a root in service opens would have checked:
CompleteAtStartup(b) ==
  \A o \in Object : o \in Refs(b.facts) => Present(b.files[o])
                                         /\ (o \in Startup => b.files[o].whole)

\* Validations that open the copy as requests open a root, or the root itself,
\* which has moved on since:
VerifyCopyAtStartup(p) ==
  /\ CallAt(p, "copy") /\ call[p].todo = {}
  /\ CallGoto(p, IF CompleteAtStartup(call[p].copy) THEN "publish" ELSE "failed")
  /\ UNCHANGED <<roots, target, previous, backups, request, faults, past>>
VerifyCopyAgainstRoot(p) ==
  /\ CallAt(p, "copy") /\ call[p].todo = {}
  /\ CallGoto(p, IF /\ Complete(call[p].copy)
                    /\ Refs(roots[call[p].conn].facts) = call[p].refs
                 THEN "publish" ELSE "failed")
  /\ UNCHANGED <<roots, target, previous, backups, request, faults, past>>

VerifyCopy(p) ==
  /\ CallAt(p, "copy") /\ call[p].todo = {}
  /\ CallGoto(p, IF Complete(call[p].copy) THEN "publish" ELSE "failed")
  /\ UNCHANGED <<roots, target, previous, backups, request, faults, past>>

\* renameat2(RENAME_NOREPLACE)
Publish(p) ==
  LET c == call[p] IN
  /\ CallAt(p, "publish")
  /\ IF backups[c.dest].there
       THEN CallGoto(p, "failed") /\ UNCHANGED backups
       ELSE CallGoto(p, "done") /\ backups' = [backups EXCEPT ![c.dest] = c.copy]
  /\ UNCHANGED <<roots, target, previous, request, faults, past>>

-----------------------------------------------------------------------------
\* restore_backup(d, root, replace)

BeginRestore(p, d, replace) ==
  /\ CallAt(p, "idle") /\ backups[d].there
  /\ target = 0 \/ replace
  /\ CallBecomes(p, [NoCall EXCEPT !.pc = "stage_journal", !.kind = "restore",
       !.dest = d, !.replace = replace, !.found = target])
  /\ UNCHANGED <<roots, target, previous, backups, request, faults, past>>

\* The evidence is staged file by file from the caller's path.
StageJournal(p) ==
  LET given == backups[call[p].dest] IN
  /\ CallAt(p, "stage_journal")
  /\ call' = [call EXCEPT ![p].pc = "stage_objects", ![p].refs = Refs(given.facts),
                          ![p].copy = [NoBackup EXCEPT !.facts = given.facts]]
  /\ UNCHANGED <<roots, target, previous, backups, request, faults, past>>

StageObjects(p) ==
  LET given == backups[call[p].dest] IN
  /\ CallAt(p, "stage_objects")
  /\ IF \A o \in Object : Present(given.files[o]) <=> o \in call[p].refs
       THEN call' = [call EXCEPT ![p].pc = "verify", ![p].copy.files = given.files]
       ELSE CallGoto(p, "cleanup")
  /\ UNCHANGED <<roots, target, previous, backups, request, faults, past>>

\* The manifest comes last; verify_backup reads what was staged, and nothing else.
Verified(b) == b.manifest = b.facts /\ Complete(b)
VerifyStaged(p) ==
  LET staged == [call[p].copy EXCEPT !.manifest = backups[call[p].dest].manifest] IN
  /\ CallAt(p, "verify")
  /\ call' = [call EXCEPT ![p].copy = staged,
       ![p].pc = IF Verified(staged) /\ (target = 0 \/ call[p].replace)
                 THEN "realize" ELSE "cleanup"]
  /\ UNCHANGED <<roots, target, previous, backups, request, faults, past>>

\* A root made of the staged evidence, opened once; no path leads to it yet.
Realized(b) ==
  LET i == Len(roots) + 1 IN
  Root(b.facts, FilesOf(Refs(b.facts), i),
       [o \in Object |-> IF o \in Refs(b.facts) \cap Startup THEN Stamp(i) ELSE NoId])
\* One that reads the caller's backup again, after it was verified:
RealizeGiven(p) ==
  /\ CallAt(p, "realize") /\ Len(roots) < MaxRoots
  /\ roots' = Append(roots, Realized(backups[call[p].dest]))
  /\ call' = [call EXCEPT ![p].pc = "aside", ![p].root = Len(roots) + 1]
  /\ UNCHANGED <<target, previous, backups, request, faults, past>>

Realize(p) ==
  /\ CallAt(p, "realize") /\ Len(roots) < MaxRoots
  /\ roots' = Append(roots, Realized(call[p].copy))
  /\ call' = [call EXCEPT ![p].pc = "aside", ![p].root = Len(roots) + 1]
  /\ UNCHANGED <<target, previous, backups, request, faults, past>>

MoveAside(p) ==
  /\ CallAt(p, "aside")
  /\ IF call[p].replace /\ target # 0
       THEN /\ previous' = previous \cup {target} /\ target' = 0
            /\ call' = [call EXCEPT ![p].pc = "install", ![p].previous = target]
            /\ past' = [past EXCEPT !.moved = @ \cup {target},
                         !.strayed = @ \cup {i \in {target} :
                            \E f \in Fact : Open(f) /\ request[f].conn = i}]
       ELSE CallGoto(p, "install") /\ UNCHANGED <<target, previous, past>>
  /\ UNCHANGED <<roots, backups, request, faults>>

\* A rename never replaces a root: os.replace refuses a directory that is not
\* empty, renameat2 any.  One that clears the path first:
InstallOver(p) ==
  /\ CallAt(p, "install")
  /\ target' = call[p].root /\ CallGoto(p, "restored")
  /\ UNCHANGED <<roots, previous, backups, request, faults, past>>

Install(p) ==
  /\ CallAt(p, "install")
  /\ IF target = 0
       THEN target' = call[p].root /\ CallGoto(p, "restored")
       ELSE CallGoto(p, "cleanup") /\ UNCHANGED target
  /\ UNCHANGED <<roots, previous, backups, request, faults, past>>

InstallFails(p) ==
  /\ CallAt(p, "install") /\ faults < MaxFaults
  /\ faults' = faults + 1 /\ CallGoto(p, "cleanup")
  /\ UNCHANGED <<roots, target, previous, backups, request, past>>

\* One that only removes what was temporary:
CleanupForgets(p) ==
  /\ CallAt(p, "cleanup") /\ CallGoto(p, "failed")
  /\ UNCHANGED <<roots, target, previous, backups, request, faults, past>>

Cleanup(p) ==
  LET old == call[p].previous IN
  /\ CallAt(p, "cleanup") /\ CallGoto(p, "failed")
  /\ IF old \in previous /\ target = 0
       THEN target' = old /\ previous' = previous \ {old}
       ELSE UNCHANGED <<target, previous>>
  /\ UNCHANGED <<roots, backups, request, faults, past>>

-----------------------------------------------------------------------------
\* The rest of the machine

\* A file of the root in service is lost, or its bytes are altered.
Damage(o) ==
  /\ Cardinality(past.damaged) < MaxDamage /\ <<target, o>> \notin past.damaged
  /\ Present(Files[o])
  /\ \E file \in {NoFile,
                 [whole |-> FALSE, id |-> <<target, Cardinality(past.damaged) + 2>>]} :
       roots' = [roots EXCEPT ![target].files[o] = file]
  /\ past' = [past EXCEPT !.damaged = @ \cup {<<target, o>>}]
  /\ UNCHANGED <<target, previous, backups, request, call, faults>>

\* The owner of two backups swaps their directories.
Exchange(d, e) ==
  /\ past.exchanges < MaxExchanges /\ backups[d].there /\ backups[e].there
  /\ backups[d] # backups[e]
  /\ backups' = [backups EXCEPT ![d] = backups[e], ![e] = backups[d]]
  /\ past' = [past EXCEPT !.exchanges = @ + 1]
  /\ UNCHANGED <<roots, target, previous, request, call, faults>>

Init ==
  /\ roots = << Root(Held, [o \in Object |-> IF o \in Refs(Held)
                             THEN [whole |-> TRUE, id |-> <<1, 1>>] ELSE NoFile], NoRows) >>
  /\ target = 1 /\ previous = {}
  /\ backups \in [Destination ->
       {NoBackup} \cup {Backup(facts, [o \in Object |-> IF o \in Refs(facts)
            THEN [whole |-> TRUE, id |-> <<1, 1>>] ELSE NoFile]) : facts \in SUBSET Held}]
  /\ request = [f \in Fact |-> NoRequest]
  /\ call = [p \in Operator |-> NoCall]
  /\ faults = 0
  /\ past = [damaged |-> {}, moved |-> {}, strayed |-> {}, exchanges |-> 0]

Serve(f) ==
  \/ Connect(f) \/ ValidateObject(f) \/ RecordValidations(f)
  \/ Put(f) \/ Commit(f) \/ CommitFails(f)
TakeBackup(p) ==
  \/ \E d \in Destination : BeginBackup(p, d)
  \/ Snapshot(p) \/ CopyObject(p) \/ VerifyCopy(p) \/ Publish(p)
Restore(p) ==
  \/ \E d \in Destination, replace \in BOOLEAN : BeginRestore(p, d, replace)
  \/ StageJournal(p) \/ StageObjects(p) \/ VerifyStaged(p)
  \/ Realize(p) \/ MoveAside(p) \/ Install(p) \/ InstallFails(p) \/ Cleanup(p)

Next ==
  \/ \E f \in Fact : Serve(f)
  \/ \E p \in Operator : TakeBackup(p) \/ Restore(p)
  \/ \E o \in Object : Damage(o)
  \/ \E d \in Destination, e \in Destination : Exchange(d, e)

Spec == Init /\ [][Next]_vars

-----------------------------------------------------------------------------
\* Properties

\* A backup appears complete: it holds the objects its own Journal refers to, all
\* of them whole and no other, although requests put and commit, files are lost
\* and the root may be replaced while it is copied (ops/backup.py create_backup).
BackupsAreComplete ==
  [][\A d \in Destination : backups'[d].there /\ ~backups[d].there => Verified(backups'[d])]_vars

\* What is committed meanwhile never makes a backup fail: one that fails found its
\* destination taken, or there was a damaged file or a root moved away, at any time
\* before (docs/OPERATIONS.md:90).
BackupErrorsAreJustified ==
  \A p \in Operator : CallAt(p, "failed") /\ call[p].kind = "backup" =>
    backups[call[p].dest].there \/ past.damaged # {} \/ past.moved # {}

\* A restore that answers installed the facts its receipt's manifest is about,
\* although the caller's directory may change under it (docs/OPERATIONS.md:331).
ReceiptsAreHonest ==
  \A p \in Operator : CallAt(p, "restored") =>
    roots[call[p].root].born = call[p].copy.manifest

\* No root that was ever in service is lost: whatever restores, requests and
\* failures do at once, a path leads to every root that was, and to all that was
\* committed to it.
NoRootIsLost ==
  \A i \in 1..Len(roots) :
    \/ i = target \/ i \in previous
    \/ \E p \in Operator : i = call[p].root /\ ~CallAt(p, "restored")

\* Every root holds the objects its Journal refers to, unless they were damaged,
\* or a request that held the root open stored its object while another root, or
\* none, was in its place.
RootsStayComplete ==
  \A i \in 1..Len(roots) : i \in past.strayed \/
    \A o \in Refs(roots[i].facts) : roots[i].files[o].whole \/ <<i, o>> \in past.damaged

\* A recorded identity that matches its file vouches for the bytes: the file that
\* changed between its validation and the write-back is read again (storage.py
\* validate_references).
CacheIsSound ==
  \A i \in 1..Len(roots), o \in Object :
    LET file == roots[i].files[o] IN
    Present(file) /\ roots[i].cached[o] = file.id => file.whole

\* There is no root only while a restore that moved it aside is at work, or where
\* it died: every restore that ends, with an error too, leaves a root at the path
\* (ops/backup.py restore_backup).
AbsenceIsTransient ==
  target = 0 => \E p \in Operator :
    call[p].previous # 0 /\ call[p].pc \in {"install", "cleanup"}

\* A restore that ended, with an answer or an error, left the root it found or the
\* one it realized (docs/DATA_AND_PRIVACY.md:102: "Restore verifies bytes and full
\* Host invariants before atomically installing the new state").  Does not hold
\* when a request opens a root between the two renames.
RestoreIsAtomic ==
  \A p \in Operator : call[p].found # 0 =>
    /\ CallAt(p, "failed") => target = call[p].found
    /\ CallAt(p, "restored") => target = call[p].root
=============================================================================
