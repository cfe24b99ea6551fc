# A TLA+ model of Ordivon Host

Ordivon Host keeps the durable state of Tasks that agents hand from one to the
next: a SQLite Journal of revisioned Task events, a content-addressed store
(CAS) of the objects they refer to, a Message Board and a Daily News beside
them, and an MCP server whose tools read and write all that.  Every tool call
runs in a thread of its own, with its own SQLite connection and its own
process-instance lease owner (`mcp_server._run_tool`, `kernel.worker_owner_id`);
nothing is shared between two calls but the files.  So what can go wrong is
what can go wrong between two statements of one call: another call, a crash, a
failed transaction, a lease that expires, a clock that moves.

This directory models that: TLC checks the modules on small instances, TLAPS
proves theorems about them for every instance.  Source paths below are relative
to `src/ordivon_host/` unless they start with `scripts/` or `docs/`.

## Inventory

| Component | State it keeps | Operations | Interacts with |
|---|---|---|---|
| Journal, Task half (`journal/sqlite.py`) | `streams`, `events`, `event_object_refs`, `task_projection`, `task_extension_state`, `leases` | `append_task_event`, `acquire_lease`, `release_lease`, reads, each one `BEGIN IMMEDIATE` transaction or one statement | called by kernel and storage |
| Kernel (`kernel.py`) | none (an owner id, a clock) | `create_task`, `current_snapshot`, `locked_task`/`commit`/release, `next_projection`, `timestamp` | Journal, storage |
| External continuity (`continuity.py`) | none | `adopt` (creates revision 1, checkpoints revision 2, resumes), `checkpoint`, `resume` | kernel, storage, handoff |
| Extension port (`extensions.py`) | namespace state of a Task | `append_preserving`, `load_namespace_snapshot` | kernel, storage |
| Storage (`storage.py`) | none | `record_task_event` (object, then event), reads, `validate_references` with its cache | Journal, CAS |
| CAS (`objects/store.py`) | files named by digest | `put` (temporary file, fsync, rename), `get`, `inspect` | storage, backup |
| Board (`board.py`, Journal) | `board_messages`, numbered | append idempotent by `clientMessageId`, list pages with cursors, validation | MCP tools |
| News (`news.py`, Journal) | editions and publications, revisioned | fenced publication, listing, validation | MCP tools |
| Schema and migrations (`journal/_schema.py`, `journal/migrations.py`) | `host_metadata`, `schema_migrations`, backups | initialise, advance a version, validate | every opening of the root |
| Backup (`ops/backup.py`) | a directory | create, verify, restore (two renames) | Journal, CAS |
| Validation (`ops/doctor.py`, `ops/history.py`, `ops/gc.py`) | validation cache | full and cached validation of objects, projections and histories | storage |
| MCP server (`mcp_server.py`) | none between calls | `task.*`, `board.*`, `news.*`, `host.status` | everything above |
| Deployment (`scripts/ordivon-host-deploy`) | releases, `current` link, snapshots, events | apply, rollback, lifecycle | backup, service units |

Left out for good: `cognition/`, `continuity_lens.py`, `continuity_models.py`,
`domain/`, `effects/` (immutable values and their validation), `cli.py`,
`config.py` (argument parsing), `testing/` and the release scripts (no state of
the running Host), HTTP transport and authentication (stateless).

What is hard, and what makes each component correct:

* **Task leases** expire by wall clock; the clock is read before the write
  lock is awaited, and the lease of a dead process stays until it expires.  A
  transition must take effect at the revision its writer named, at most once,
  whoever holds or held the lease; a dead lease must not block for ever.
* **Adoption** is two commits and a view.  Any process may die between them;
  another may create the same Task in between.  Adoptions of one Task must
  agree on its Goal and its first checkpoint.
* **Answers may be lost**, so requests are repeated: the repeated request must
  be recognised, and an error must not claim that nothing was committed when
  something was.
* **Views are several reads** without a read transaction: they must still be
  of one revision.
* **Time**: recorded times must increase along a stream although the clock
  stands still or is stepped back.
* **Objects first**: an event must never refer to an object that a crash kept
  from being stored.
* **Extensions** read the namespace state before the lease is taken: no update
  may be lost.
* **Board** readers keep cursors while writers append: no message may be
  skipped.  **News** publications are fenced by revision.
* **Openings** of a root compete: one process may read a schema that another has
  half written, migrations stop between two versions, and the backup a
  migration may have to be undone with was perhaps written by an attempt that
  died.
* **Backup** copies objects after it snapshots the database; **restore** and
  **deployment** are sequences of steps that may stop anywhere, and a request
  that holds a connection does not notice that the root under it was replaced.

`PROJECT.json` lists these hazards one by one, each at its line, with the
properties that watch it or the module that will.

## Modules

| Module | What it is |
|---|---|
| `TaskJournal` | the Task half of the Journal: `history`, `leases`, `objects`, `clock`, and the lease and append transactions as operators |
| `ExternalContinuity` | the workers: kernel, continuity, handoff and the MCP task tools, one action per statement that touches shared state, faults, fairness, properties |
| `ContinuityLedger` | what clients are promised, without leases, clocks, objects or exceptions |
| `Extensions` | components that extend a Task through `extensions.py`, the core events they compete with, and the readers of retained namespace state |
| `Board` | calls of `board.post`, clients that poll `board.list` with cursors, the Doctor's pass over the Board |
| `BoardLog` | what the Board promises: a log in which an identity enters once, and followers that hear interval after interval |
| `Selection` | the rows of a query in the order of their numbers, as a recursive function, which can be proved about |
| `News` | calls of `news.publish`, of `news.list` page by page, and of `news.read` without an edition |
| `Migrations` | openings of one root by several processes: create, migrate behind backups, validate; deaths, and an older release between two attempts |
| `StateRoot` | the root as a directory: requests that open, validate and append; backups; restores by two renames; the validation cache |
| `Deployment` | `apply` and `rollback` of the deployment script against the service that systemd runs and the clients that commit through it |
| `ReleaseLifecycle` | `status`, `gc-plan` and `gc-apply` on top of it |
| `MCContinuity`, `MCExtensions`, `MCBoard`, `MCNews`, `MCStateRoot`, `MCDeployment`, `MCReleaseLifecycle` | the instances TLC checks, with their symmetries and schema versions |
| `ExternalContinuity_proofs` | types: the inductive invariant and its proof |
| `ContinuityHistory_proofs` | histories: the inductive invariant, its proof and four consequences; then evidence, errors, and the refinement of `ContinuityLedger` |
| `Extensions_proofs` | writers and readers of namespace state: invariant, proof, everything the run checks |
| `Board_proofs` | what pages of a growing table select, the calls and the readers, and the refinement of `BoardLog`: everything the run checks but liveness |
| `News_proofs` | the publication tables, the reads of the newest edition and the listing: two invariants, their proofs, everything the run checks |
| `Migrations_proofs` | openings: invariant, proof, everything the run checks but liveness |
| `StateRoot_proofs` | backup, restore and the validation cache: invariant, proof, everything the run checks |
| `Deployment_proofs` | apply and rollback, then the lifecycle: two chains of invariants, their proofs, everything the two runs check but liveness |

### Correspondence with the code

`history[t]` is the event stream of Task `t` together with `task_projection`:
`append_task_event` writes both in one transaction, so the stream revision is
the length of the sequence, the projection is its last element, and the
checkpoint "at revision n" is the content of its n-th element.  An event keeps
what the code compares: kind, Goal, checkpoint content (by digest), state and
time.  `leases[t]` is the row of table `leases`, with the `(owner, revision,
expires_at_ms)` triple that `_validate_exact_lease` compares.  `objects` is
what the CAS holds.  An object is identified by what it contains.

`session[w]` is one tool call: its arguments, its program counter (the labels
below) and the locals that live across a statement: the lease handed out, the
head read under it, the event about to be appended, the clock value
`acquire_lease` is called with, the exception in flight, the answer being built.

```
adopt    --existing--> (checkpoint | resume | error)            continuity.py:60, 92-131
adopt -> seed -> create -> require -> (checkpoint | resume | error)          :62-131
checkpoint -> clock -> acquire -> projection -> head -> put -> append -> readback
                                                       :134-208, kernel.py:199-238
        any failure under the lease -> release -> (converge | error)  kernel.py:229-238
converge -> (resume | error)                                             :110-121
resume -> handoff -> replied                                             :219-242
```

One call of `_require_external_task` is one read here: it reads the projection
and the descriptor, and the descriptor of a Task never changes.  Two reads in
a row of things that cannot change (existence, Goal, the event at a revision
that exists) are merged for the same reason.  `put_object` of a checkpoint and
of its payload is one step with the draft of the event: nobody can observe an
object before an event refers to it.  `writerLabel` is an attribute without
control.  Exceptions keep their names; `Busy`, `CommitUnknown` and
`ToldNotCommitted` are `_error_result`.

Every call builds a `HostKernel` of its own, whose lease owner is new
(`FreshOwner`): owners are only compared with the row of one Task, so an id that
this row does not hold stands for one that nobody ever had.

Faults: `Crash` ends a call anywhere (the process dies, or its answer is lost);
`TransactionFails` is `sqlite3.OperationalError` out of any transaction, rolled
back, also out of `release_lease` in the `finally` block; `ReadFails` is
`JournalCorruption`, `ObjectCorrupt` or `ObjectMissing` out of any statement that
reads a stored object, the read-back after the append among them
(`continuity.py:199`, `objects/store.py:161`); `ClockStepsBack` moves the wall
clock to any earlier value.  `Tick` moves it forward.  A Task of an older release,
created without a seed checkpoint, may exist at the start (`LegacyTask`).

### Extensions

`Extensions` keeps the same `history`, `leases` and `clock` and adds
`pointers[t][ns]`, the revision that the row of `task_extension_state` names
(the state object it also names is the one that event retained).  A payload and
the state of a namespace are sets of fields: an update sets fields and removes
fields, which is all `append_preserving` does to them.  Its path is

```
load -> state -> clock -> acquire -> projection -> head -> stamp -> append
       extensions.py:183-196         kernel.py:199-264      sqlite.py:260-429
before -> pointer -> after -> (replied | before, at most twice)   extensions.py:86-141
route -> handoff -> durable -> visible -> replied   continuity.py:225, sqlite.py:1251-1307
```

A core event takes the same way from `clock` on and stands for whatever else
moves the Task.  `append_task_event` is the operators `Admission` and
`WriteTaskEvent` of `TaskJournal`, with the test of an identical event that
extensions have (the pointer must still be this event's).  Two things are
assumed of the components, which are not in this repository: an event id is
reused only for the same update of the same namespace, and the revision a
caller expects is one that exists.  The second matters: the code never compares
the revision it loaded with the revision expected, so a caller that guessed the
number of a revision not yet committed could pass the fence with a stale
merge.  A component that dies is one that takes no further step; failing
transactions on the lease path are in `ExternalContinuity` and are not repeated.

### Board and News

`log` is `board_messages`: append-only, in the order of its `AUTOINCREMENT`
sequence, which is given inside the transaction and rolled back with it, so the
sequence of a message is its index.  Row and object of a message carry the same
fields, so both are the message; that its object exists is its membership in
`objects`.

```
exists --bound--> (existing | conflict)                     board.py:85-108
exists -> target -> put -> append -> confirm -> (created | existing | failed)
                                          board.py:109-137, sqlite.py:431-511
poll   -> page -> last -> answered        without a filter      board.py:167-180
poll   -> last -> page -> answered        with one              board.py:181-225
boundary -> validate, ... -> (done | alarm)                     board.py:227-257
```

`cursor` is the `afterSequence` the client will send next, `cut` the last
sequence a call read, `heard` everything the client was ever shown: the last is
not in the code, it is what the properties are about.  A client that was given
no cursor yet (`started` is false) gets the newest window.  `EndPost` and
`LoseAnswer` are lost answers, `AppendFails` a transaction rolled back.

In `News`, `publications` and `heads` are `news_publications` and
`news_editions`, written by one transaction; dates and edition ids are numbers,
ordered as the code's `ORDER BY edition_date DESC, edition_id ASC` does.  The
fields `known`, `owed` and `floor` of a call remember what was true when it
began, for the properties.

### Opening a root

`Migrations` follows `initialize_schema` statement by statement, because the
connection is in autocommit mode: `RunStatement` is one statement of `SCHEMA`,
and other processes see what stands between two.  A migration
(`_migrate_v<n>_to_v<n+1>`) is one `BEGIN IMMEDIATE` transaction and one step.
A schema *object* here is a group of tables, indexes and views that one
statement or one migration adds together; `Released(v)` is the set a root of
version `v` has.  The backup before a migration is taken apart into its file
operations (`snapshot`, `compare`, `archive`, `aside`, `install`), since a death
between two of them is what the code's comparison of digests is for; a database
is its version and what it holds, which is all a digest tells apart.
`WriteFact` is an older release going on with the root, which the deployment
script lets it do only while no upgrade runs.

### The root as a directory

In `StateRoot` a root is its facts (what its Journal has committed), the files
of its objects and the rows of `object_validation`.  A file is `whole` or not,
and has an identity (device, inode, size, times) that changes with every change
of the file.  A request holds the connection to the Journal it opened, whatever
becomes of the directory, but reaches objects by path, through `target`:

```
Connect -> ValidateObject* -> RecordValidations -> Put -> Commit    storage.py, store.py
BeginBackup -> Snapshot -> CopyObject* -> VerifyCopy -> Publish     ops/backup.py:23-94
BeginRestore -> StageJournal -> StageObjects -> VerifyStaged -> Realize
             -> MoveAside -> (Install | InstallFails) -> Cleanup    ops/backup.py:260-322
```

A process that dies takes no further step, and what it was building stays under
a name that nothing reads, so death needs no action.  `put` is one step here
(its temporary file and rename are invisible to readers); opening a root is one
step (`Migrations` has its steps); that a closed connection may still harden the
files it wrote is not modelled.  `Damage` is a lost or altered file, `Exchange`
the owner of two backups moving them, which is what staging a backup before
verifying it protects against.

### Deployment

`Deployment` has the Journal as its schema version and its facts, the service as
what systemd says of it (`up`, `waiting` to be started again, `down`) and the
release it runs, and the directories of the script: `releases`, `candidates`,
the link `current`, and `receipts` in the order of their names.  The identity of
a release binds its bytes, so a release is its identity; a candidate also has a
build, since its manifest records when it was built and a plan compares
manifests.  `command` is the command that holds the lock:

```
apply    copy -> (stop -> snapshot ->) switch -> (start | restart) -> probe -> result
                                                scripts/ordivon-host-deploy:1243-1359
rollback                              switch -> restart -> probe -> result   :2290-2361
a step fails: migrating   check -> restore -> putback -> startback -> reprobe
                                               -> answer -> event         :1360-1465
              otherwise   putback -> restartback -> reprobe -> (answer -> event | failed)
```

`StepFails` and `UndoFails` are a failing step of the way forward and of the way
back (a failing start may have advanced the schema first, a failing switch may
have switched), `Die` is the death of the script between any two steps, `Crash`
and `AutoRestart` are the service failing and `Restart=on-failure`.  One receipt
directory with its plan and manifest is one step, and so is a restore of the
Journal: the removal of its WAL files (`:934`) and the rename of the copy (`:936`),
between which the script could die too.  Every release answers with the same tools,
so the probe tells only whether something runs.  A candidate of a migration
serves clients before it is accepted; what is committed through it is
`provisional`, which `docs/OPERATIONS.md` says may be lost.  Trees and runtimes that
change under their digests, migration sidecars and the building of a candidate
are left out.

`past` is not in the code: the facts that clients were told are committed, and
two circumstances that the properties have to except.  `revived`: systemd
started a candidate again in the middle of its rollback, and the release under the
link has not been started since (`LinkAlwaysOpens` and `RollbackRestoresService`,
below, are what goes wrong then).  `astray`: a command that died had left the
service running another release than the link names, and the next `apply`
reads the link alone.  `AnyReceipt` says whether the operator uses `rollback`
with receipts before the last; the code allows it.  The link can then be
switched to a release older than the Journal (`CurrentCanOpen` fails; the
rollback itself notices and switches back unless it dies), so the property and
its theorem are about the last receipt.

`ReleaseLifecycle` adds `plans`, the receipts of collections, and `tombstones`.
`Plan` is the plan with its digest: two plans are the same if they delete the
same, at the same event, from the same directories.  The directory of a collection
and the plan in it are one step (`:2189`): a script that dies between the two leaves a
directory without a plan, with which every repetition of that digest fails.  `Retire`, `RecordRetirement`,
`BeginErase`, `EndErase` and `RecordResult` are the renames, the evidence and the
removals, between any two of which the script may die; `ResumeCollection` runs
the same digest again, whatever was deployed since.  `memory` has what the
documentation promised to retain when the last event was recorded: after a
deployment the two releases and the candidate, after a deployment that migrated the
release alone, after a rollback by hand the displaced release and its candidate, and
after an automatic rollback what the last deployment of the restored release left
(`Recovered`).

## Runs

The runs about Tasks have two workers and one Task: Tasks share no row, and the
interesting cases are between two calls on one Task.

| Run | Question | Bounds |
|---|---|---|
| `continuity` | Do answers, refusals, views, times, objects and terminal states hold in every interleaving and with a fault anywhere, and is the whole a ledger? | 1 Goal, 2 contents, continue/complete, views with and without an expected revision, revisions to 2, clock to 2 with leases of 2, one fault of any kind, a Task of an older release may be there |
| `continuity_live` | Does every call settle when clients repeat busy requests? | 1 content, revisions to 2, one fault, clock to 3 |
| `extensions` | Is an update lost when two writers read, merge and commit around each other, and are a namespace snapshot and a recovery view of one revision meanwhile? | 1 namespace, 2 fields, extension and core events and every reader, revisions to 3, clock to 2 with leases of 2 |
| `board` | Is a message skipped, repeated, bound twice or left behind by a poller or by the Doctor, and is the Board a log? | 2 posters; 1 reader, a client with or without a topic filter or a Doctor; 4 messages under 2 identities; pages of 1 message, of the Doctor 2 |
| `news` | Are the edition histories sound, repeated publications recognised, listings complete and reads of the newest edition current? | 2 publishers, 1 reader, 2 editions on 2 dates, 5 requests, pages of 1 edition |
| `migrations` | Do two processes that open one root at once, and die, leave a current root or one that the next attempt can upgrade, and a rollback source for each transition? | 2 openers, roots of versions 0 (none), 1, 4, 6 and 8, 1 fact of an older release, 2 deaths |
| `state_root` | Are backups complete, receipts honest and no root lost while requests append, files are damaged and restores compete? | 1 request and 1 fact held, 2 operators, 2 destinations, 3 roots, 1 damaged file, 1 exchange, 1 failing call |
| `deployment` | Is a fact lost, a report false, the link left at a release that cannot open the Journal, or the service left stopped? | 3 releases, one of them two versions later; 2 deployments and any rollbacks with the last receipt, 1 fact, 2 faults |
| `release_lifecycle` | Is what is in force or reversible ever collected, or anything without evidence? | the same releases, the schema one version later; 3 deployments, 1 plan applied any number of times, 1 fault |
| `adopt_errors` | (violated) May an adoption that committed say that it did not? | as `continuity`, revisions to 3, no fault |
| `replay` | (violated) Is a replay always recognised? | as `continuity`, revisions to 3, no fault |
| `retained_candidate` | (violated) Is the candidate a rollback made reversible safe from a plan that is older than the rollback? | 2 releases, 1 deployment and its rollbacks, 1 plan, 2 faults |

The bounds are enough for the cases that matter: revision 2 is the first
checkpoint, which two adoptions, two checkpoints of different contents, a
replay and a terminal disposition compete for, and a Task that ended at
revision 2 or was created by an older release is one that a later call must be
refused or recognise; a clock that reaches the lease lifetime lets a lease
expire under its owner in the middle of a commit and be taken over; two contents
tell a replay from a competitor; one fault at any statement leaves every partial
state a call can leave, and any number of other calls find it.  Before the
theorems were proved `continuity` was two runs, one of them with two Goals and
three revisions and no fault; what that one adds is covered by the theorems,
which bound neither, and `adopt_errors` and `replay` need the third revision.
An extension
needs two earlier events to have a state and a competitor, which revision 3
gives; a snapshot reader whose revision moves under it tries again, but its
third attempt, after which it gives up, needs a fourth revision and is not
reached in this run.

The Board's two identities with two contents each are a post repeated, a post
with its identity reused, a reply and a reply to itself; with a page of one
message, every answer of two leaves one for the next, and a message arrives
between any two reads of one call.  The five publications of `news` are an
edition, its correction, the same correction under another date, an identity
reused for another edition, and a second edition of the same date, which the
order key must tell from the first.  The starting versions of `migrations` are
a root that is not there, the two whose content may forbid a migration, one
without either, and the current one; each migration above them runs on the
way.  Two deaths leave an attempt that died behind one that died.  In
`state_root`, two restores and two backups in any combination are what a
`previous` root taken twice, a destination taken twice or an old root put back
over a new one needs; three roots are the one in service and one for each.

Every bound (`MaxRevision`, `MaxClock`, `MaxFaults`, `LastFaultAt`,
`MaxFacts`, `MaxRoots`, `MaxDamage`, `MaxExchanges`, `MaxReceipts`,
`MaxPrepared`, `MaxPlans`) is a guard in the model and
is declared as such; the Board and News need none, since identities are finite.  Two
deployments are a migration before or after a deployment without one, and a
deployment that goes on from what a dead command left; two faults are a command
that dies after a step failed, or a service that fails while one is undone.  A
plan that was made, then overtaken by a deployment and its rollback, and then
applied again needs the three receipts of `release_lifecycle`.  While the
lifecycle's theorems were being prepared its properties, and the invariants they
rest on, were also checked with two faults, two receipts and two plans of two
releases, and with two faults, three receipts and two plans of three releases.  Deadlock is not
checked because clients and operators may stop asking.

What they show:

* **AnswersAreHonoured** A successful checkpoint is in the history at exactly
  the revision after the one named, with its content and disposition; a
  successful adoption has the caller's Goal and first checkpoint.
* **ViewsAreOfOneRevision** Projection, handoff and checkpoint of one answer
  are of one revision, thanks to the fence in `operator_handoff` and to
  reading the checkpoint at a revision instead of the latest.
* **TerminalIsLast**, **TimeStrictlyIncreases**, **EvidenceIsStored** hold of
  every stream.
* **RefusalsCommitNothing** A `task.checkpoint` that a rule refuses, and is told
  `not_committed`, committed nothing.  An object that turns out to be damaged is no
  refusal: see the claims that do not hold.
* **ImplementsLedger** Each step is a step of `ContinuityLedger` or changes
  nothing a client can see.
* **CallsSettle** No call stays unsettled: see fairness.
* **NoUpdateIsLost** The state an extension event retains is the state of its
  namespace at the revision before it, with exactly the caller's update,
  although it was read and merged before the lease was asked for: the revision
  fence under the lease makes the earlier reads good; neither the Task's state
  nor a field that the update does not name changes with it.
* **SnapshotsAreCoherent** A namespace snapshot's owner, state and projection
  are of one revision, and **RoutesAreBounded** a recovery view lists exactly
  the namespaces that had an event by its revision, although the two tables it
  reads go on changing.

* **MessagesAreStored** Every message of the Board has its object: neither a
  crash nor a refused append leaves a row without one.
* **NothingIsSkipped** What a polling client has heard is exactly what it
  follows, from the first message it heard to its cursor, once and in order,
  although the two reads of a call are not one transaction; **LastPagesAreLast**
  an answer that says there is no more left nothing out.
* **DoctorValidatesThePrefix** A pass raises no alarm while messages arrive, and
  validates exactly what was there at its boundary.
* **ImplementsBoardLog** Each step of posters and pollers is a step of `BoardLog`.
* **HistoryIsSound** The News tables satisfy the Doctor's invariants between any
  two transactions; **RepeatIsRecognised** a publication repeated after the
  edition moved on is answered `existing`; **ListingIsComplete** a listing shows
  every edition that was there when it began, once and in order, although
  editions are published between its pages; **NewestIsNotStale** a read of the
  newest edition, two reads in the code, is not older than what was newest when
  it began.
* **HistoryLeadsToVersion**, **OpenMeansCurrent** Whatever openings interleave
  and die, version, history and schema go together, and nobody is let in before
  the schema is whole.
* **RollbackSourceIsExact**, **EvidenceIsPreserved** The canonical backup of a
  transition is the root as that transition found it, and no backup once
  installed is lost.  Both are stated for openings that do not overlap, which
  the deployment script sees to: it stops the service and runs one upgrade.
  Without that premise TLC finds both violated: the digest of the file at the
  canonical path is taken before the file is moved aside, and another opener may
  replace it in between.
* **BackupsAreComplete** A backup that appears holds exactly the objects its own
  Journal refers to, whole, whatever is committed, damaged or restored while it
  is taken; **BackupErrorsAreJustified** what is committed meanwhile never makes
  one fail.
* **ReceiptsAreHonest** A restore installs the facts its receipt's manifest is
  about, although the directory it was given changes under it.
* **NoRootIsLost**, **AbsenceIsTransient** A path leads to every root that ever
  was, and there is none at the configured path only between the two renames of
  a restore, or where it died there.
* **CacheIsSound** A recorded identity that matches its file vouches for its
  bytes: the write-back records what was verified, not what lies there by then.
* **RootsStayComplete** A root holds the objects its Journal refers to.  The
  property excludes roots that were moved aside while a request held them
  (`past.strayed`): such a request stores its object by path, into whatever root
  is there by then, and commits its event into the Journal it holds, which is the
  one that was moved.  The operator's documentation has the service stopped for a
  restore; nothing in the code enforces it.
* **FactsAreKept** No failure and no death of `apply` or `rollback` takes a fact
  from the Journal that a client was told is committed: the service is down
  while the snapshot is taken, and until the activation is accepted only its
  candidate can have added to it.
* **CurrentCanOpen** The link names a release that can open the Journal between
  any two steps: the Journal goes back before the link does, and a receipt of a
  migration is not accepted by `rollback`.  Two things are excepted: what follows
  when systemd starts a candidate in the middle of its own rollback, until the
  release under the link starts, where the claim is false (`LinkAlwaysOpens`,
  below), and rollbacks with a receipt before the last (`AnyReceipt` is FALSE).
* **ReportsAreTrue** The release a receipt reports is the one that runs, or the
  service has just failed; excepted is an automatic rollback whose candidate
  systemd revived, or that began while another release than the link's was running.
* **ServiceComesBack** The commands and systemd alone bring the service back again
  and again, unless an activation that migrates died or failed and left it stopped,
  or a candidate that systemd revived left a Journal that the release under the link
  refuses.  Nothing is assumed of the operator.
* **FrontierIsRetained** A collection, also one applied
  again after deployments and rollbacks it does not know of, removes neither the
  release in force nor what the last event left reversible (after an automatic
  rollback: what the last deployment of the restored release left, unless it
  migrated), except a candidate
  that a rollback left behind which moved nothing, because the release it
  displaced is the one it restored (`CandidateIsRetained` is about that one);
  **RemovalIsRecorded** it removes nothing whose retirement is not recorded.

### Claims that do not hold

Three claims are runs that find them violated:

* **AdoptErrorsAreHonest** `task.adopt` commits revision 1 and may then answer
  `TASK_BUSY`, `REVISION_CONFLICT` or `INVALID_ARGUMENT` with `commitState:
  not_committed`.  Repeating the adoption converges.
* **ReplayIsRecognised** The README and `docs/OPERATIONS.md` say that an
  identical checkpoint retried against its original `expectedRevision` returns
  the existing revision.  It does while that revision is the last; after the
  next commit it is refused with `REVISION_CONFLICT`.
* **CandidateIsRetained** `docs/OPERATIONS.md` says that a rollback retains the
  candidate of the release it displaced, and that a receipt that changed between
  planning and application invalidates the plan.  A collection that died is
  applied again from its stored plan, behind a guard that compares the release in
  force and the *names* of the receipt and its event.  In the run the release in
  force is deployed again, rolled back by itself, its candidate is planned for
  removal, and the collection dies; the operator rolls back with the same
  receipt, which overwrites the file the plan knows its event by; then the plan is
  applied again and removes the candidate.  No release is lost: that is
  `FrontierIsRetained`, which is a theorem.

Seven more are stated in the modules and are no standing run.  Each falls within
seconds on the instance named with it, everything else as in the module's run:

* **CheckpointErrorsAreHonest** (`ExternalContinuity`: 1 worker, a Task of an older
  release, 1 fault) The error contract knows `unknown` and `not_committed`
  (`mcp_server.py:172`), and a write that cannot tell is `unknown` (`:2077`).  When the
  stored checkpoint cannot be read back after the append (`continuity.py:199-203`,
  `272-311`, `objects/store.py:177`), `JournalCorruption` and `ObjectCorrupt` are
  answered `HOST_STATE_CORRUPT` with `not_committed` (`mcp_server.py:2096-2100`),
  although the event is there.  The retry class is `operator_repair`.
* **CurrentMeansComplete** (`Migrations`: one opener, version 6, 1 death)
  `docs/OPERATIONS.md` says that a Journal that is already current is only
  validated, and must have the complete canonical shape. The last migration sets
  the version, and the statement script that adds what the migrations do not (an
  index of version 7) runs after it, outside of its transaction: a process that
  dies in between leaves a root of the current version that every later opening
  refuses, and none repairs.
* **RestoreIsAtomic** (`StateRoot`: 1 restore, 1 request, no damage, no failing
  call) `docs/DATA_AND_PRIVACY.md` says that a restore installs the new state
  atomically.  Between its two renames there is no root, and a request that
  opens one then creates an empty root at the path; the second rename then
  fails, and so does putting the old root back, so the restore ends with an
  error and an empty root in service.  No root is lost by it: the old one is
  still under its `.previous-*` name.
* **RollbackRestoresService** (`Deployment`: 1 migrating deployment, 1 fault)
  `docs/OPERATIONS.md` says that a migration that fails stops the candidate,
  restores the Journal, switches back and starts the previous release.  The
  candidate is stopped only if it is active at that moment; one whose start
  failed is not, is started again by systemd before the link is put back, and
  then `systemctl start` leaves it alone.  The receipt says that the previous
  release was restored, and the candidate runs.
* **LinkAlwaysOpens** (`Deployment`: the same) The same course ends worse for the
  link.  The candidate is not active when it is looked at
  (`scripts/ordivon-host-deploy:1366`), the Journal is restored, systemd starts the
  candidate, which migrates the restored Journal, and only then is the link put back
  (`:1391`) to a release that cannot open it.  While the candidate runs nothing is
  noticed; after its next failure systemd starts what the link names, which fails, and
  nothing comes back by itself.
* **RetryReconciles** (`ReleaseLifecycle`: 1 deployment, 1 plan, 1 fault)
  `docs/OPERATIONS.md` says that a collection that died can be repeated with its
  digest.  One that died in the middle of removing a tombstone left a part of
  it, which every repetition compares with the whole and refuses.
* **FrontierIsRetained** with a receipt before the last (`ReleaseLifecycle`:
  `AnyReceipt = TRUE`, 2 deployments of releases that do not migrate, no fault):
  `status` takes the matching event of the last receipt *directory* for the
  latest event.  After a rollback with an older receipt the release in force may
  have an event in a later directory, and the collection that follows removes
  what the rollback displaced, although `docs/OPERATIONS.md` says it is retained
  so that the rollback can be reversed.  With the
  last receipt only it is a theorem.

### Fairness

`FairSpec` assumes that a call that has begun keeps running (`WF` of `Run(w)`:
its thread is scheduled; `BEGIN IMMEDIATE` and SQLite's busy timeout let it
through, or it fails, which is an exception and an end), and that the clock
goes on.  Faults are not fair: they need never happen, and after `LastFaultAt`
they do not.  That a client repeats a `TASK_BUSY` answer is what
`retryClass: retry_same_request` tells it to do; it is assumed in the liveness
run alone (`Patient`).  Under that, a lease left behind by a dead process or a
failed release expires at `LastFaultAt + TtlMs` at the latest, which the
clock's bound lets pass.  Nothing is assumed of calls that have not begun.

For **PollersCatchUp** the `board` run assumes that a client keeps polling and
that its calls go on (`WF` of `Poll`, `ReadLast`, `ReadPage`), and that of
infinitely many answers not all are lost (`SF` of `Receive`: each loss disables
it).  Posters are not fair.  For **UpgradeAdvances** the `migrations` run
assumes that an opening goes on and is tried again after it failed (`WF` of
`Opening`: the service manager restarts the service, and no statement hangs
longer than SQLite's busy timeout); deaths are bounded by `MaxFaults`.  For
**ServiceComesBack** the `deployment` run assumes that a command that runs goes
on (`WF` of its steps: each has a timeout), that systemd starts a failed service
again (`WF` of `AutoRestart`: `Restart=on-failure`).  `StartByHand`, the operator
starting a service that a command left stopped, is possible and never due.

## Proofs

All theorems are about the specification `Spec` of their component
(`LifecycleSpec` for `ReleaseLifecycle`), for every value of its constants:
every set of Tasks, Goals, contents, workers, requests, operators, objects and
destinations, every lease lifetime and every value of the bounds.
They rest on the named assumptions of the modules alone:
`JournalAssumption` and `ContinuityAssumption` (lease lifetimes are positive,
`NoContent`, `NoGoal` and `NoOwner` are not members of what they are absent
from, the bounds are naturals), `ExtensionsAssumption` (the operations are those
modelled, the bounds are naturals), `BoardAssumption` (pages are not empty,
`NoMessage` is no message), `MigrationsAssumption` (a root is at version 0 to 8,
the bounds are naturals), `NewsAssumption` (dates, editions and expected
revisions are naturals, no date is zero, pages are not empty),
`StateRootAssumption` (each fact has its object, the bounds are naturals) and
`DeploymentAssumption` (each release has a schema version, the first is one of
them, the bounds are naturals) with `LifecycleAssumption` (so is the number of
plans).  TLC evaluates each of them in the runs.  One theorem has a hypothesis
besides: `TheFrontierIsRetained` is about rollbacks with the last receipt
(`~AnyReceipt`), without which the property is false; `TheLinkCanOpen` says the
same inside its formula.  Every safety invariant, action property and refinement
that a passing run checks is stated by a theorem.

An induction over data is out of the prover's reach where it takes an operator
as a parameter.  Over sets of naturals it is not: `LeastNatural` gets from
the library's well-founded orders that a set of naturals that is not empty has a
least member, and what is proved by contradiction from the
least counterexample needs no more (`LastEventIsLast`, the lemmas on `InOrder`
in `Board_proofs`).

`ExternalContinuity_proofs` proves **TypeCorrect**.  `TypeOK` is not inductive:
that an append adds an *event* needs that the draft of a session about to
append is one, and not `NoEvent`.  `TypeInv` adds that (`WellFormed`): which
locals are set at which label, and which tools may be there.  There is one
lemma for each action or group of actions with the same shape, and
**TypesAreInvariant** combines them.

`ContinuityHistory_proofs` proves **TimesIncrease**, **TerminalStays**,
**AnswersStand** and **ViewsStand** from one invariant, `HistoryInv`, which
TLC checked before.  It has two halves.  `Stream(h)`: times increase, a
terminal event is last, the Goal is the same throughout.  `Knows(s, h)`: what
session `s` has learnt of the history of its Task.  At `put` it holds the head
at the revision it expects; at `append` its draft is later than that head; at
`readback` its transition is committed; an adoption past `require` has seen a
first event with its Goal and a compatible seed; a view was read at a revision
that exists.  The argument is that each such fact is about a *prefix*, that
histories only ever grow at the end (an append is admitted only at the
expected revision), and so no step of another worker, no crash and no clock
can make it false.  The lease plays no part in it: what the lease protects is
work, not correctness, which is why a stale lease is harmless.

Its second half proves **EvidenceStays**, **RefusalsAreHonest** and
**ContinuityImplementsLedger** from `LedgerInv`, which adds to `HistoryInv` what a
session owes to those outside (`Promises`): the draft it is about to append is of
its call, and its objects are in the CAS; a view was fenced at the revision the
caller named; a checkpoint call that has written has no exception in flight but that
of a damaged object, which it could be told it failed by.  The refinement maps each action to `Ask`,
`Establish`, `Advance`, `Confirm`, `Refuse`, `AskAgain` or `Leave` of the ledger,
or to none: a step that leaves the history alone refines when what it makes of
its session `Fits` the answer the ledger could give there, and one that appends
does because the ledger's entries of `Append(h, e)` are those of `h` and the entry
of `e`.

`Extensions_proofs` proves **UpdatesAreKept**, **SnapshotsCoherent**,
**RoutesBounded** and **ExtensionsTypeCorrect**.  Neither `NoUpdateIsLost` nor the
readers' properties are inductive.  `PointersAreLast`: the row of
`task_extension_state` names the last event of its namespace.  `WriterKnows`,
`DraftIsFaithful`: as long as nothing was committed since the revision a caller
loaded, what he has merged is the state of the head with his update; once
something was, his fence fails, and what he holds no longer matters.
`ReaderKnows`: the state a reader holds is of the revision its pointer named, the
pointer is the last of the revision it loaded if the Task did not move between
its two looks at it, and a view's names hold all that had an event by then.

`Board_proofs` begins with what a page is.  `Sel(log, query, a, b)` are the rows
after `a` up to `b` that the query selects; the lemmas say that the first rows of
a selection are the selection up to the last of them (`SelSlice`, `FirstRowsOf`,
`LastRowsOf`), that two that adjoin join (`SelJoin`), and that a log that grew at
its end selects the same below (`SelGrown`).  The invariant is then short.
`Distinct`, `Founded`, `Stored`: an identity is in the log once, a reply follows
its target, a row has its object.  `Called`: what a post knows between two
steps.  `Reading`: what a client has heard is `Sel` up to its cursor, and what
its call holds is `Sel` from there to where its answer will put it.  Each step is
proved `Good` in one go, that is, to keep the invariant and to be a step of
`BoardLog` or none, which gives **NothingSkipped**, **LastPagesLast**,
**DoctorValidates**, **MessagesStored**, **IdentitiesAreUnique**,
**BoardTypeCorrect** and **BoardImplements**.

`News_proofs` proves **HistoriesAreSound**, **RepeatsAreRecognised** and
**ReadsAreNotStale** from `NewsInv`.  `TableInv`: each edition has one head, its
revision is the number of its publications, every publication's object is
stored, and if there is an edition then one is newest.  `PublishInv`: a call
past its put has its object in the store, and one whose publication was there
when it began still finds it.  `ReaderInv`: every edition that was there when a
read began is still there, at its revision or a later one, and between its two
reads the edition it picked is not older than any of them.  That the newest
edition exists, and is one, needs that the order of dates and edition ids is
total and that the tables are finite; the first is a lemma, the second is where
the invariant has to say `SomeNewest`.  **ListingsAreComplete** needs an invariant
of its own, `ListingInv`, which TLC checked on the run's instance before.  Each row
has a rank in the order of the listing, ranks follow the order (`RanksFollowOrder`),
and a page is the rows of the least ranks behind the cursor.  `Listed`: what was
shown is in order and still there, the cursor is the last row shown, and every
edition owed and not shown is behind it.  It is kept because an edition that is
published again keeps its date, hence its place.

`Migrations_proofs` proves **HistoryLeads**, **OpenIsCurrent**,
**RollbackSourceExact**, **EvidencePreserved** and **MigrationsTypeCorrect**.  The
invariant adds to these properties what makes them inductive.  `OneFile`: a path
holds one file.  `Versioned` and `Reached`: the version row is there when there
is a version, and a version that was left lies behind.  `Alone` and `Undisturbed`,
without an overlap: one opening at most is on its way, and it is `Prepared`: the
root is still the one it took its snapshot of, and the canonical path holds what
the step before left there, up to the migration, where it holds that snapshot.

`StateRoot_proofs` proves all that the run `state_root` checks, from `StateInv`,
which has a part for each way things could go wrong.  `LocationInv`: what a
restore has staged or moved aside is a root of its own, of no other restore, and
not the one in service (**RootsAreNotLost**, **AbsencesAreTransient**).
`EvidenceInv`: the private copy of a backup agrees with its manifest from its
staging to its realization, and the realized root was made from that manifest
(**ReceiptsAreTrue**, **BackupsAreWhole**).  `FilesInv` and `CacheInv`: a file's
identity names its root and the number of losses before it, so no identity that
was verified can come back on altered bytes; what a request carries to its
write-back is vouched for at every step between (**CachesAreSound**).
`CompleteInv`: a request about to commit has its object in the root it holds,
unless that root was moved under it (**RootsAreComplete**).  `BackupInv`: what
a backup still has to copy is in the root as long as nothing was damaged and
nothing moved (**BackupsFailForCause**).  **TypesAreKept** is `TypeOK`.

`Deployment_proofs` proves **NoFactIsLost**, **TheLinkCanOpen**,
**ReportsAreAccurate** and **DeploymentTypes** from `DeploymentInv`, which TLC
checked before.  `CommandInv` says at which labels which kind of command is, that
an activation is about its receipt's candidate and previous release, and that one
past its switch has the link at its target.  `SnapshotInv`: from the switch to the
restore of a migration, whatever was acknowledged is in the snapshot, because the
service was down when it was taken and what runs since is the candidate.
`RunsInv`: past a start or restart that succeeded, what runs is the target, or
nothing does; it needs the exceptions `revived` and `astray`.  `OpenInv`: unless a candidate was revived, the
link's release is not older than the Journal nor than the release that runs, and
the two releases of the last receipt have the same schema as the link's unless it
migrates, which is why a rollback with it is harmless.  The numbers of deployments,
candidates and faults play no part.

The second half of `Deployment_proofs` is about `LifecycleSpec`: every action of
`Deployment` again, with what it does to the disk, and those of the collection.  So
that no action is looked at more than once, the actions are first summed up by
their effects: a step rests, moves the link, copies a candidate, records a result,
ends a command, retires an object, goes on in a collection or marks a plan.
`LifecycleInv`, whichever receipts are rolled back with: the link, and the releases
a command works with, are installed (`Installed`); no plan deletes the release in
force when it was made, and one that is being applied is of the present link and
the present last event (`Collected`), which the guard establishes and the
lock keeps.  It gives **RemovalsAreRecorded** and **TheLinkIsInstalled**.
`FrontierInv` is about the last receipt alone: what was promised is nothing, or it
was promised by an event that is the last of all (`PromiseIsOfTheLastEvent`), and
the plans made at an event spare what that event left reversible (`PlansSpare`).
`LastEvent`, a `CHOOSE`, is the greatest event (`LastEventIsLast`).
An automatic rollback recovers the last deployment of the release it restores:
`IsPrior` says which receipt that is, and that it stays that one follows from results
being recorded on the last receipt alone.
**TheFrontierIsRetained** follows: a collection in progress is of the last event, and
so spares what is promised.  Its invariants went to TLC first, and the first
candidates fell there: with a second fault a plan may outlive a rollback of its own
receipt, which is how `CandidateIsRetained` was found.

Model-checked only is liveness: `CallsSettle`, `PollersCatchUp`, `UpgradeAdvances`
and `ServiceComesBack` rest on fairness, which is out of the prover's reach, as is
`ENABLED`.  What is stated and violated (above) is refuted by TLC on an instance.

## Plan

No module that theorems are proved about declares a `RECURSIVE` operator.

1. *Done:* `TaskJournal`, `ExternalContinuity`, `ContinuityLedger`, their runs
   and their theorems, the refinement among them.
2. *Done:* `Extensions`, on top of `TaskJournal`, its run and its theorems.
3. *Done:* `Board` with its abstract specification `BoardLog`, and `News`, with a
   run each and the theorems about both.
4. *Done:* `StateRoot`, backup, verify, restore and the validation cache, with
   a run and its theorems.
5. *Done:* `Migrations`, with a run and its theorems.
6. *Done:* `Deployment`, apply and rollback with a death between any two steps, and
   `ReleaseLifecycle` on top of it, with a run and theorems each.
7. Theorems about what the runs do not state: that the steps of a restore and of a
   deployment refine a replacement of the root and of the release, and that
   `RollbackSourceIsExact` survives an overlap that does not reach the archive.

Not planned: the text of capsules, lenses and status documents; the digest
algebra (an object is its content); file modes and symbolic links; pages of
`task.list`, which are keyed on the creation time of a Task, which no commit
changes; checkpoint
patches, which are a pure function of the checkpoint they patch.
