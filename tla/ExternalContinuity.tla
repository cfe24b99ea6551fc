-------------------------- MODULE ExternalContinuity --------------------------
(***************************************************************************)
(* Workers running task.adopt, task.checkpoint and task.resume against one *)
(* Journal.  Every MCP tool call opens its own connection in its own       *)
(* thread, so between any two statements of one call any statement of      *)
(* another may run, the process may die, and the clock may move, and any   *)
(* read of a stored object may fail.  A step here is one transaction, one  *)
(* read, or a run of writes to the CAS that nobody else can observe yet.   *)
(***************************************************************************)
EXTENDS TaskJournal

CONSTANTS
  LegacyTask,   \* Tasks an older release may have created, without a seed
  Disposition,  \* the states a checkpoint may ask for
  Fence,        \* the expectedRevision of a resume; 0 when it is omitted
  MaxRevision,  \* bound: no call expects a revision this high
  MaxClock,     \* bound: the clock stops here
  MaxFaults,    \* bound: crashes, failed transactions and reads, clock regressions
  LastFaultAt,  \* bound: no fault happens after this time
  Patient       \* do clients always follow retryClass retry_same_request?

ASSUME ContinuityAssumption ==
  /\ LegacyTask \subseteq Task
  /\ Disposition \subseteq {"READY", "COMPLETED", "CANCELLED"}
  /\ Fence \subseteq Nat
  /\ MaxRevision \in Nat
  /\ MaxClock \in Nat
  /\ MaxFaults \in Nat
  /\ LastFaultAt \in Nat
  /\ Patient \in BOOLEAN

VARIABLES
  session,      \* session[w]: the call worker w is running and its locals
  faults        \* how many faults have happened

vars == <<clock, history, leases, objects, session, faults>>

-----------------------------------------------------------------------------
\* Calls and the locals of a call.

\* The state a checkpoint asks for stands for its continuityDisposition:
\* continue, complete and abandon.
AdoptCall == [op: {"adopt"}, task: Task, goal: Goal, expected: {1},
              content: Content, state: {"READY"}]
CheckpointCall == [op: {"checkpoint"}, task: Task, goal: {NoGoal},
                   expected: 1..(MaxRevision - 1), content: Content,
                   state: Disposition]
ResumeCall == [op: {"resume"}, task: Task, goal: {NoGoal},
               expected: Fence, content: {NoContent}, state: {"READY"}]
Call == AdoptCall \cup CheckpointCall \cup ResumeCall
NoCall == [op |-> "none", task |-> NoOwner, goal |-> NoGoal, expected |-> 0,
           content |-> NoContent, state |-> "READY"]

\* What a successful call returns: the revision of the projection, the revision
\* of the handoff capsule, the state, and the WorkingCheckpoint of the view.
NoView == [revision |-> 0, handoff |-> 0, state |-> "READY", content |-> NoContent]

Idle == [pc |-> "idle", call |-> NoCall, lease |-> NoLease, head |-> NoEvent,
         draft |-> NoEvent, now |-> 0, raised |-> "none", view |-> NoView,
         wrote |-> FALSE]
Starting(c) == [Idle EXCEPT !.pc = c.op, !.call = c]

At(w, pc) == session[w].pc = pc
CallOf(w) == session[w].call
HistoryOf(w) == history[session[w].call.task]

Become(w, s) == session' = [session EXCEPT ![w] = s]
Local == UNCHANGED <<clock, history, leases, objects, faults>>

-----------------------------------------------------------------------------
\* How a call ends.  "raised" names the exception in flight; locals that are
\* out of scope are forgotten.

Forgotten(s) == [s EXCEPT !.lease = NoLease, !.head = NoEvent, !.draft = NoEvent,
                          !.now = 0, !.view = NoView]

Answer(s, error) == [Forgotten(s) EXCEPT !.pc = "replied", !.raised = error]

\* The exceptions adopt() catches around its own checkpoint() call.
Converging == {"LeaseHeld", "RevisionConflict", "TaskRevisionMismatch"}

\* An exception leaves checkpoint(): adopt() may catch it.
Raise(s, error) ==
  IF s.call.op = "adopt" /\ error \in Converging
  THEN [Forgotten(s) EXCEPT !.pc = "converge", !.raised = error]
  ELSE Answer(s, error)

\* An exception inside the locked_task body: the finally block runs first.
Unwind(s, error) == [s EXCEPT !.pc = "release", !.raised = error,
                              !.head = NoEvent, !.draft = NoEvent]

\* checkpoint() returns the record of revision r: adopt() goes on to resume().
Complete(s, h, r) ==
  IF s.call.op = "adopt" THEN [Forgotten(s) EXCEPT !.pc = "resume"]
  ELSE [Forgotten(s) EXCEPT !.pc = "replied",
                 !.view = [revision |-> r, handoff |-> r, state |-> s.call.state,
                           content |-> ContentAt(h, r)]]

\* _error_result: the retry class and commit state a client is told.
Busy == {"LeaseHeld", "LeaseConflict"}
CommitUnknown == {"OperationalError", "TaskProjectionDrift", "TaskStateMismatch",
                  "TerminalTaskConflict", "ObjectMissing"}
Corrupted == {"JournalCorruption", "ObjectCorrupt"}
ReadError == Corrupted \cup {"ObjectMissing"}
ToldNotCommitted(s) ==
  s.pc = "replied" /\ s.raised \notin CommitUnknown \cup {"none"}
Succeeded(s) == s.pc = "replied" /\ s.raised = "none"

-----------------------------------------------------------------------------
\* A client calls a tool; it takes the answer, or repeats a busy request.

Begin(w) ==
  /\ At(w, "idle")
  /\ \E c \in Call : Become(w, Starting(c))
  /\ Local

Deliver(w) ==
  /\ At(w, "replied")
  /\ ~(Patient /\ session[w].raised \in Busy)
  /\ Become(w, Idle)
  /\ Local

Retry(w) ==
  /\ At(w, "replied")
  /\ session[w].raised \in Busy
  /\ Become(w, Starting(CallOf(w)))
  /\ Local

-----------------------------------------------------------------------------
\* adopt()

\* What adopt() does with an existing Task, after _require_external_task and
\* the goal comparison: the exception it raises, or where it goes.
AdoptRoute(c, h) ==
  IF HeadOf(h).goal # c.goal THEN "ValueError"
  ELSE IF Len(h) = 1
    THEN IF ContentAt(h, 1) \in {NoContent, c.content}
         THEN "checkpoint" ELSE "RevisionConflict"
  ELSE IF InitialContent(h) = c.content THEN "resume" ELSE "RevisionConflict"

AdoptExisting(w) ==
  LET s == session[w]
      route == AdoptRoute(s.call, HistoryOf(w))
  IN  Become(w, IF route \in {"checkpoint", "resume"}
                THEN [s EXCEPT !.pc = route] ELSE Answer(s, route))

AdoptEntry(w) ==
  /\ At(w, "adopt")
  /\ IF HistoryOf(w) = <<>>
     THEN Become(w, [session[w] EXCEPT !.pc = "seed"])
     ELSE AdoptExisting(w)
  /\ Local

\* The three objects of the creation go to the CAS before the transaction, and
\* create_task stamps the projection with the bare clock.
SeedObjects(w) ==
  LET c == CallOf(w)
      e == [kind |-> "created", goal |-> c.goal, content |-> c.content,
            state |-> "READY", at |-> clock]
  IN  /\ At(w, "seed")
      /\ objects' = objects \cup Evidence(c.task, e)
      /\ Become(w, [session[w] EXCEPT !.pc = "create", !.draft = e])
      /\ UNCHANGED <<clock, history, leases, faults>>

\* EventConflict and RevisionConflict are swallowed: the Task exists then.
CreateTask(w) ==
  LET s == session[w]
      outcome == AppendOutcome(s.call.task, 0, s.draft, NoLease)
  IN  /\ At(w, "create")
      /\ AppendTaskEvent(s.call.task, 0, s.draft, NoLease)
      /\ Become(w, [s EXCEPT !.pc = "require", !.draft = NoEvent,
                                 !.wrote = (outcome = "created")])
      /\ UNCHANGED faults

AdoptCreated(w) ==
  /\ At(w, "require")
  /\ AdoptExisting(w)
  /\ Local

\* The except branch: identical adoption converges on revision 2.
Converge(w) ==
  LET s == session[w]
      h == HistoryOf(w)
  IN  /\ At(w, "converge")
      /\ Become(w, IF Len(h) >= 2 /\ ContentAt(h, 2) = s.call.content
                   THEN [s EXCEPT !.pc = "resume", !.raised = "none"]
                   ELSE Answer(s, s.raised))
      /\ Local

-----------------------------------------------------------------------------
\* checkpoint()

\* A replay recognised by its revision and disposition only.
ReplaysAnyContent(c, h) ==
  /\ Len(h) = c.expected + 1
  /\ HeadOf(h).state = c.state

\* The transition a call asks for is the last one committed.
Replays(c, h) ==
  /\ Len(h) = c.expected + 1
  /\ ContentAt(h, Len(h)) = c.content
  /\ HeadOf(h).state = c.state

CheckpointEntry(w) ==
  LET s == session[w]
      h == HistoryOf(w)
  IN  /\ At(w, "checkpoint")
      /\ \/ /\ h = <<>>
            /\ Become(w, Answer(s, "KeyError"))
         \/ /\ h # <<>> /\ Replays(s.call, h)
            /\ Become(w, Complete(s, h, Len(h)))
         \/ /\ h # <<>> /\ Len(h) # s.call.expected /\ ~Replays(s.call, h)
            /\ Become(w, Raise(s, "RevisionConflict"))
         \/ /\ h # <<>> /\ Len(h) = s.call.expected
            /\ Become(w, IF HeadOf(h).state = "READY"
                         THEN [s EXCEPT !.pc = "clock"] ELSE Raise(s, "ValueError"))
      /\ Local

\* locked_task reads the clock, then waits for the write lock.
ReadClock(w) ==
  /\ At(w, "clock")
  /\ Become(w, [session[w] EXCEPT !.pc = "acquire", !.now = clock])
  /\ Local

AcquireLease(w) ==
  LET s == session[w]
      t == s.call.task
      owner == FreshOwner(w, t)
      lease == NextLease(t, owner, s.now)
  IN  /\ At(w, "acquire")
      /\ \/ /\ LeaseGrantable(t, owner, s.now)
            /\ leases' = [leases EXCEPT ![t] = lease]
            /\ Become(w, [s EXCEPT !.pc = "projection", !.lease = lease, !.now = 0])
         \/ /\ ~LeaseGrantable(t, owner, s.now)
            /\ Become(w, Raise(s, "LeaseHeld"))
            /\ UNCHANGED leases
      /\ UNCHANGED <<clock, history, objects, faults>>

\* current_snapshot: get_task and _expect ...
ReadProjection(w) ==
  LET s == session[w]
      h == HistoryOf(w)
  IN  /\ At(w, "projection")
      /\ Become(w, IF Len(h) # s.call.expected THEN Unwind(s, "TaskRevisionMismatch")
                   ELSE IF HeadOf(h).state # "READY" THEN Unwind(s, "TaskStateMismatch")
                   ELSE [s EXCEPT !.pc = "head"])
      /\ Local

\* ... then read_task_event, a second read, which must find the same projection.
ReadHead(w) ==
  LET s == session[w]
      h == HistoryOf(w)
  IN  /\ At(w, "head")
      /\ Become(w, IF Len(h) # s.call.expected THEN Unwind(s, "TaskProjectionDrift")
                   ELSE [s EXCEPT !.pc = "put", !.head = HeadOf(h)])
      /\ Local

\* The bare clock, without the floor of the previous revision.
TimestampOfClock(previous) == clock

\* next_projection: time never stands still between two revisions of a Task.
Timestamp(previous) == Later(clock, previous + 1)

Draft(s) ==
  [kind |-> "checkpoint", goal |-> s.head.goal, content |-> s.call.content,
   state |-> s.call.state, at |-> Timestamp(s.head.at)]

\* The draft is appended first and its objects are left for later.
PutObjectsLater(w) ==
  LET s == session[w] IN
  /\ At(w, "put")
  /\ Become(w, [s EXCEPT !.pc = "append", !.draft = Draft(s), !.head = NoEvent])
  /\ Local

\* The checkpoint object and the payload object go to the CAS before the append.
PutObjects(w) ==
  LET s == session[w] IN
  /\ At(w, "put")
  /\ objects' = objects \cup Evidence(s.call.task, Draft(s))
  /\ Become(w, [s EXCEPT !.pc = "append", !.draft = Draft(s), !.head = NoEvent])
  /\ UNCHANGED <<clock, history, leases, faults>>

AppendCheckpoint(w) ==
  LET s == session[w]
      outcome == AppendOutcome(s.call.task, s.call.expected, s.draft, s.lease)
  IN  /\ At(w, "append")
      /\ AppendTaskEvent(s.call.task, s.call.expected, s.draft, s.lease)
      /\ Become(w, IF outcome \in Admitted
                   THEN [s EXCEPT !.pc = "readback", !.lease = NoLease,
                                   !.draft = NoEvent, !.wrote = @ \/ outcome = "created"]
                   ELSE Unwind(s, outcome))
      /\ UNCHANGED faults

\* The finally block: LeaseConflict on release is swallowed, the body failed.
ReleaseLease(w) ==
  LET s == session[w]
      t == s.call.task
  IN  /\ At(w, "release")
      /\ leases' = [leases EXCEPT ![t] = ReleasedLease(t, s.lease)]
      /\ Become(w, Raise(s, s.raised))
      /\ UNCHANGED <<clock, history, objects, faults>>

\* A read-back that contends for the lease again.
ReadBackLeased(w) ==
  LET s == session[w] IN
  /\ At(w, "readback")
  /\ Become(w, IF ~LeaseGrantable(s.call.task, FreshOwner(w, s.call.task), clock) THEN Raise(s, "LeaseHeld")
               ELSE Complete(s, HistoryOf(w), s.call.expected + 1))
  /\ Local

\* checkpoint() builds its answer from the event it appended, whatever the head
\* is by now.
ReadBack(w) ==
  /\ At(w, "readback")
  /\ Become(w, Complete(session[w], HistoryOf(w), CallOf(w).expected + 1))
  /\ Local

-----------------------------------------------------------------------------
\* resume()

ResumeEntry(w) ==
  LET s == session[w]
      h == HistoryOf(w)
  IN  /\ At(w, "resume")
      /\ Become(w,
           IF h = <<>> THEN Answer(s, "KeyError")
           ELSE IF s.call.op = "resume" /\ s.call.expected \notin {0, Len(h)}
             THEN Answer(s, "RevisionConflict")
           ELSE [s EXCEPT !.pc = "handoff", !.view.revision = Len(h),
                          !.view.state = HeadOf(h).state])
      /\ Local

\* A handoff built from whatever the head is by now.
HandoffOfHead(w) ==
  LET s == session[w]
      h == HistoryOf(w)
  IN  /\ At(w, "handoff")
      /\ Become(w, [s EXCEPT !.pc = "replied", !.view.handoff = Len(h),
                             !.view.content = ContentAt(h, s.view.revision)])
      /\ Local

\* operator_handoff reads the head again and fences it with the revision just
\* read; the checkpoint of the view is then read at that revision.
Handoff(w) ==
  LET s == session[w]
      h == HistoryOf(w)
  IN  /\ At(w, "handoff")
      /\ Become(w,
           IF Len(h) # s.view.revision THEN Answer(s, "ValueError")
           ELSE [s EXCEPT !.pc = "replied", !.view.handoff = Len(h),
                          !.view.content = ContentAt(h, s.view.revision)])
      /\ Local

-----------------------------------------------------------------------------
\* Faults and time.

FaultAllowed == faults < MaxFaults /\ clock <= LastFaultAt

\* A worker's process dies, or its answer never reaches the client.
Crash(w) ==
  /\ FaultAllowed
  /\ ~At(w, "idle")
  /\ Become(w, Idle)
  /\ faults' = faults + 1
  /\ UNCHANGED journalVars

\* SQLite gives up on a transaction (sqlite3.OperationalError), which is rolled
\* back now or, when COMMIT itself failed, when the connection is closed.  Either
\* release_lease fails, or the COMMIT of an append, after which the BEGIN of
\* release_lease fails too: then the lease row is left behind.
TransactionFails(w) ==
  LET s == session[w] IN
  /\ FaultAllowed
  /\ s.pc \in {"create", "acquire", "append", "release"}
  /\ \/ Become(w, Answer(s, "OperationalError"))
     \/ s.pc = "append" /\ Become(w, Unwind(s, "OperationalError"))
  /\ faults' = faults + 1
  /\ UNCHANGED <<clock, history, leases, objects>>

\* A stored object that a statement reads, or finds in place of the one it puts, is
\* damaged or gone.  "objects" is what was put: a file that stays bad fails every
\* read of it, and each is a fault.  adopt() catches none of these exceptions.
Readable == {"adopt", "require", "converge", "checkpoint", "head", "put", "readback",
             "resume", "handoff"}
ReadFails(w) ==
  LET s == session[w] IN
  /\ FaultAllowed
  /\ \E error \in ReadError :
       /\ \/ s.pc \in Readable /\ HistoryOf(w) # <<>>
          \/ /\ s.pc = "seed" /\ error = "ObjectCorrupt"
             /\ {DescriptorObject(s.call.task, s.call.goal),
                 CheckpointObject(s.call.task, s.call.content)} \cap objects # {}
       /\ Become(w, IF s.pc \in {"head", "put"} THEN Unwind(s, error) ELSE Answer(s, error))
  /\ faults' = faults + 1
  /\ UNCHANGED <<clock, history, leases, objects>>

Tick ==
  /\ clock < MaxClock
  /\ clock' = clock + 1
  /\ UNCHANGED <<history, leases, objects, session, faults>>

\* The wall clock is stepped back.
ClockStepsBack ==
  /\ FaultAllowed
  /\ \E now \in 0..(clock - 1) : clock' = now
  /\ faults' = faults + 1
  /\ UNCHANGED <<history, leases, objects, session>>

-----------------------------------------------------------------------------
LegacyCreation(g) == [kind |-> "created", goal |-> g, content |-> NoContent,
                      state |-> "READY", at |-> 0]

Init ==
  /\ clock = 0
  /\ \E g \in Goal, old \in SUBSET LegacyTask :
       /\ history = [t \in Task |-> IF t \in old THEN <<LegacyCreation(g)>> ELSE <<>>]
       /\ objects = UNION {Evidence(t, LegacyCreation(g)) : t \in old}
  /\ leases = [t \in Task |-> NoLease]
  /\ session = [w \in Worker |-> Idle]
  /\ faults = 0

\* The statements of a call, which its thread executes one after another.
Run(w) ==
  \/ AdoptEntry(w) \/ SeedObjects(w) \/ CreateTask(w) \/ AdoptCreated(w)
  \/ Converge(w) \/ CheckpointEntry(w) \/ ReadClock(w) \/ AcquireLease(w)
  \/ ReadProjection(w) \/ ReadHead(w) \/ PutObjects(w) \/ AppendCheckpoint(w)
  \/ ReleaseLease(w) \/ ReadBack(w) \/ ResumeEntry(w) \/ Handoff(w)

Next ==
  \/ \E w \in Worker :
       Begin(w) \/ Deliver(w) \/ Retry(w) \/ Run(w) \/ Crash(w) \/ TransactionFails(w)
         \/ ReadFails(w)
  \/ Tick
  \/ ClockStepsBack

Spec == Init /\ [][Next]_vars

\* Every call thread keeps running, and time goes on.  Nothing is assumed of
\* clients, except that Patient ones repeat busy requests; faults are never due.
FairSpec ==
  /\ Spec
  /\ WF_vars(Tick)
  /\ \A w \in Worker : WF_vars(Run(w)) /\ WF_vars(Patient /\ Retry(w))

-----------------------------------------------------------------------------
\* Type correctness of the Journal, the store and the sessions.
Label == {"idle", "adopt", "seed", "create", "require", "converge", "checkpoint",
          "clock", "acquire", "projection", "head", "put", "append", "release",
          "readback", "resume", "handoff", "replied"}
Exception == {"none", "KeyError", "ValueError", "LeaseHeld", "LeaseConflict",
              "RevisionConflict", "EventConflict", "TerminalTaskConflict",
              "TaskRevisionMismatch", "TaskStateMismatch", "TaskProjectionDrift",
              "OperationalError", "ObjectMissing", "JournalCorruption", "ObjectCorrupt"}
View == [revision: Nat, handoff: Nat, state: TaskState,
         content: Content \cup {NoContent}]
Session == [pc: Label, call: Call \cup {NoCall}, lease: Lease \cup {NoLease},
            head: Event \cup {NoEvent}, draft: Event \cup {NoEvent}, now: Nat,
            raised: Exception, view: View, wrote: BOOLEAN]

TypeOK ==
  /\ clock \in Nat
  /\ history \in [Task -> Seq(Event)]
  /\ leases \in [Task -> Lease \cup {NoLease}]
  /\ session \in [Worker -> Session]
  /\ faults \in Nat

\* A task.checkpoint that answered ok has its content and disposition in the
\* history at exactly the revision after the one its caller named, and a
\* task.adopt that answered ok is about a Task whose goal and initial
\* checkpoint are the caller's: whoever crashed, took a lease over, replayed or
\* stepped the clock in between (continuity.py adopt, checkpoint).
Honoured(s) ==
  LET c == s.call
      h == history[c.task]
  IN  /\ c.op = "checkpoint" =>
           /\ Len(h) > c.expected
           /\ h[c.expected + 1].content = c.content
           /\ h[c.expected + 1].state = c.state
           /\ s.view.revision = c.expected + 1
      /\ c.op = "adopt" =>
           /\ Len(h) >= 2
           /\ h[1].goal = c.goal
           /\ InitialContent(h) = c.content
AnswersAreHonoured == \A w \in Worker : Succeeded(session[w]) => Honoured(session[w])

\* The projection, the handoff and the checkpoint of one successful answer are
\* of one revision (docs/OPERATIONS.md: no mixed-revision recovery view), even
\* though they are three separate reads.
ViewsAreOfOneRevision ==
  \A w \in Worker : Succeeded(session[w]) =>
    LET v == session[w].view
        h == history[session[w].call.task]
    IN  /\ v.revision \in DOMAIN h
        /\ v.handoff = v.revision
        /\ v.state = h[v.revision].state
        /\ v.content = h[v.revision].content

\* Recorded times strictly increase along every Task stream, although many
\* commits may share a millisecond and the clock may be stepped back
\* (kernel.py timestamp; task lists and history validation rely on it).
TimeStrictlyIncreases ==
  \A t \in Task : \A i, j \in DOMAIN history[t] :
    i < j => history[t][i].at < history[t][j].at

\* A terminal Task never admits another event, whatever a worker that saw it
\* READY still holds (sqlite.py append_task_event, kernel.py next_projection).
TerminalIsLast ==
  \A t \in Task : \A i \in DOMAIN history[t] :
    Terminal(history[t][i].state) => i = Len(history[t])

\* No crash leaves an event whose payload, checkpoint or descriptor is not in
\* the CAS (storage.py record_task_event puts before it appends).
EvidenceIsStored ==
  \A t \in Task : \A i \in DOMAIN history[t] :
    Evidence(t, history[t][i]) \subseteq objects

\* A task.checkpoint that is refused by a rule of the Host (the Task is unknown, busy,
\* of another revision or state, or the arguments are invalid) and is told commitState
\* not_committed has committed nothing: no refusal comes after the append, whatever
\* other workers commit or take over meanwhile (mcp_server.py _error_result; order of
\* checks, append and read-back in continuity.py checkpoint).
RefusalsCommitNothing ==
  \A w \in Worker :
    session[w].call.op = "checkpoint" /\ ToldNotCommitted(session[w])
      => session[w].raised \in Corrupted \/ ~session[w].wrote

\* commitState not_committed means what it says of task.checkpoint (mcp_server.py
\* _error_result).  It is false: when the stored checkpoint cannot be read back after
\* the append, HOST_STATE_CORRUPT carries not_committed too.
CheckpointErrorsAreHonest ==
  \A w \in Worker :
    session[w].call.op = "checkpoint" /\ ToldNotCommitted(session[w])
      => ~session[w].wrote

\* The same claim of task.adopt: it is false, because adopt commits revision 1
\* before it contends for revision 2.
AdoptErrorsAreHonest ==
  \A w \in Worker :
    session[w].call.op = "adopt" /\ ToldNotCommitted(session[w])
      => ~session[w].wrote

\* README.md: a checkpoint retried against its original expectedRevision
\* returns the existing revision if that exact transition already committed.
\* False once the Task has moved on: the entry check raises RevisionConflict.
CommittedTransition(c) ==
  LET h == history[c.task] IN
  /\ c.expected + 1 \in DOMAIN h
  /\ h[c.expected + 1].content = c.content
  /\ h[c.expected + 1].state = c.state
ReplayIsRecognised ==
  [][\A w \in Worker :
       At(w, "checkpoint") /\ CallOf(w).op = "checkpoint"
         /\ session'[w].pc = "replied" /\ session'[w].raised = "RevisionConflict"
       => ~CommittedTransition(CallOf(w))]_vars

\* Every call ends, and a client that repeats a busy request is not kept busy
\* for ever by a lease left behind by a process that died
\* (mcp_server.py retryClass retry_same_request, kernel.py lease_ttl_ms).
Settled(w) == At(w, "idle") \/ (At(w, "replied") /\ session[w].raised \notin Busy)
CallsSettle == \A w \in Worker : ~Settled(w) ~> Settled(w)

\* What a client sees of an event, of a Task, and of its call.
EntryOf(e) == [goal |-> e.goal, content |-> e.content, state |-> e.state]
Entries(h) == [i \in DOMAIN h |-> EntryOf(h[i])]
Told(s) ==
  IF s.pc # "replied" THEN [verdict |-> "pending", revision |-> 0, content |-> NoContent]
  ELSE IF s.raised # "none" THEN [verdict |-> "refused", revision |-> 0, content |-> NoContent]
  ELSE [verdict |-> "ok", revision |-> s.view.revision, content |-> s.view.content]

\* The client-visible behaviour is that of the ledger: it grows by one entry at a
\* time, at the revision its writer named and never after a terminal entry, and
\* an ok answer is about an entry that is there (continuity.py).
ledger == [t \in Task |-> Entries(history[t])]
request == [w \in Worker |-> session[w].call]
answer == [w \in Worker |-> Told(session[w])]
Ledger == INSTANCE ContinuityLedger
ImplementsLedger == Ledger!LedgerSpec
=============================================================================
