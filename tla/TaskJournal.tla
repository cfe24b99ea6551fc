----------------------------- MODULE TaskJournal -----------------------------
(***************************************************************************)
(* The Task half of the Host Journal: one event stream per Task, at most   *)
(* one lease row per Task, the content-addressed object store beside the   *)
(* SQLite file, and the wall clock every worker reads.                     *)
(*                                                                         *)
(* append_task_event writes streams, events, event_object_refs and         *)
(* task_projection in one BEGIN IMMEDIATE transaction, so a Task is one    *)
(* sequence here: the stream revision is its length, the current           *)
(* projection is its last element, and the event at stream_revision n is   *)
(* its n-th element.  Each transaction is one operator, used by the        *)
(* modules that model the callers as exactly one step.                     *)
(***************************************************************************)
EXTENDS Integers, Sequences

CONSTANTS
  Task,         \* Task identities ("task:...")
  Goal,         \* Goal identities ("goal:...")
  Content,      \* WorkingCheckpoint contents, told apart by digest only
  NoContent,    \* an event that carries no WorkingCheckpoint
  NoGoal,       \* the goal field of a value that names no Goal
  Worker,       \* HostKernel instances
  NoOwner,      \* the owner of an absent lease row
  TtlMs         \* lease_ttl_ms

ASSUME JournalAssumption ==
  /\ NoContent \notin Content
  /\ NoGoal \notin Goal
  /\ NoOwner \notin Worker \X Nat
  /\ TtlMs \in Nat \ {0}

VARIABLES
  clock,        \* what clock_ms() returns now
  history,      \* history[t]: the committed events of Task t, in revision order
  leases,       \* leases[t]: the row of table leases, or NoLease
  objects       \* the objects the CAS holds, identified by what they contain

journalVars == <<clock, history, leases, objects>>

\* TaskState, as far as external continuity reaches it (RUNNING, WAITING,
\* VERIFYING, BLOCKED and FAILED are never written by it).
TaskState == {"READY", "COMPLETED", "CANCELLED"}
Terminal(state) == state \in {"COMPLETED", "CANCELLED"}

\* An event with the projection its payload object carries.  A "created" event
\* of an older release has no seed checkpoint (content = NoContent).
Event == [kind: {"created", "checkpoint"}, goal: Goal,
          content: Content \cup {NoContent}, state: TaskState, at: Nat]
NoEvent == [kind |-> "none", goal |-> NoGoal, content |-> NoContent,
            state |-> "READY", at |-> 0]

\* worker_owner_id: external continuity builds a HostKernel for every call, so its
\* owner is new and never finds a row of its own.  Owners are only compared with the
\* row of one Task: an id this row does not hold is as good as one nobody ever had.
Owner == Worker \X Nat
Lease == [owner: Owner, revision: Nat \ {0}, expires: Nat]
NoLease == [owner |-> NoOwner, revision |-> 0, expires |-> 0]

FreshOwner(w, t) == <<w, IF leases[t].owner = <<w, 0>> THEN 1 ELSE 0>>

Later(a, b) == IF a >= b THEN a ELSE b
HeadOf(h) == h[Len(h)]

\* _checkpoint_at_revision: the WorkingCheckpoint bound to revision r of h.
ContentAt(h, r) == IF r \in DOMAIN h THEN h[r].content ELSE NoContent

\* _initial_checkpoint: the seed of revision 1, else the one of revision 2.
InitialContent(h) ==
  IF ContentAt(h, 1) # NoContent THEN ContentAt(h, 1) ELSE ContentAt(h, 2)

\* The CAS objects a Task event refers to.  Its host-event-payload object is
\* the event itself: every call puts it in the step that drafts the event.
DescriptorObject(t, g) == <<"descriptor", t, g>>
CheckpointObject(t, c) == <<"checkpoint", t, c>>
Evidence(t, e) ==
  {DescriptorObject(t, e.goal)}
    \cup (IF e.content = NoContent THEN {} ELSE {CheckpointObject(t, e.content)})

-----------------------------------------------------------------------------
\* The lease transactions.

\* A lease that only its owner can give back.
LeaseGrantableUntilReleased(t, owner, now) ==
  leases[t] = NoLease \/ leases[t].owner = owner

\* acquire_lease: no row, the caller's own row, or a row that has expired at
\* the time the caller read before it asked for the write lock.
LeaseGrantable(t, owner, now) ==
  \/ leases[t] = NoLease
  \/ leases[t].owner = owner
  \/ leases[t].expires <= now

\* The row acquire_lease writes: the lease revision restarts at 1 when the row
\* was deleted, and otherwise grows by one.
NextLease(t, owner, now) ==
  [owner |-> owner, revision |-> leases[t].revision + 1, expires |-> now + TtlMs]

\* A release that clears the revision of the row instead of deleting the row.
ReleasedLeaseKeepsRow(t, lease) ==
  IF leases[t].owner = lease.owner /\ leases[t].revision = lease.revision
  THEN [leases[t] EXCEPT !.revision = 0] ELSE leases[t]

\* release_lease deletes the row only for the same owner and lease revision.
ReleasedLease(t, lease) ==
  IF leases[t].owner = lease.owner /\ leases[t].revision = lease.revision
  THEN NoLease ELSE leases[t]

\* _validate_exact_lease: the row is still the one handed out, and it expires
\* after the time the transition is stamped with.
ExactLease(t, lease, checkedAt) ==
  /\ leases[t] = lease
  /\ lease.expires > checkedAt

-----------------------------------------------------------------------------
\* append_task_event, with the exception each refusal raises.  External
\* continuity derives event ids from the Task, the stage and the revision, so
\* the id of e is bound iff revision expected+1 exists and is of the same kind.

EventIdBound(t, expected, e) ==
  /\ expected + 1 \in DOMAIN history[t]
  /\ history[t][expected + 1].kind = e.kind

Leased(t, expected, e, lease) == expected > 0 => ExactLease(t, lease, e.at)

\* An append that relies on what the caller checked before the transaction: it
\* takes the next revision of the stream, whatever the caller expected.
AppendOutcomeUnfenced(t, expected, e, lease) ==
  IF EventIdBound(t, expected, e) /\ history[t][expected + 1] = e
  THEN "existing" ELSE "created"

\* "bound": the event id is taken; "same": by an identical event.
Admission(t, expected, e, lease, bound, same) ==
  IF bound /\ ~same THEN "EventConflict"
  ELSE IF ~bound /\ Len(history[t]) # expected THEN "RevisionConflict"
  ELSE IF ~bound /\ expected > 0 /\ Terminal(HeadOf(history[t]).state)
    THEN "TerminalTaskConflict"
  ELSE IF ~Leased(t, expected, e, lease) THEN "LeaseConflict"
  ELSE IF bound THEN "existing" ELSE "created"

AppendOutcome(t, expected, e, lease) ==
  LET bound == EventIdBound(t, expected, e)
  IN  Admission(t, expected, e, lease, bound, bound /\ history[t][expected + 1] = e)

Admitted == {"created", "existing"}

\* What the transaction writes, once it is decided.
WriteTaskEvent(t, expected, e, outcome) ==
  /\ history' = IF outcome = "created"
                THEN [history EXCEPT ![t] = Append(@, e)] ELSE history
  /\ leases' = IF outcome \in Admitted /\ expected > 0
               THEN [leases EXCEPT ![t] = NoLease] ELSE leases
  /\ UNCHANGED <<clock, objects>>

AppendTaskEvent(t, expected, e, lease) ==
  WriteTaskEvent(t, expected, e, AppendOutcome(t, expected, e, lease))
=============================================================================
