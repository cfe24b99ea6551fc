------------------------------ MODULE Extensions ------------------------------
(***************************************************************************)
(* The extension port: components that append events of their own          *)
(* namespaces to a Task, other components and core events that move the    *)
(* same Task, and readers of the retained namespace state.  A component    *)
(* reads the head and the state of its namespace, merges its update into   *)
(* both, stores them, and only then asks for the Task lease.               *)
(*                                                                         *)
(* A payload is the set of fields that are set, and so is the state of a   *)
(* namespace: an update sets some and removes others.  As in               *)
(* ExternalContinuity, a step is one transaction, one read, or local; a     *)
(* component that dies is one that takes no further step.                  *)
(***************************************************************************)
EXTENDS TaskJournal, FiniteSets

CONSTANTS
  Namespace,    \* the owners of extension state ("world", "harness")
  Field,        \* the fields of their state, and of event payloads
  Tool,         \* bound: the operations in use
  MaxRevision,  \* bound: no call expects a revision this high
  MaxClock      \* bound: the clock stops here

ASSUME ExtensionsAssumption ==
  /\ Tool \subseteq {"extend", "core", "inspect", "route"}
  /\ MaxRevision \in Nat
  /\ MaxClock \in Nat

VARIABLES
  pointers,     \* pointers[t][ns]: the revision task_extension_state names, or 0
  session       \* session[w]: the call w is running and its locals

vars == <<clock, history, leases, objects, pointers, session>>

-----------------------------------------------------------------------------
\* Events.  An extension event keeps what its caller asked for (add, remove),
\* the namespace state it retains (owned) and its payload (data).

Update == {u \in [add: SUBSET Field, remove: SUBSET Field] :
             Cardinality(u.add \cup u.remove) = 1}
NoUpdate == [add |-> {}, remove |-> {}]
NoNamespace == "core"

Creation == [kind |-> "created", id |-> <<"created", 1>>, ns |-> NoNamespace,
             update |-> NoUpdate, owned |-> {}, data |-> {}, state |-> "READY",
             at |-> 0]

\* The state namespace ns retains at the revision a pointer names.
Retained(h, r) == IF r = 0 THEN {} ELSE h[r].owned
Merged(fields, update) == (fields \ update.remove) \cup update.add

-----------------------------------------------------------------------------
\* Calls and their locals.

\* A caller names a revision it has seen, or none.  A component gives two events
\* of its namespace one event id exactly when they carry the same update.
Seen(h) == {r \in DOMAIN h : r < MaxRevision}
ExtendCall(t) == [op: {"extend"}, task: {t}, expected: Seen(history[t]),
                  ns: Namespace, update: Update, state: {"READY"}]
CoreCall(t) == [op: {"core"}, task: {t}, expected: Seen(history[t]),
                ns: {NoNamespace}, update: {NoUpdate},
                state: {"READY", "COMPLETED"}]
ReadCall(t) == [op: {"inspect", "route"}, task: {t},
                expected: {0} \cup Seen(history[t]), ns: Namespace,
                update: {NoUpdate}, state: {"READY"}]
Call(t) == {c \in ExtendCall(t) \cup CoreCall(t) \cup ReadCall(t) : c.op \in Tool}
NoCall == [op |-> "none", task |-> NoOwner, expected |-> 0,
           ns |-> NoNamespace, update |-> NoUpdate, state |-> "READY"]

Idle == [pc |-> "idle", call |-> NoCall, now |-> 0, lease |-> NoLease,
         loaded |-> 0, owned |-> {}, draft |-> Creation, attempt |-> 0,
         pointer |-> 0, names |-> {}]

At(w, pc) == session[w].pc = pc
CallOf(w) == session[w].call
HistoryOf(w) == history[session[w].call.task]
Become(w, s) == session' = [session EXCEPT ![w] = s]
Local == UNCHANGED <<clock, history, leases, objects, pointers>>

\* A call that failed, or committed, has nothing more to say here: only the views
\* of the two readers stay until their clients take them.  An exception under the
\* lease goes through the finally block, which only needs the lease.
Unwind(s) == [Idle EXCEPT !.pc = "release", !.lease = s.lease,
                          !.call = [NoCall EXCEPT !.task = s.call.task]]

Begin(w) ==
  /\ At(w, "idle")
  /\ \E t \in Task : \E c \in Call(t) :
       Become(w, [Idle EXCEPT !.call = c,
                    !.pc = CASE c.op = "extend" -> "load"
                             [] c.op = "core" -> "clock"
                             [] c.op = "inspect" -> "before"
                             [] c.op = "route" -> "route"])
  /\ Local

Deliver(w) ==
  /\ At(w, "replied")
  /\ Become(w, Idle)
  /\ Local

-----------------------------------------------------------------------------
\* append_preserving()

Load(w) ==
  /\ At(w, "load")
  /\ Become(w, [session[w] EXCEPT !.pc = "state", !.loaded = Len(HistoryOf(w))])
  /\ Local

\* _namespace_state reads the pointer, then an object that never changes.  The
\* merged state goes to the CAS here, before the lease: nobody can tell when.
LoadNamespace(w) ==
  LET s == session[w]
      c == s.call
      owned == Merged(Retained(HistoryOf(w), pointers[c.task][c.ns]), c.update)
  IN  /\ At(w, "state")
      /\ Become(w, [s EXCEPT !.pc = "clock", !.owned = owned])
      /\ Local

\* The payload extends what was loaded before the lease.
Payload(s, h) ==
  IF s.call.op = "core" THEN {}
  ELSE (h[s.loaded].data \ s.call.update.remove) \cup s.owned

\* expected_state: what was loaded, or what the core caller requires.
ExpectedState(s, h) == IF s.call.op = "core" THEN "READY" ELSE h[s.loaded].state

-----------------------------------------------------------------------------
\* locked_task(), for extension and core events alike.

ReadClock(w) ==
  /\ At(w, "clock")
  /\ Become(w, [session[w] EXCEPT !.pc = "acquire", !.now = clock])
  /\ Local

AcquireLease(w) ==
  LET s == session[w]
      t == s.call.task
      owner == <<w, 0>>
      lease == NextLease(t, owner, s.now)
  IN  /\ At(w, "acquire")
      /\ \/ /\ LeaseGrantable(t, owner, s.now)
            /\ leases' = [leases EXCEPT ![t] = lease]
            /\ Become(w, [s EXCEPT !.pc = "projection", !.lease = lease, !.now = 0])
         \/ /\ ~LeaseGrantable(t, owner, s.now)
            /\ Become(w, Idle)
            /\ UNCHANGED leases
      /\ UNCHANGED <<clock, history, objects, pointers>>

\* A check that the loaded state still holds, but not the revision.
ReadProjectionUnfenced(w) ==
  LET s == session[w]
      h == HistoryOf(w)
  IN  /\ At(w, "projection")
      /\ Become(w, IF HeadOf(h).state # ExpectedState(s, h)
                     THEN Unwind(s)
                   ELSE [s EXCEPT !.pc = "head", !.call.expected = Len(h)])
      /\ Local

ReadProjection(w) ==
  LET s == session[w]
      h == HistoryOf(w)
  IN  /\ At(w, "projection")
      /\ Become(w, IF Len(h) # s.call.expected THEN Unwind(s)
                   ELSE IF HeadOf(h).state # ExpectedState(s, h)
                     THEN Unwind(s)
                   ELSE [s EXCEPT !.pc = "head"])
      /\ Local

ReadHead(w) ==
  LET s == session[w]
      h == HistoryOf(w)
  IN  /\ At(w, "head")
      /\ Become(w, IF Len(h) # s.call.expected THEN Unwind(s)
                   ELSE [s EXCEPT !.pc = "stamp"])
      /\ Local

\* next_projection refuses a terminal Task; the state of an extension event is
\* the one locked.
Draft(w) ==
  LET s == session[w]
      c == s.call
      h == HistoryOf(w)
      head == h[c.expected]
      draft == [kind |-> IF c.op = "core" THEN "core" ELSE "extension",
                id |-> IF c.op = "core" THEN <<"core", c.expected + 1>>
                       ELSE <<c.ns, c.update>>,
                ns |-> c.ns, update |-> c.update, owned |-> s.owned,
                data |-> Payload(s, h),
                state |-> IF c.op = "core" THEN c.state ELSE head.state,
                at |-> Later(clock, head.at + 1)]
  IN  /\ At(w, "stamp")
      /\ Become(w, IF Terminal(head.state) THEN Unwind(s)
                   ELSE [s EXCEPT !.pc = "append", !.draft = draft, !.owned = {},
                                  !.loaded = 0])
      /\ Local

\* The event, its payload and the pointer of its namespace are one transaction.
\* An event found under the same id must be this one in every respect, and still
\* own the namespace.
CommitEvent(w) ==
  LET s == session[w]
      c == s.call
      t == c.task
      h == HistoryOf(w)
      twins == {r \in DOMAIN h : h[r].id = s.draft.id}
      owns(r) == c.op = "extend" => pointers[t][c.ns] = r /\ r = c.expected + 1
      same == \E r \in twins : h[r] = s.draft /\ owns(r)
      outcome == Admission(t, c.expected, s.draft, s.lease, twins # {}, same)
  IN  /\ At(w, "append")
      /\ WriteTaskEvent(t, c.expected, s.draft, outcome)
      /\ pointers' = IF outcome = "created" /\ c.op = "extend"
                     THEN [pointers EXCEPT ![t][c.ns] = c.expected + 1]
                     ELSE pointers
      /\ Become(w, IF outcome \in Admitted
                   THEN Idle
                   ELSE Unwind(s))

ReleaseLease(w) ==
  LET s == session[w]
      t == s.call.task
  IN  /\ At(w, "release")
      /\ leases' = [leases EXCEPT ![t] = ReleasedLease(t, s.lease)]
      /\ Become(w, Idle)
      /\ UNCHANGED <<clock, history, objects, pointers>>

-----------------------------------------------------------------------------
\* load_namespace_snapshot(): head, pointer, head again, at most three times.

ReadBefore(w) ==
  LET s == session[w]
      r == Len(HistoryOf(w))
  IN  /\ At(w, "before")
      /\ Become(w, IF s.call.expected \notin {0, r} THEN Idle
                   ELSE [s EXCEPT !.pc = "pointer", !.loaded = r])
      /\ Local

ReadPointer(w) ==
  LET s == session[w]
      r == pointers[s.call.task][s.call.ns]
  IN  /\ At(w, "pointer")
      /\ Become(w, [s EXCEPT !.pc = "after", !.pointer = r,
                             !.owned = Retained(HistoryOf(w), r)])
      /\ Local

\* A reader that trusts its first read of the head.
ReadAfterUnfenced(w) ==
  /\ At(w, "after")
  /\ Become(w, [session[w] EXCEPT !.pc = "replied"])
  /\ Local

ReadAfter(w) ==
  LET s == session[w]
      moved == Len(HistoryOf(w)) # s.loaded \/ s.pointer > Len(HistoryOf(w))
  IN  /\ At(w, "after")
      /\ Become(w, IF ~moved THEN [s EXCEPT !.pc = "replied"]
                   ELSE IF s.attempt = 2 THEN Idle
                   ELSE [Idle EXCEPT !.pc = "before", !.call = s.call,
                                     !.attempt = s.attempt + 1])
      /\ Local

-----------------------------------------------------------------------------
\* The extension namespaces of a recovery view: resume() reads a revision,
\* fences it in operator_handoff, and then lists names in two more reads.

RouteEntry(w) ==
  LET s == session[w]
      r == Len(HistoryOf(w))
  IN  /\ At(w, "route")
      /\ Become(w, IF s.call.expected \notin {0, r} THEN Idle
                   ELSE [s EXCEPT !.pc = "handoff", !.loaded = r])
      /\ Local

Handoff(w) ==
  LET s == session[w] IN
  /\ At(w, "handoff")
  /\ Become(w, IF Len(HistoryOf(w)) # s.loaded THEN Idle
               ELSE [s EXCEPT !.pc = "durable"])
  /\ Local

DurableNamespaces(w) ==
  LET s == session[w] IN
  /\ At(w, "durable")
  /\ Become(w, [s EXCEPT !.pc = "visible",
                  !.names = {n \in Namespace : pointers[s.call.task][n] > 0}])
  /\ Local

Extended(h, r) == {h[i].ns : i \in {j \in 1..r : h[j].kind = "extension"}}

\* The retained namespaces, whenever their events were committed.
VisibleNamespacesOfHead(w) ==
  /\ At(w, "visible")
  /\ Become(w, [session[w] EXCEPT !.pc = "replied"])
  /\ Local

VisibleNamespaces(w) ==
  LET s == session[w] IN
  /\ At(w, "visible")
  /\ Become(w, [s EXCEPT !.pc = "replied",
                  !.names = @ \cap Extended(HistoryOf(w), s.loaded)])
  /\ Local

-----------------------------------------------------------------------------
Tick ==
  /\ clock < MaxClock
  /\ clock' = clock + 1
  /\ UNCHANGED <<history, leases, objects, pointers, session>>

Init ==
  /\ clock = 0
  /\ history = [t \in Task |-> <<Creation>>]
  /\ leases = [t \in Task |-> NoLease]
  /\ objects = {}
  /\ pointers = [t \in Task |-> [n \in Namespace |-> 0]]
  /\ session = [w \in Worker |-> Idle]

Next ==
  \/ \E w \in Worker :
       \/ Begin(w) \/ Deliver(w)
       \/ Load(w) \/ LoadNamespace(w)
       \/ ReadClock(w) \/ AcquireLease(w) \/ ReadProjection(w) \/ ReadHead(w)
       \/ Draft(w) \/ CommitEvent(w) \/ ReleaseLease(w)
       \/ ReadBefore(w) \/ ReadPointer(w) \/ ReadAfter(w)
       \/ RouteEntry(w) \/ Handoff(w) \/ DurableNamespaces(w) \/ VisibleNamespaces(w)
  \/ Tick

Spec == Init /\ [][Next]_vars

-----------------------------------------------------------------------------
\* The revision of the last event of namespace n up to revision r, or 0.
LastOf(h, n, r) ==
  LET own == {i \in 1..r : h[i].kind = "extension" /\ h[i].ns = n}
  IN  IF own = {} THEN 0 ELSE CHOOSE i \in own : \A j \in own : j <= i

\* No update of a namespace is lost: the state an extension event retains is the
\* state the namespace had at the revision before, with the caller's update,
\* although it was read and merged before the lease (extensions.py
\* append_preserving).  The rest of the Task is as the revision before had it: its
\* state, and every field of the payload that was not asked to change (extensions.py:
\* "The Host only preserves the current Task projection").
NoUpdateIsLost ==
  \A t \in Task : \A i \in DOMAIN history[t] :
    LET h == history[t] IN
    h[i].kind = "extension" =>
      /\ h[i].owned = Merged(Retained(h, LastOf(h, h[i].ns, i - 1)), h[i].update)
      /\ h[i].state = h[i - 1].state
      /\ h[i].data = (h[i - 1].data \ h[i].update.remove) \cup h[i].owned

\* What load_namespace_snapshot returns is of one revision: the owner it names
\* is the last event of the namespace up to the revision of the projection it
\* returns, and the state is that event's (its docstring: "revision-coherent").
SnapshotsAreCoherent ==
  \A w \in Worker :
    LET s == session[w]
        h == history[s.call.task]
    IN  s.call.op = "inspect" /\ s.pc = "replied" =>
          /\ s.pointer = LastOf(h, s.call.ns, s.loaded)
          /\ s.owned = Retained(h, s.pointer)

\* The namespaces of a recovery view are those that had an event by the revision
\* of the view, whatever was appended while they were listed
\* (ARCHITECTURE.md: "revision-bounded extension namespace metadata").
RoutesAreBounded ==
  \A w \in Worker :
    LET s == session[w] IN
    s.call.op = "route" /\ s.pc = "replied" =>
      s.names = Extended(history[s.call.task], s.loaded)
=============================================================================
