------------------------ MODULE ExternalContinuity_proofs ------------------------
(***************************************************************************)
(* Proofs about ExternalContinuity for every set of Tasks, Goals, contents *)
(* and workers, every lease lifetime and every bound.                      *)
(*                                                                         *)
(* A session is typed only together with what its program counter says of  *)
(* its locals (a draft is an event once it is about to be appended), so    *)
(* the inductive invariant speaks of well-formed sessions.                 *)
(***************************************************************************)
EXTENDS ExternalContinuity, TLAPS

WriterCall == AdoptCall \cup CheckpointCall

AdoptLabel == {"adopt", "seed", "create", "require", "converge"}
WriterLabel == {"checkpoint", "clock", "acquire", "projection", "head", "put",
                "append", "release", "readback"}

WellFormed(s) ==
  /\ s \in Session
  /\ s.pc # "idle" => s.call \in Call
  /\ s.pc \in AdoptLabel => s.call \in AdoptCall
  /\ s.pc \in WriterLabel => s.call \in WriterCall
  /\ s.pc \in {"create", "append"} => s.draft \in Event
  /\ s.pc = "put" => s.head \in Event

JournalTyped ==
  /\ clock \in Nat
  /\ history \in [Task -> Seq(Event)]
  /\ leases \in [Task -> Lease \cup {NoLease}]

SessionsWellFormed ==
  /\ session \in [Worker -> Session]
  /\ \A w \in Worker : WellFormed(session[w])

TypeInv ==
  /\ JournalTyped
  /\ SessionsWellFormed
  /\ faults \in Nat

-----------------------------------------------------------------------------
\* What a call record may hold, whichever tool it came from.
LEMMA CallFields ==
  ASSUME NEW c \in Call
  PROVE  /\ c.op \in {"adopt", "checkpoint", "resume"}
         /\ c.task \in Task
         /\ c.expected \in Nat
         /\ c.content \in Content \cup {NoContent}
         /\ c.state \in TaskState
  <1>1. CASE c \in AdoptCall
    BY <1>1 DEF AdoptCall, TaskState
  <1>2. CASE c \in CheckpointCall
    <2>1. c.expected \in 1..(MaxRevision - 1) /\ c.state \in Disposition
      BY <1>2 DEF CheckpointCall
    <2>2. MaxRevision \in Nat /\ Disposition \subseteq TaskState
      BY ContinuityAssumption DEF TaskState
    <2>3. c.expected \in Nat /\ c.state \in TaskState
      BY <2>1, <2>2
    <2> QED
      BY <1>2, <2>3 DEF CheckpointCall
  <1>3. CASE c \in ResumeCall
    BY <1>3, ContinuityAssumption DEF ResumeCall, TaskState
  <1> QED
    BY <1>1, <1>2, <1>3 DEF Call

\* A call that writes names a content and a revision to write after.
LEMMA WriterFields ==
  ASSUME NEW c \in WriterCall
  PROVE  /\ c \in Call
         /\ c.op \in {"adopt", "checkpoint"}
         /\ c.expected \in Nat \ {0}
         /\ c.content \in Content
  BY ContinuityAssumption
     DEF WriterCall, Call, AdoptCall, CheckpointCall

\* The head of a stream that is not empty is an event.
LEMMA HeadIsEvent ==
  ASSUME NEW h \in Seq(Event), h # <<>>
  PROVE  HeadOf(h) \in Event /\ Len(h) \in Nat \ {0}
  BY DEF HeadOf

\* The WorkingCheckpoint at any revision is a content or none.
LEMMA ContentAtType ==
  ASSUME NEW h \in Seq(Event), NEW r
  PROVE  ContentAt(h, r) \in Content \cup {NoContent}
  <1>1. CASE r \in DOMAIN h
    <2>1. h[r] \in Event
      BY <1>1
    <2> QED
      BY <1>1, <2>1 DEF ContentAt, Event
  <1>2. CASE r \notin DOMAIN h
    BY <1>2 DEF ContentAt
  <1> QED
    BY <1>1, <1>2

\* Every fact about a Session field is used through this one expansion.
LEMMA SessionFields ==
  ASSUME NEW s \in Session
  PROVE  /\ s.pc \in Label
         /\ s.call \in Call \cup {NoCall}
         /\ s.lease \in Lease \cup {NoLease}
         /\ s.head \in Event \cup {NoEvent}
         /\ s.draft \in Event \cup {NoEvent}
         /\ s.now \in Nat
         /\ s.raised \in Exception
         /\ s.view \in View
         /\ s.wrote \in BOOLEAN
  BY DEF Session

\* The idle session and a call that starts are well formed.
LEMMA IdleWellFormed == WellFormed(Idle)
  BY DEF WellFormed, Idle, Session, Label, Exception, View, NoView, TaskState,
         AdoptLabel, WriterLabel

LEMMA StartingWellFormed ==
  ASSUME NEW c \in Call
  PROVE  WellFormed(Starting(c))
  <1>1. c.op \in {"adopt", "checkpoint", "resume"}
    BY CallFields
  <1>2. Starting(c) \in Session
    BY <1>1 DEF Starting, Idle, Session, Label, Exception, View, NoView, TaskState
  <1>3. Starting(c).pc = c.op /\ Starting(c).call = c
    BY DEF Starting, Idle
  <1>4. c.op = "adopt" => c \in AdoptCall
    BY DEF Call, AdoptCall, CheckpointCall, ResumeCall
  <1>5. c.op = "checkpoint" => c \in WriterCall
    BY DEF Call, AdoptCall, CheckpointCall, ResumeCall, WriterCall
  <1> QED
    BY <1>1, <1>2, <1>3, <1>4, <1>5 DEF WellFormed, AdoptLabel, WriterLabel

\* Ending a call, with or without an exception, keeps the session well formed.
LEMMA AnswerWellFormed ==
  ASSUME NEW s, WellFormed(s), s.call \in Call, NEW error \in Exception
  PROVE  WellFormed(Answer(s, error))
  <1>1. Answer(s, error) \in Session
    BY DEF WellFormed, Answer, Forgotten, Session, Label, View, NoView, TaskState
  <1>2. Answer(s, error).pc = "replied" /\ Answer(s, error).call = s.call
    BY DEF WellFormed, Answer, Forgotten, Session
  <1> QED
    BY <1>1, <1>2 DEF WellFormed, AdoptLabel, WriterLabel

LEMMA RaiseWellFormed ==
  ASSUME NEW s, WellFormed(s), s.call \in WriterCall, NEW error \in Exception
  PROVE  WellFormed(Raise(s, error))
  <1>1. CASE s.call.op = "adopt" /\ error \in Converging
    <2> DEFINE r == [Forgotten(s) EXCEPT !.pc = "converge", !.raised = error]
    <2>1. r \in Session /\ r.pc = "converge" /\ r.call = s.call
      BY DEF WellFormed, Forgotten, Session, Label, View, NoView, TaskState
    <2>2. s.call \in AdoptCall
      BY <1>1 DEF WriterCall, AdoptCall, CheckpointCall
    <2>3. WellFormed(r)
      BY <2>1, <2>2 DEF WellFormed, AdoptLabel, WriterLabel, Call
    <2> QED
      BY <1>1, <2>3 DEF Raise
  <1>2. CASE ~(s.call.op = "adopt" /\ error \in Converging)
    BY <1>2, AnswerWellFormed, WriterFields DEF Raise
  <1> QED
    BY <1>1, <1>2

LEMMA UnwindWellFormed ==
  ASSUME NEW s, WellFormed(s), s.call \in WriterCall, NEW error \in Exception
  PROVE  WellFormed(Unwind(s, error))
  <1>1. /\ Unwind(s, error) \in Session
        /\ Unwind(s, error).pc = "release"
        /\ Unwind(s, error).call = s.call
    BY DEF WellFormed, Unwind, Session, Label
  <1> QED
    BY <1>1, WriterFields DEF WellFormed, AdoptLabel, WriterLabel

LEMMA CompleteWellFormed ==
  ASSUME NEW s, WellFormed(s), s.call \in WriterCall,
         NEW h \in Seq(Event), NEW r \in Nat
  PROVE  WellFormed(Complete(s, h, r))
  <1>1. ContentAt(h, r) \in Content \cup {NoContent}
    BY ContentAtType
  <1>2. s.call \in Call /\ s.call.state \in TaskState
    BY WriterFields, CallFields
  <1>3. Forgotten(s) \in Session /\ Forgotten(s).call = s.call
    BY DEF WellFormed, Forgotten, Session, View, NoView, TaskState
  <1> DEFINE v == [revision |-> r, handoff |-> r, state |-> s.call.state,
                   content |-> ContentAt(h, r)]
             resumes == [Forgotten(s) EXCEPT !.pc = "resume"]
             replies == [Forgotten(s) EXCEPT !.pc = "replied", !.view = v]
  <1>4. v \in View
    BY <1>1, <1>2 DEF View
  <1>5. resumes \in Session /\ resumes.pc = "resume" /\ resumes.call = s.call
    BY <1>3 DEF Session, Label
  <1>6. replies \in Session /\ replies.pc = "replied" /\ replies.call = s.call
    <2> HIDE DEF v
    <2> QED BY <1>3, <1>4 DEF Session, Label
  <1>7. WellFormed(resumes) /\ WellFormed(replies)
    <2> HIDE DEF resumes, replies
    <2> QED BY <1>2, <1>5, <1>6 DEF WellFormed, AdoptLabel, WriterLabel
  <1> QED
    BY <1>7 DEF Complete

\* A step that gives one worker a well-formed session keeps them all.
LEMMA BecomeKeepsSessions ==
  ASSUME SessionsWellFormed, NEW w \in Worker, NEW s, WellFormed(s), Become(w, s)
  PROVE  SessionsWellFormed'
  <1>1. s \in Session
    BY DEF WellFormed
  <1>2. session' = [session EXCEPT ![w] = s]
    BY DEF Become
  <1>3. session' \in [Worker -> Session]
    BY <1>1, <1>2 DEF SessionsWellFormed
  <1>4. ASSUME NEW v \in Worker PROVE WellFormed(session'[v])
    <2>1. session'[v] = IF v = w THEN s ELSE session[v]
      BY <1>2 DEF SessionsWellFormed
    <2> QED
      BY <2>1 DEF SessionsWellFormed
  <1> QED
    BY <1>3, <1>4 DEF SessionsWellFormed, WellFormed

\* A step that writes nothing but the locals of one call.
LEMMA LocalStepKeepsTypes ==
  ASSUME TypeInv, NEW w \in Worker, NEW s, WellFormed(s), Become(w, s), Local
  PROVE  TypeInv'
  <1>1. SessionsWellFormed'
    BY BecomeKeepsSessions DEF TypeInv
  <1> QED
    BY <1>1 DEF TypeInv, JournalTyped, Local

\* append_task_event keeps the Journal typed and ends in a known way.
LEMMA AppendKeepsTypes ==
  ASSUME JournalTyped, NEW t \in Task, NEW expected \in Nat, NEW e \in Event,
         NEW lease, AppendTaskEvent(t, expected, e, lease)
  PROVE  JournalTyped'
  <1>1. history' \in [Task -> Seq(Event)]
    <2>1. Append(history[t], e) \in Seq(Event)
      BY DEF JournalTyped
    <2> QED
      BY <2>1 DEF JournalTyped, AppendTaskEvent, WriteTaskEvent
  <1>2. leases' \in [Task -> Lease \cup {NoLease}]
    BY DEF JournalTyped, AppendTaskEvent, WriteTaskEvent
  <1> QED
    BY <1>1, <1>2 DEF JournalTyped, AppendTaskEvent, WriteTaskEvent

LEMMA OutcomeType ==
  ASSUME NEW t, NEW expected, NEW e, NEW lease
  PROVE  AppendOutcome(t, expected, e, lease) \in
           Admitted \cup {"EventConflict", "RevisionConflict",
                          "TerminalTaskConflict", "LeaseConflict"}
  BY DEF AppendOutcome, Admission, Admitted

\* The steps of adopt().
LEMMA AdoptStepsKeepTypes ==
  ASSUME TypeInv, NEW w \in Worker,
         \/ AdoptEntry(w) \/ SeedObjects(w) \/ CreateTask(w)
         \/ AdoptCreated(w) \/ Converge(w)
  PROVE  TypeInv'
  <1> DEFINE s == session[w]
  <1>1. WellFormed(s) /\ s \in Session
    BY DEF TypeInv, SessionsWellFormed
  <1> HIDE DEF s
  <1>2. ASSUME s.pc \in AdoptLabel PROVE s.call \in AdoptCall /\ s.call \in Call
    BY <1>1, <1>2 DEF WellFormed, Call
  <1>3. ASSUME s.pc \in AdoptLabel, AdoptExisting(w), Local PROVE TypeInv'
    <2> DEFINE route == AdoptRoute(s.call, HistoryOf(w))
    <2>1. route \in {"ValueError", "checkpoint", "RevisionConflict", "resume"}
      BY DEF AdoptRoute
    <2> HIDE DEF route
    <2>2. s.call \in AdoptCall /\ s.call \in Call
      BY <1>2, <1>3
    <2>3. CASE route \in {"checkpoint", "resume"}
      <3> DEFINE r == [s EXCEPT !.pc = route]
      <3>1. r \in Session /\ r.pc = route /\ r.call = s.call
        BY <1>1, <2>3 DEF Session, Label
      <3>2. WellFormed(r)
        <4> HIDE DEF r
        <4> QED BY <2>2, <2>3, <3>1 DEF WellFormed, AdoptLabel, WriterLabel, WriterCall
      <3>3. Become(w, r)
        BY <1>3, <2>3 DEF AdoptExisting, s, route
      <3> QED
        BY <1>3, <3>2, <3>3, LocalStepKeepsTypes
    <2>4. CASE route \notin {"checkpoint", "resume"}
      <3>1. route \in Exception
        BY <2>1, <2>4 DEF Exception
      <3>2. WellFormed(Answer(s, route))
        BY <1>1, <2>2, <3>1, AnswerWellFormed
      <3>3. Become(w, Answer(s, route))
        BY <1>3, <2>4 DEF AdoptExisting, s, route
      <3> QED
        BY <1>3, <3>2, <3>3, LocalStepKeepsTypes
    <2> QED
      BY <2>3, <2>4
  <1>4. CASE AdoptEntry(w)
    <2>1. s.pc = "adopt" /\ s.pc \in AdoptLabel /\ Local
      BY <1>4 DEF AdoptEntry, At, AdoptLabel, s
    <2>2. CASE HistoryOf(w) = <<>>
      <3> DEFINE r == [s EXCEPT !.pc = "seed"]
      <3>1. WellFormed(r)
        <4>1. r \in Session /\ r.pc = "seed" /\ r.call = s.call
          BY <1>1 DEF Session, Label
        <4> QED BY <1>2, <2>1, <4>1 DEF WellFormed, AdoptLabel, WriterLabel
      <3>2. Become(w, r)
        BY <1>4, <2>2 DEF AdoptEntry, s
      <3> QED
        BY <2>1, <3>1, <3>2, LocalStepKeepsTypes
    <2>3. CASE HistoryOf(w) # <<>>
      BY <1>3, <1>4, <2>1, <2>3 DEF AdoptEntry
    <2> QED
      BY <2>2, <2>3
  <1>5. CASE SeedObjects(w)
    <2> DEFINE e == [kind |-> "created", goal |-> s.call.goal,
                     content |-> s.call.content, state |-> "READY", at |-> clock]
               r == [s EXCEPT !.pc = "create", !.draft = e]
    <2>1. s.pc \in AdoptLabel /\ Become(w, r) /\ UNCHANGED <<clock, history, leases, faults>>
      BY <1>5 DEF SeedObjects, At, AdoptLabel, CallOf, s
    <2>2. s.call \in AdoptCall /\ s.call \in Call
      BY <1>2, <2>1
    <2>3. e \in Event
      BY <2>2 DEF Event, AdoptCall, TaskState, TypeInv, JournalTyped
    <2> HIDE DEF e
    <2>4. r \in Session /\ r.pc = "create" /\ r.call = s.call /\ r.draft = e
      BY <1>1, <2>3 DEF Session, Label
    <2> HIDE DEF r
    <2>5. WellFormed(r)
      BY <2>2, <2>3, <2>4 DEF WellFormed, AdoptLabel, WriterLabel
    <2>6. SessionsWellFormed'
      BY <2>1, <2>5, BecomeKeepsSessions DEF TypeInv
    <2> QED
      BY <2>1, <2>6 DEF TypeInv, JournalTyped
  <1>6. CASE CreateTask(w)
    <2> DEFINE c == s.call
               created == AppendOutcome(c.task, 0, s.draft, NoLease) = "created"
               r == [s EXCEPT !.pc = "require", !.draft = NoEvent, !.wrote = created]
    <2>1. /\ s.pc = "create" /\ Become(w, r)
          /\ AppendTaskEvent(c.task, 0, s.draft, NoLease)
          /\ UNCHANGED faults
      BY <1>6 DEF CreateTask, At, s
    <2>2. c \in AdoptCall /\ c \in Call /\ c.task \in Task
      BY <1>2, <2>1, CallFields DEF AdoptLabel
    <2>3. s.draft \in Event
      BY <1>1, <2>1 DEF WellFormed
    <2>4. JournalTyped'
      BY <2>1, <2>2, <2>3, AppendKeepsTypes DEF TypeInv
    <2> HIDE DEF created
    <2>5. r \in Session /\ r.pc = "require" /\ r.call = c
      <3>1. created \in BOOLEAN
        BY DEF created
      <3> QED BY <1>1, <3>1 DEF Session, Label
    <2> HIDE DEF r
    <2>6. WellFormed(r)
      BY <2>2, <2>5 DEF WellFormed, AdoptLabel, WriterLabel
    <2>7. SessionsWellFormed'
      BY <2>1, <2>6, BecomeKeepsSessions DEF TypeInv
    <2> QED
      BY <2>1, <2>4, <2>7 DEF TypeInv
  <1>7. CASE AdoptCreated(w)
    <2>1. s.pc \in AdoptLabel /\ AdoptExisting(w) /\ Local
      BY <1>7 DEF AdoptCreated, At, AdoptLabel, s
    <2> QED
      BY <1>3, <2>1
  <1>8. CASE Converge(w)
    <2> DEFINE r == [s EXCEPT !.pc = "resume", !.raised = "none"]
    <2>1. s.pc \in AdoptLabel /\ Local
      BY <1>8 DEF Converge, At, AdoptLabel, s
    <2>2. s.call \in Call /\ s.raised \in Exception
      BY <1>1, <1>2, <2>1, SessionFields
    <2>3. WellFormed(r)
      <3>1. r \in Session /\ r.pc = "resume" /\ r.call = s.call
        BY <1>1 DEF Session, Label, Exception
      <3> QED BY <2>2, <3>1 DEF WellFormed, AdoptLabel, WriterLabel
    <2>4. WellFormed(Answer(s, s.raised))
      BY <1>1, <2>2, AnswerWellFormed
    <2>5. Become(w, r) \/ Become(w, Answer(s, s.raised))
      BY <1>8 DEF Converge, s
    <2> QED
      BY <2>1, <2>3, <2>4, <2>5, LocalStepKeepsTypes
  <1> QED
    BY <1>4, <1>5, <1>6, <1>7, <1>8

\* The lease rows stay typed when one is granted, or given back.
LEMMA NextLeaseType ==
  ASSUME JournalTyped, NEW t \in Task, NEW w \in Worker, NEW now \in Nat
  PROVE  NextLease(t, FreshOwner(w, t), now) \in Lease
  <1>1. leases[t].revision \in Nat
    BY DEF JournalTyped, Lease, NoLease
  <1>2. FreshOwner(w, t) \in Owner
    BY DEF FreshOwner, Owner
  <1>3. now + TtlMs \in Nat
    BY JournalAssumption
  <1> QED
    BY <1>1, <1>2, <1>3 DEF NextLease, Lease

\* The steps of checkpoint() before the lease: its early returns and the clock.
LEMMA CheckpointEntryKeepsTypes ==
  ASSUME TypeInv, NEW w \in Worker, CheckpointEntry(w) \/ ReadClock(w)
  PROVE  TypeInv'
  <1> DEFINE s == session[w]
             h == HistoryOf(w)
  <1>1. WellFormed(s) /\ s \in Session
    BY DEF TypeInv, SessionsWellFormed
  <1>2. s.pc \in {"checkpoint", "clock"} /\ Local
    BY DEF CheckpointEntry, ReadClock, At
  <1>3. s.call \in WriterCall /\ s.call \in Call /\ s.call.task \in Task
    BY <1>1, <1>2, WriterFields, CallFields DEF WellFormed, WriterLabel
  <1>4. h \in Seq(Event) /\ Len(h) \in Nat
    BY <1>3 DEF TypeInv, JournalTyped, HistoryOf
  <1>5. /\ WellFormed(Answer(s, "KeyError"))
        /\ WellFormed(Complete(s, h, Len(h)))
        /\ WellFormed(Raise(s, "RevisionConflict"))
        /\ WellFormed(Raise(s, "ValueError"))
    BY <1>1, <1>3, <1>4, AnswerWellFormed, CompleteWellFormed, RaiseWellFormed
       DEF Exception
  <1>6. WellFormed([s EXCEPT !.pc = "clock"])
    <2> DEFINE r == [s EXCEPT !.pc = "clock"]
    <2>1. r \in Session /\ r.pc = "clock" /\ r.call = s.call
      BY <1>1 DEF Session, Label
    <2> QED BY <1>3, <2>1 DEF WellFormed, AdoptLabel, WriterLabel
  <1>7. WellFormed([s EXCEPT !.pc = "acquire", !.now = clock])
    <2> DEFINE r == [s EXCEPT !.pc = "acquire", !.now = clock]
    <2>1. r \in Session /\ r.pc = "acquire" /\ r.call = s.call
      BY <1>1 DEF Session, Label, TypeInv, JournalTyped
    <2> QED BY <1>3, <2>1 DEF WellFormed, AdoptLabel, WriterLabel
  <1>8. \/ Become(w, Answer(s, "KeyError"))
        \/ Become(w, Complete(s, h, Len(h)))
        \/ Become(w, Raise(s, "RevisionConflict"))
        \/ Become(w, Raise(s, "ValueError"))
        \/ Become(w, [s EXCEPT !.pc = "clock"])
        \/ Become(w, [s EXCEPT !.pc = "acquire", !.now = clock])
    BY DEF CheckpointEntry, ReadClock
  <1> HIDE DEF s, h
  <1> QED
    BY <1>2, <1>5, <1>6, <1>7, <1>8, LocalStepKeepsTypes

\* The lease is granted or refused.
LEMMA AcquireLeaseKeepsTypes ==
  ASSUME TypeInv, NEW w \in Worker, AcquireLease(w)
  PROVE  TypeInv'
  <1> DEFINE s == session[w]
             t == s.call.task
             lease == NextLease(t, FreshOwner(w, t), s.now)
             r == [s EXCEPT !.pc = "projection", !.lease = lease, !.now = 0]
  <1>1. WellFormed(s) /\ s \in Session /\ s.pc = "acquire" /\ s.now \in Nat
    BY SessionFields DEF TypeInv, SessionsWellFormed, AcquireLease, At
  <1>2. s.call \in WriterCall /\ s.call \in Call /\ t \in Task
    BY <1>1, WriterFields, CallFields DEF WellFormed, WriterLabel
  <1>3. lease \in Lease
    BY <1>1, <1>2, NextLeaseType DEF TypeInv
  <1>4. WellFormed(Raise(s, "LeaseHeld"))
    BY <1>1, <1>2, RaiseWellFormed DEF Exception
  <1>5. /\ leases' = [leases EXCEPT ![t] = lease] \/ UNCHANGED leases
        /\ Become(w, r) \/ Become(w, Raise(s, "LeaseHeld"))
        /\ UNCHANGED <<clock, history, faults>>
    BY DEF AcquireLease
  <1> HIDE DEF lease
  <1>6. WellFormed(r)
    <2>1. r \in Session /\ r.pc = "projection" /\ r.call = s.call
      BY <1>1, <1>3 DEF Session, Label
    <2> QED BY <1>2, <2>1 DEF WellFormed, AdoptLabel, WriterLabel
  <1>7. leases' \in [Task -> Lease \cup {NoLease}]
    BY <1>2, <1>3, <1>5 DEF TypeInv, JournalTyped
  <1> HIDE DEF s, r, t
  <1>8. SessionsWellFormed'
    BY <1>4, <1>5, <1>6, BecomeKeepsSessions DEF TypeInv
  <1> QED
    BY <1>5, <1>7, <1>8 DEF TypeInv, JournalTyped

\* The reads under the lease, and the read of the answer.
LEMMA CheckpointReadsKeepTypes ==
  ASSUME TypeInv, NEW w \in Worker, ReadProjection(w) \/ ReadHead(w) \/ ReadBack(w)
  PROVE  TypeInv'
  <1> DEFINE s == session[w]
             h == HistoryOf(w)
  <1>1. WellFormed(s) /\ s \in Session
    BY DEF TypeInv, SessionsWellFormed
  <1>2. s.pc \in {"projection", "head", "readback"} /\ Local
    BY DEF ReadProjection, ReadHead, ReadBack, At
  <1>3. /\ s.call \in WriterCall /\ s.call \in Call /\ s.call.task \in Task
        /\ s.call.expected \in Nat \ {0}
    BY <1>1, <1>2, WriterFields, CallFields DEF WellFormed, WriterLabel
  <1>4. h \in Seq(Event)
    BY <1>3 DEF TypeInv, JournalTyped, HistoryOf
  <1>5. /\ WellFormed(Unwind(s, "TaskRevisionMismatch"))
        /\ WellFormed(Unwind(s, "TaskStateMismatch"))
        /\ WellFormed(Unwind(s, "TaskProjectionDrift"))
    BY <1>1, <1>3, UnwindWellFormed DEF Exception
  <1>6. WellFormed(Complete(s, h, s.call.expected + 1))
    BY <1>1, <1>3, <1>4, CompleteWellFormed
  <1>7. WellFormed([s EXCEPT !.pc = "head"])
    <2> DEFINE r == [s EXCEPT !.pc = "head"]
    <2>1. r \in Session /\ r.pc = "head" /\ r.call = s.call
      BY <1>1 DEF Session, Label
    <2> QED BY <1>3, <2>1 DEF WellFormed, AdoptLabel, WriterLabel
  <1>8. ASSUME Len(h) = s.call.expected
        PROVE  WellFormed([s EXCEPT !.pc = "put", !.head = HeadOf(h)])
    <2> DEFINE r == [s EXCEPT !.pc = "put", !.head = HeadOf(h)]
    <2>1. HeadOf(h) \in Event
      BY <1>3, <1>4, <1>8, HeadIsEvent
    <2>2. r \in Session /\ r.pc = "put" /\ r.call = s.call /\ r.head = HeadOf(h)
      BY <1>1, <2>1 DEF Session, Label
    <2> QED BY <1>3, <2>1, <2>2 DEF WellFormed, AdoptLabel, WriterLabel
  <1>9. \/ Become(w, Unwind(s, "TaskRevisionMismatch"))
        \/ Become(w, Unwind(s, "TaskStateMismatch"))
        \/ Become(w, Unwind(s, "TaskProjectionDrift"))
        \/ Become(w, Complete(s, h, s.call.expected + 1))
        \/ Become(w, [s EXCEPT !.pc = "head"])
        \/ /\ Len(h) = s.call.expected
           /\ Become(w, [s EXCEPT !.pc = "put", !.head = HeadOf(h)])
    BY DEF ReadProjection, ReadHead, ReadBack, CallOf
  <1> HIDE DEF s, h
  <1> QED
    BY <1>2, <1>5, <1>6, <1>7, <1>8, <1>9, LocalStepKeepsTypes

\* What a writer drafts under the lease is an event.
LEMMA DraftIsEvent ==
  ASSUME NEW s, WellFormed(s), s.pc = "put", clock \in Nat
  PROVE  Draft(s) \in Event /\ Draft(s).at \in Nat /\ Draft(s).at > s.head.at
  <1>1. s.head \in Event /\ s.call \in WriterCall
    BY DEF WellFormed, WriterLabel
  <1>2. s.call.content \in Content /\ s.call.state \in TaskState
    BY <1>1, WriterFields, CallFields
  <1>3. s.head.at \in Nat /\ s.head.goal \in Goal
    BY <1>1 DEF Event
  <1>4. Timestamp(s.head.at) \in Nat /\ Timestamp(s.head.at) > s.head.at
    BY <1>3 DEF Timestamp, Later
  <1> QED
    BY <1>2, <1>3, <1>4 DEF Draft, Event

\* The writes under the lease, and giving it back.
LEMMA CheckpointWritesKeepTypes ==
  ASSUME TypeInv, NEW w \in Worker,
         PutObjects(w) \/ AppendCheckpoint(w) \/ ReleaseLease(w)
  PROVE  TypeInv'
  <1> DEFINE s == session[w]
             t == s.call.task
  <1>1. WellFormed(s) /\ s \in Session
    BY DEF TypeInv, SessionsWellFormed
  <1>2. s.pc \in {"put", "append", "release"}
    BY DEF PutObjects, AppendCheckpoint, ReleaseLease, At
  <1>3. /\ s.call \in WriterCall /\ s.call \in Call /\ t \in Task
        /\ s.call.expected \in Nat
    BY <1>1, <1>2, WriterFields, CallFields DEF WellFormed, WriterLabel
  <1>4. CASE PutObjects(w)
    <2> DEFINE d == Draft(s)
               r == [s EXCEPT !.pc = "append", !.draft = d, !.head = NoEvent]
    <2>1. s.pc = "put" /\ Become(w, r) /\ UNCHANGED <<clock, history, leases, faults>>
      BY <1>4 DEF PutObjects, At
    <2>2. d \in Event
      BY <1>1, <2>1, DraftIsEvent DEF TypeInv, JournalTyped
    <2> HIDE DEF s, d
    <2>3. r \in Session /\ r.pc = "append" /\ r.call = s.call /\ r.draft = d
      BY <1>1, <2>2 DEF Session, Label
    <2> HIDE DEF r
    <2>4. WellFormed(r)
      BY <1>3, <2>2, <2>3 DEF WellFormed, AdoptLabel, WriterLabel
    <2>5. SessionsWellFormed'
      BY <2>1, <2>4, BecomeKeepsSessions DEF TypeInv
    <2> QED
      BY <2>1, <2>5 DEF TypeInv, JournalTyped
  <1>5. CASE AppendCheckpoint(w)
    <2> DEFINE outcome == AppendOutcome(t, s.call.expected, s.draft, s.lease)
               wrote == s.wrote \/ outcome = "created"
               r == [s EXCEPT !.pc = "readback", !.lease = NoLease,
                              !.draft = NoEvent, !.wrote = wrote]
    <2>1. /\ s.pc = "append"
          /\ AppendTaskEvent(t, s.call.expected, s.draft, s.lease)
          /\ UNCHANGED faults
      BY <1>5 DEF AppendCheckpoint, At
    <2>2. s.draft \in Event
      BY <1>1, <2>1 DEF WellFormed
    <2>3. JournalTyped'
      BY <1>3, <2>1, <2>2, AppendKeepsTypes DEF TypeInv
    <2>4. CASE outcome \in Admitted
      <3>1. Become(w, r)
        BY <1>5, <2>4 DEF AppendCheckpoint
      <3>2. wrote \in BOOLEAN
        BY <1>1, SessionFields
      <3> HIDE DEF s, t, wrote
      <3>3. r \in Session /\ r.pc = "readback" /\ r.call = s.call
        BY <1>1, <3>2 DEF Session, Label
      <3> HIDE DEF r
      <3>4. WellFormed(r)
        BY <1>3, <3>3 DEF WellFormed, AdoptLabel, WriterLabel
      <3>5. SessionsWellFormed'
        BY <3>1, <3>4, BecomeKeepsSessions DEF TypeInv
      <3> QED
        BY <2>1, <2>3, <3>5 DEF TypeInv
    <2>5. CASE outcome \notin Admitted
      <3>1. Become(w, Unwind(s, outcome))
        BY <1>5, <2>5 DEF AppendCheckpoint
      <3>2. outcome \in Exception
        <4>1. outcome \in Admitted \cup {"EventConflict", "RevisionConflict",
                                        "TerminalTaskConflict", "LeaseConflict"}
          BY OutcomeType
        <4> HIDE DEF outcome
        <4> QED BY <2>5, <4>1 DEF Exception
      <3>3. WellFormed(Unwind(s, outcome))
        BY <1>1, <1>3, <3>2, UnwindWellFormed
      <3> HIDE DEF s, t, outcome
      <3>4. SessionsWellFormed'
        BY <3>1, <3>3, BecomeKeepsSessions DEF TypeInv
      <3> QED
        BY <2>1, <2>3, <3>4 DEF TypeInv
    <2> QED
      BY <2>4, <2>5
  <1>6. CASE ReleaseLease(w)
    <2>1. /\ leases' = [leases EXCEPT ![t] = ReleasedLease(t, s.lease)]
          /\ Become(w, Raise(s, s.raised))
          /\ UNCHANGED <<clock, history, faults>>
      BY <1>6 DEF ReleaseLease
    <2>2. WellFormed(Raise(s, s.raised))
      BY <1>1, <1>3, SessionFields, RaiseWellFormed
    <2>3. ReleasedLease(t, s.lease) \in Lease \cup {NoLease}
      BY <1>3 DEF ReleasedLease, TypeInv, JournalTyped
    <2>4. leases' \in [Task -> Lease \cup {NoLease}]
      BY <1>3, <2>1, <2>3 DEF TypeInv, JournalTyped
    <2> HIDE DEF s, t
    <2>5. SessionsWellFormed'
      BY <2>1, <2>2, BecomeKeepsSessions DEF TypeInv
    <2> QED
      BY <2>1, <2>4, <2>5 DEF TypeInv, JournalTyped
  <1> QED
    BY <1>4, <1>5, <1>6

\* The two reads of resume().
LEMMA ResumeStepsKeepTypes ==
  ASSUME TypeInv, NEW w \in Worker, ResumeEntry(w) \/ Handoff(w)
  PROVE  TypeInv'
  <1> DEFINE s == session[w]
             h == HistoryOf(w)
             r == [s EXCEPT !.pc = "handoff", !.view.revision = Len(h),
                            !.view.state = HeadOf(h).state]
             q == [s EXCEPT !.pc = "replied", !.view.handoff = Len(h),
                            !.view.content = ContentAt(h, s.view.revision)]
  <1>1. WellFormed(s) /\ s \in Session /\ s.view \in View
    BY SessionFields DEF TypeInv, SessionsWellFormed
  <1>2. s.pc \in {"resume", "handoff"} /\ Local
    BY DEF ResumeEntry, Handoff, At
  <1>3. s.call \in Call /\ s.call.task \in Task
    BY <1>1, <1>2, CallFields DEF WellFormed
  <1>4. h \in Seq(Event) /\ Len(h) \in Nat
    BY <1>3 DEF TypeInv, JournalTyped, HistoryOf
  <1>5. \A error \in {"KeyError", "RevisionConflict", "ValueError"} :
          WellFormed(Answer(s, error))
    BY <1>1, <1>3, AnswerWellFormed DEF Exception
  <1>6. ASSUME h # <<>> PROVE WellFormed(r)
    <2>1. HeadOf(h).state \in TaskState
      BY <1>4, <1>6, HeadIsEvent DEF Event
    <2> HIDE DEF h
    <2>2. [s.view EXCEPT !.revision = Len(h), !.state = HeadOf(h).state] \in View
      BY <1>1, <1>4, <2>1 DEF View
    <2>3. r \in Session /\ r.pc = "handoff" /\ r.call = s.call
      BY <1>1, <2>2 DEF Session, Label
    <2> QED BY <1>3, <2>3 DEF WellFormed, AdoptLabel, WriterLabel
  <1>7. WellFormed(q)
    <2>1. ContentAt(h, s.view.revision) \in Content \cup {NoContent}
      BY <1>4, ContentAtType
    <2> HIDE DEF h
    <2>2. [s.view EXCEPT !.handoff = Len(h),
                         !.content = ContentAt(h, s.view.revision)] \in View
      BY <1>1, <1>4, <2>1 DEF View
    <2>3. q \in Session /\ q.pc = "replied" /\ q.call = s.call
      BY <1>1, <2>2 DEF Session, Label
    <2> QED BY <1>3, <2>3 DEF WellFormed, AdoptLabel, WriterLabel
  <1>8. \/ \E error \in {"KeyError", "RevisionConflict", "ValueError"} :
             Become(w, Answer(s, error))
        \/ h # <<>> /\ Become(w, r)
        \/ Become(w, q)
    BY DEF ResumeEntry, Handoff
  <1> HIDE DEF s, h, r, q
  <1> QED
    BY <1>2, <1>5, <1>6, <1>7, <1>8, LocalStepKeepsTypes

\* Clients, faults and time.
LEMMA ClientStepsKeepTypes ==
  ASSUME TypeInv, NEW w \in Worker,
         \/ Begin(w) \/ Deliver(w) \/ Retry(w) \/ Crash(w)
         \/ TransactionFails(w) \/ ReadFails(w)
  PROVE  TypeInv'
  <1> DEFINE s == session[w]
  <1>1. WellFormed(s) /\ s \in Session
    BY DEF TypeInv, SessionsWellFormed
  <1>2. CASE Begin(w)
    BY <1>2, StartingWellFormed, LocalStepKeepsTypes DEF Begin
  <1>3. CASE Deliver(w)
    BY <1>3, IdleWellFormed, LocalStepKeepsTypes DEF Deliver
  <1>4. CASE Retry(w)
    <2>1. s.call \in Call
      BY <1>1, <1>4 DEF Retry, At, WellFormed
    <2> QED
      BY <1>4, <2>1, StartingWellFormed, LocalStepKeepsTypes DEF Retry, CallOf
  <1>5. CASE Crash(w)
    <2>1. SessionsWellFormed'
      BY <1>5, IdleWellFormed, BecomeKeepsSessions DEF TypeInv, Crash
    <2>2. faults' \in Nat
      BY <1>5 DEF TypeInv, Crash
    <2>3. JournalTyped'
      BY <1>5 DEF TypeInv, Crash, JournalTyped, journalVars
    <2> QED
      BY <2>1, <2>2, <2>3 DEF TypeInv
  <1>6. CASE TransactionFails(w)
    <2>1. /\ s.pc \in {"create", "acquire", "append", "release"}
          /\ \/ s.pc = "append" /\ Become(w, Unwind(s, "OperationalError"))
             \/ Become(w, Answer(s, "OperationalError"))
          /\ faults' = faults + 1
          /\ UNCHANGED <<clock, history, leases>>
      BY <1>6 DEF TransactionFails
    <2>2. s.call \in Call /\ (s.pc = "append" => s.call \in WriterCall)
      BY <1>1, <2>1 DEF WellFormed, WriterLabel
    <2>3. WellFormed(Answer(s, "OperationalError"))
      BY <1>1, <2>2, AnswerWellFormed DEF Exception
    <2>4. s.pc = "append" => WellFormed(Unwind(s, "OperationalError"))
      BY <1>1, <2>2, UnwindWellFormed DEF Exception
    <2> HIDE DEF s
    <2>5. SessionsWellFormed'
      BY <2>1, <2>3, <2>4, BecomeKeepsSessions DEF TypeInv
    <2> QED
      BY <2>1, <2>5 DEF TypeInv, JournalTyped
  <1>7. CASE ReadFails(w)
    <2>1. PICK error \in ReadError :
            /\ s.pc \in Readable \cup {"seed"}
            /\ Become(w, IF s.pc \in {"head", "put"} THEN Unwind(s, error)
                         ELSE Answer(s, error))
      BY <1>7 DEF ReadFails
    <2>2. faults' = faults + 1 /\ UNCHANGED <<clock, history, leases>>
      BY <1>7 DEF ReadFails
    <2>3. s.call \in Call /\ (s.pc \in {"head", "put"} => s.call \in WriterCall)
      BY <1>1, <2>1 DEF WellFormed, WriterLabel, Readable
    <2>4. error \in Exception
      BY <2>1 DEF ReadError, Corrupted, Exception
    <2>5. WellFormed(Answer(s, error))
      BY <1>1, <2>3, <2>4, AnswerWellFormed
    <2>6. s.pc \in {"head", "put"} => WellFormed(Unwind(s, error))
      BY <1>1, <2>3, <2>4, UnwindWellFormed
    <2> HIDE DEF s
    <2>7. SessionsWellFormed'
      BY <2>1, <2>5, <2>6, BecomeKeepsSessions DEF TypeInv
    <2> QED
      BY <2>2, <2>7 DEF TypeInv, JournalTyped
  <1> QED
    BY <1>2, <1>3, <1>4, <1>5, <1>6, <1>7

LEMMA TimeStepsKeepTypes ==
  ASSUME TypeInv, Tick \/ ClockStepsBack
  PROVE  TypeInv'
  <1>1. clock' \in Nat /\ faults' \in Nat
    BY DEF TypeInv, JournalTyped, Tick, ClockStepsBack
  <1>2. UNCHANGED <<history, leases, session>>
    BY DEF Tick, ClockStepsBack
  <1> QED
    BY <1>1, <1>2 DEF TypeInv, JournalTyped, SessionsWellFormed, WellFormed

\* Init puts every variable where TypeInv says.
LEMMA InitTypes ==
  ASSUME Init PROVE TypeInv
  <1>1. JournalTyped
    <2>1. PICK g \in Goal, old \in SUBSET LegacyTask :
            history = [t \in Task |-> IF t \in old THEN <<LegacyCreation(g)>> ELSE <<>>]
      BY DEF Init
    <2>2. LegacyCreation(g) \in Event
      BY DEF LegacyCreation, Event, TaskState
    <2>3. history \in [Task -> Seq(Event)]
      BY <2>1, <2>2
    <2> QED
      BY <2>3 DEF Init, JournalTyped
  <1>2. SessionsWellFormed
    BY IdleWellFormed DEF Init, SessionsWellFormed, WellFormed
  <1> QED
    BY <1>1, <1>2 DEF Init, TypeInv

\* Every step keeps the Journal typed and the sessions well formed.
LEMMA StepKeepsTypes ==
  ASSUME TypeInv, [Next]_vars PROVE TypeInv'
  <1>1. CASE UNCHANGED vars
    BY <1>1 DEF TypeInv, JournalTyped, SessionsWellFormed, WellFormed, vars
  <1>2. CASE Next
    <2>1. ASSUME NEW w \in Worker, Run(w) PROVE TypeInv'
      BY <2>1, AdoptStepsKeepTypes, CheckpointEntryKeepsTypes, AcquireLeaseKeepsTypes,
         CheckpointReadsKeepTypes, CheckpointWritesKeepTypes, ResumeStepsKeepTypes
         DEF Run
    <2> QED
      BY <1>2, <2>1, ClientStepsKeepTypes, TimeStepsKeepTypes DEF Next
  <1> QED
    BY <1>1, <1>2

\* In every behaviour each variable has its type and each session is well
\* formed for its program counter.
THEOREM TypesAreInvariant == Spec => []TypeInv
  BY InitTypes, StepKeepsTypes, PTL DEF Spec

\* Type correctness of the Journal and of the calls in progress, for any number
\* of workers, Tasks, faults and revisions (kernel.py, continuity.py).
THEOREM TypeCorrect == Spec => []TypeOK
  <1>1. TypeInv => TypeOK
    BY DEF TypeInv, JournalTyped, SessionsWellFormed, TypeOK
  <1> QED
    BY <1>1, TypesAreInvariant, PTL

=============================================================================
