------------------------- MODULE ContinuityHistory_proofs -------------------------
(***************************************************************************)
(* What a call has learnt of its Task stays true, because the history of a *)
(* Task only grows: that is why answers are honoured, views are of one     *)
(* revision, times increase and a terminal event is the last, whoever      *)
(* crashed, took a lease over or moved the clock in between.               *)
(*                                                                         *)
(* The second half adds what a session owes to those outside, and shows    *)
(* that what clients see of every step is a step of the ledger of          *)
(* checkpoints, or nothing (ContinuityLedger).                             *)
(***************************************************************************)
EXTENDS ExternalContinuity_proofs, SequenceTheorems

\* A stream whose times increase, that ends at its terminal event, and that is
\* about one Goal.
Stream(h) ==
  /\ \A i, j \in DOMAIN h : i < j => h[i].at < h[j].at
  /\ \A i \in DOMAIN h : Terminal(h[i].state) => i = Len(h)
  /\ \A i \in DOMAIN h : h[i].goal = h[1].goal

\* The transition c asks for is in h, at the revision after the one c names.
Committed(c, h) ==
  /\ c.expected + 1 \in DOMAIN h
  /\ h[c.expected + 1].content = c.content
  /\ h[c.expected + 1].state = c.state

\* h was created for the Goal of c, with the seed of c or with none.
Seeded(c, h) ==
  /\ 1 \in DOMAIN h
  /\ h[1].goal = c.goal
  /\ h[1].content \in {NoContent, c.content}

\* h was adopted with the Goal and the checkpoint of c.
AdoptedAs(c, h) ==
  /\ 2 \in DOMAIN h
  /\ h[1].goal = c.goal
  /\ InitialContent(h) = c.content

\* v is the view of one revision of h.
ViewOf(v, h) ==
  /\ v.revision \in DOMAIN h
  /\ v.handoff = v.revision
  /\ v.state = h[v.revision].state
  /\ v.content = h[v.revision].content

\* What the locals and the program counter of s say of the history h of its Task.
Knows(s, h) ==
  /\ s.pc = "require" => 1 \in DOMAIN h
  /\ s.pc = "put" => s.call.expected \in DOMAIN h /\ s.head = h[s.call.expected]
  /\ s.pc = "append" => /\ s.call.expected \in DOMAIN h
                        /\ s.draft.at > h[s.call.expected].at
                        /\ s.draft.goal = h[s.call.expected].goal
                        /\ s.draft.content = s.call.content
                        /\ s.draft.state = s.call.state
  /\ s.call.op = "adopt" /\ s.pc \in WriterLabel \cup {"converge"} => Seeded(s.call, h)
  /\ s.pc = "readback" => Committed(s.call, h)
  /\ s.call.op = "adopt" /\ s.pc \in {"resume", "handoff"} => AdoptedAs(s.call, h)
  /\ s.pc \in {"resume", "handoff"} => s.call.op # "checkpoint"
  /\ s.pc = "handoff" => /\ s.view.revision \in DOMAIN h
                         /\ s.view.state = h[s.view.revision].state
  /\ s.pc \in {"release", "converge"} => s.raised # "none"
  /\ Succeeded(s) =>
       /\ ViewOf(s.view, h)
       /\ s.call.op = "checkpoint" => Committed(s.call, h)
                                      /\ s.view.revision = s.call.expected + 1
       /\ s.call.op = "adopt" => AdoptedAs(s.call, h)

HistoryInv ==
  /\ TypeInv
  /\ \A t \in Task : Stream(history[t])
  /\ \A w \in Worker : Knows(session[w], history[session[w].call.task])

-----------------------------------------------------------------------------
\* A history that grows.

Extends(h, g) == Len(h) <= Len(g) /\ \A i \in DOMAIN h : g[i] = h[i]

LEMMA StreamAppend ==
  ASSUME NEW h \in Seq(Event), Stream(h), NEW e \in Event,
         h # <<>> => /\ ~Terminal(h[Len(h)].state)
                     /\ e.at > h[Len(h)].at
                     /\ e.goal = h[Len(h)].goal
  PROVE  Stream(Append(h, e))
  <1> DEFINE g == Append(h, e)
  <1>1. /\ Len(h) \in Nat /\ Len(g) = Len(h) + 1
        /\ DOMAIN h = 1..Len(h) /\ DOMAIN g = 1..(Len(h) + 1)
        /\ \A i \in 1..Len(h) : g[i] = h[i]
        /\ g[Len(h) + 1] = e
    OBVIOUS
  <1>2. \A i \in 1..Len(h) : h[i] \in Event /\ h[i].at \in Nat
    <2>1. \A i \in 1..Len(h) : h[i] \in Event
      BY <1>1
    <2> QED
      BY <2>1 DEF Event
  <1>3. e.at \in Nat
    BY DEF Event
  <1>4. \A i \in 1..Len(h) : h[i].at < e.at /\ h[i].goal = e.goal /\ ~Terminal(h[i].state)
    <2> TAKE i \in 1..Len(h)
    <2>1. h # <<>> /\ Len(h) \in 1..Len(h)
      BY <1>1
    <2>2. i = Len(h) \/ (i < Len(h) /\ h[i].at < h[Len(h)].at)
      <3>1. i \in DOMAIN h /\ Len(h) \in DOMAIN h
        BY <1>1, <2>1
      <3>2. i < Len(h) => h[i].at < h[Len(h)].at
        BY <3>1 DEF Stream
      <3>3. i = Len(h) \/ i < Len(h)
        <4>1. Len(h) \in Nat
          OBVIOUS
        <4> HIDE DEF g
        <4> QED BY <4>1
      <3> QED
        BY <3>2, <3>3
    <2>3. h[i].at \in Nat /\ h[Len(h)].at \in Nat
      BY <1>2, <2>1
    <2>4. h[i].at < e.at
      BY <1>3, <2>1, <2>2, <2>3
    <2>5. h[i].goal = e.goal
      BY <1>1, <2>1 DEF Stream
    <2>6. ~Terminal(h[i].state)
      BY <1>1, <2>1 DEF Stream
    <2> QED
      BY <2>4, <2>5, <2>6
  <1> HIDE DEF g
  <1>5. \A i, j \in DOMAIN g : i < j => g[i].at < g[j].at
    <2> TAKE i, j \in DOMAIN g
    <2> HAVE i < j
    <2>1. i \in 1..Len(h) /\ (j \in 1..Len(h) \/ j = Len(h) + 1)
      BY <1>1
    <2> QED
      BY <1>1, <1>4, <2>1 DEF Stream
  <1>6. \A i \in DOMAIN g : Terminal(g[i].state) => i = Len(g)
    BY <1>1, <1>4
  <1>7. \A i \in DOMAIN g : g[i].goal = g[1].goal
    <2> TAKE i \in DOMAIN g
    <2>1. CASE h = <<>>
      BY <1>1, <2>1
    <2>2. CASE h # <<>>
      <3>1. 1 \in 1..Len(h)
        BY <1>1, <2>2
      <3> QED
        BY <1>1, <1>4, <3>1
    <2> QED
      BY <2>1, <2>2
  <1> QED
    BY <1>5, <1>6, <1>7 DEF Stream, g

\* What a session knows is not unlearnt when the history grows.
LEMMA KnowledgeIsStable ==
  ASSUME NEW s \in Session, NEW h \in Seq(Event), NEW g \in Seq(Event),
         Knows(s, h), Extends(h, g)
  PROVE  Knows(s, g)
  <1>1. /\ DOMAIN h \subseteq DOMAIN g
        /\ \A i \in DOMAIN h : g[i] = h[i]
        /\ DOMAIN h = 1..Len(h) /\ Len(h) \in Nat
    BY DEF Extends
  <1>2. \A i \in DOMAIN h : ContentAt(g, i) = ContentAt(h, i)
    BY <1>1 DEF ContentAt
  <1>3. 2 \in DOMAIN h => 1 \in DOMAIN h /\ InitialContent(g) = InitialContent(h)
    BY <1>1, <1>2 DEF InitialContent
  <1>4. Committed(s.call, h) => Committed(s.call, g)
    BY <1>1 DEF Committed
  <1>5. Seeded(s.call, h) => Seeded(s.call, g)
    BY <1>1 DEF Seeded
  <1>6. AdoptedAs(s.call, h) => AdoptedAs(s.call, g)
    BY <1>1, <1>3 DEF AdoptedAs
  <1>7. ViewOf(s.view, h) => ViewOf(s.view, g)
    BY <1>1 DEF ViewOf
  <1> HIDE DEF WriterLabel, Succeeded
  <1> QED
    BY <1>1, <1>4, <1>5, <1>6, <1>7 DEF Knows

-----------------------------------------------------------------------------
\* The steps.

\* An append ends in one of three ways, and a created event follows the revision
\* its writer expected, which is not terminal.
LEMMA CreatedFollowsHead ==
  ASSUME NEW t, NEW expected, NEW e, NEW lease,
         AppendOutcome(t, expected, e, lease) = "created"
  PROVE  /\ Len(history[t]) = expected
         /\ expected > 0 => ~Terminal(HeadOf(history[t]).state)
  BY DEF AppendOutcome, Admission

LEMMA ExistingIsBound ==
  ASSUME NEW t, NEW expected, NEW e, NEW lease,
         AppendOutcome(t, expected, e, lease) = "existing"
  PROVE  expected + 1 \in DOMAIN history[t] /\ history[t][expected + 1] = e
  BY DEF AppendOutcome, Admission, EventIdBound

\* append_task_event extends one stream by the event, or nothing.
LEMMA AppendExtends ==
  ASSUME JournalTyped, NEW t \in Task, NEW expected \in Nat, NEW e \in Event,
         NEW lease, AppendTaskEvent(t, expected, e, lease)
  PROVE  \A u \in Task : Extends(history[u], history'[u])
  <1> TAKE u \in Task
  <1>1. history[u] \in Seq(Event)
    BY DEF JournalTyped
  <1>2. history'[u] \in {history[u], Append(history[u], e)}
    BY DEF JournalTyped, AppendTaskEvent, WriteTaskEvent
  <1> QED
    BY <1>1, <1>2 DEF Extends

\* An append by a writer that knows the revision it follows keeps every stream.
LEMMA AppendKeepsStreams ==
  ASSUME JournalTyped, \A t \in Task : Stream(history[t]),
         NEW t \in Task, NEW expected \in Nat, NEW e \in Event,
         NEW lease, AppendTaskEvent(t, expected, e, lease),
         expected > 0 => /\ expected \in DOMAIN history[t]
                         /\ e.at > history[t][expected].at
                         /\ e.goal = history[t][expected].goal
  PROVE  \A u \in Task : Stream(history'[u])
  <1> DEFINE outcome == AppendOutcome(t, expected, e, lease)
             h == history[t]
  <1>1. h \in Seq(Event)
    BY DEF JournalTyped
  <1>2. CASE outcome # "created"
    BY <1>2 DEF AppendTaskEvent, WriteTaskEvent
  <1>3. CASE outcome = "created"
    <2>1. history' = [history EXCEPT ![t] = Append(h, e)]
      BY <1>3 DEF AppendTaskEvent, WriteTaskEvent
    <2>2. Len(h) = expected /\ (expected > 0 => ~Terminal(HeadOf(h).state))
      BY <1>3, CreatedFollowsHead
    <2>3. h # <<>> => expected > 0
      BY <1>1, <2>2
    <2>4. h # <<>> => /\ ~Terminal(h[Len(h)].state)
                      /\ e.at > h[Len(h)].at
                      /\ e.goal = h[Len(h)].goal
      BY <2>2, <2>3 DEF HeadOf
    <2>5. Stream(Append(h, e))
      BY <1>1, <2>4, StreamAppend
    <2> QED
      BY <2>1, <2>5 DEF JournalTyped
  <1> QED
    BY <1>2, <1>3

\* A session that knows the history of its Task, beside others that did, when
\* no history shrinks.
LEMMA SessionsStillKnow ==
  ASSUME HistoryInv, TypeInv', NEW w \in Worker, NEW s, Become(w, s),
         \A u \in Task : Extends(history[u], history'[u]),
         Knows(s, history'[s.call.task])
  PROVE  \A v \in Worker : Knows(session'[v], history'[session'[v].call.task])
  <1> TAKE v \in Worker
  <1>1. session'[v] = IF v = w THEN s ELSE session[v]
    BY DEF Become, HistoryInv, TypeInv, SessionsWellFormed
  <1>2. CASE v = w
    BY <1>1, <1>2
  <1>3. CASE v # w /\ session[v].pc = "idle"
    BY <1>1, <1>3 DEF HistoryInv, Knows, WriterLabel, Succeeded
  <1>4. CASE v # w /\ session[v].pc # "idle"
    <2> DEFINE r == session[v]
               t == r.call.task
    <2>1. r \in Session /\ r.call \in Call
      BY <1>4 DEF HistoryInv, TypeInv, SessionsWellFormed, WellFormed
    <2>2. t \in Task
      BY <2>1, CallFields
    <2>3. history[t] \in Seq(Event) /\ history'[t] \in Seq(Event)
      BY <2>2 DEF HistoryInv, TypeInv, JournalTyped
    <2>4. Knows(r, history[t]) /\ Extends(history[t], history'[t])
      BY <2>2 DEF HistoryInv
    <2>5. Knows(r, history'[t])
      BY <2>1, <2>3, <2>4, KnowledgeIsStable
    <2> QED
      BY <1>1, <1>4, <2>5
  <1> QED
    BY <1>2, <1>3, <1>4

\* A step that leaves every history alone.
LEMMA QuietStepKeepsHistory ==
  ASSUME HistoryInv, TypeInv', NEW w \in Worker, NEW s, Become(w, s),
         UNCHANGED history, Knows(s, history[s.call.task])
  PROVE  HistoryInv'
  <1>1. \A u \in Task : Extends(history[u], history'[u])
    BY DEF Extends, HistoryInv, TypeInv, JournalTyped
  <1>2. Knows(s, history'[s.call.task])
    OBVIOUS
  <1>3. \A v \in Worker : Knows(session'[v], history'[session'[v].call.task])
    BY <1>1, <1>2, SessionsStillKnow
  <1> QED
    BY <1>3 DEF HistoryInv

\* A call that starts, and a worker without one, know nothing; neither does a
\* call that was refused.
LEMMA NothingIsKnown ==
  ASSUME NEW s, NEW h,
         \/ s.pc \in {"idle", "adopt", "seed", "create"}
         \/ s.pc = "resume" /\ s.call.op = "resume"
         \/ s.pc = "checkpoint" /\ s.call.op # "adopt"
         \/ s.pc = "replied" /\ s.raised # "none"
  PROVE  Knows(s, h)
  BY DEF Knows, Succeeded, WriterLabel

\* What each way of ending a call leaves known.
LEMMA AnswerKnows ==
  ASSUME NEW s \in Session, NEW error, error # "none", NEW h
  PROVE  Knows(Answer(s, error), h) /\ Answer(s, error).call = s.call
  <1>1. /\ Answer(s, error).pc = "replied"
        /\ Answer(s, error).raised = error
        /\ Answer(s, error).call = s.call
    BY DEF Answer, Forgotten, Session
  <1> QED
    BY <1>1, NothingIsKnown

LEMMA RaiseKnows ==
  ASSUME NEW s \in Session, NEW error, error # "none", NEW h,
         s.call.op = "adopt" => Seeded(s.call, h)
  PROVE  Knows(Raise(s, error), h) /\ Raise(s, error).call = s.call
  <1> DEFINE r == [Forgotten(s) EXCEPT !.pc = "converge", !.raised = error]
  <1>1. r.pc = "converge" /\ r.raised = error /\ r.call = s.call
    BY DEF Forgotten, Session
  <1> HIDE DEF r
  <1>2. Knows(r, h)
    BY <1>1 DEF Knows, Succeeded, WriterLabel
  <1>3. Raise(s, error) \in {r, Answer(s, error)}
    BY DEF Raise, r
  <1> QED
    BY <1>1, <1>2, <1>3, AnswerKnows

LEMMA UnwindKnows ==
  ASSUME NEW s \in Session, NEW error, error # "none", NEW h,
         s.call.op = "adopt" => Seeded(s.call, h)
  PROVE  Knows(Unwind(s, error), h) /\ Unwind(s, error).call = s.call
  <1>1. /\ Unwind(s, error).pc = "release"
        /\ Unwind(s, error).raised = error
        /\ Unwind(s, error).call = s.call
    BY DEF Unwind, Session
  <1> QED
    BY <1>1 DEF Knows, Succeeded, WriterLabel

\* The seed of an adoption is its second checkpoint, or there is none.
LEMMA SeededAndCommitted ==
  ASSUME NEW c \in AdoptCall, NEW h \in Seq(Event), Seeded(c, h), Committed(c, h)
  PROVE  AdoptedAs(c, h)
  <1>1. c.expected = 1 /\ c.content \in Content /\ c.content # NoContent
    BY JournalAssumption DEF AdoptCall
  <1>2. 1 \in DOMAIN h /\ 2 \in DOMAIN h /\ h[2].content = c.content
    BY <1>1 DEF Seeded, Committed
  <1>3. InitialContent(h) = c.content
    BY <1>1, <1>2 DEF InitialContent, ContentAt, Seeded
  <1> QED
    BY <1>2, <1>3 DEF AdoptedAs, Seeded

LEMMA CompleteKnows ==
  ASSUME NEW s \in Session, s.call \in WriterCall, NEW h \in Seq(Event),
         Committed(s.call, h), s.call.op = "adopt" => Seeded(s.call, h)
  PROVE  /\ Knows(Complete(s, h, s.call.expected + 1), h)
         /\ Complete(s, h, s.call.expected + 1).call = s.call
  <1> DEFINE c == s.call
             r == c.expected + 1
             v == [revision |-> r, handoff |-> r, state |-> c.state,
                   content |-> ContentAt(h, r)]
             resumes == [Forgotten(s) EXCEPT !.pc = "resume"]
             replies == [Forgotten(s) EXCEPT !.pc = "replied", !.view = v]
  <1>1. CASE c.op = "adopt"
    <2>1. resumes.pc = "resume" /\ resumes.call = c
      BY DEF Forgotten, Session
    <2>2. c \in AdoptCall
      BY <1>1 DEF WriterCall, AdoptCall, CheckpointCall
    <2>3. AdoptedAs(c, h)
      BY <1>1, <2>2, SeededAndCommitted
    <2>4. Complete(s, h, r) = resumes
      BY <1>1 DEF Complete
    <2> HIDE DEF resumes
    <2> QED
      BY <1>1, <2>1, <2>3, <2>4 DEF Knows, Succeeded, WriterLabel
  <1>2. CASE c.op # "adopt"
    <2>1. replies.pc = "replied" /\ replies.call = c /\ replies.view = v
      <3> HIDE DEF v
      <3> QED BY DEF Forgotten, Session
    <2>2. Complete(s, h, r) = replies
      BY <1>2 DEF Complete
    <2>3. ViewOf(v, h)
      BY DEF ViewOf, Committed, ContentAt
    <2>4. v.revision = r
      OBVIOUS
    <2> HIDE DEF replies, v
    <2> QED
      BY <1>2, <2>1, <2>2, <2>3, <2>4 DEF Knows, Succeeded, WriterLabel
  <1> QED
    BY <1>1, <1>2

-----------------------------------------------------------------------------
\* The steps of adopt().
LEMMA AdoptStepsKeepHistory ==
  ASSUME HistoryInv, TypeInv', NEW w \in Worker,
         AdoptEntry(w) \/ SeedObjects(w) \/ AdoptCreated(w) \/ Converge(w)
  PROVE  HistoryInv'
  <1> DEFINE s == session[w]
             c == s.call
             h == HistoryOf(w)
  <1>1. WellFormed(s) /\ s \in Session /\ Knows(s, h)
    BY DEF HistoryInv, TypeInv, SessionsWellFormed, HistoryOf
  <1>2. s.pc \in AdoptLabel \ {"create"} /\ UNCHANGED history
    BY DEF AdoptEntry, SeedObjects, AdoptCreated, Converge, At, AdoptLabel, Local
  <1>3. c \in AdoptCall /\ c \in Call /\ c.op = "adopt" /\ c.task \in Task
    BY <1>1, <1>2, CallFields DEF WellFormed, AdoptCall, Call
  <1>4. h \in Seq(Event) /\ Stream(h) /\ h = history[c.task]
    BY <1>3 DEF HistoryInv, TypeInv, JournalTyped, HistoryOf
  <1>5. ASSUME AdoptExisting(w), 1 \in DOMAIN h PROVE HistoryInv'
    <2> DEFINE route == AdoptRoute(c, h)
               r == [s EXCEPT !.pc = route]
    <2>1. h # <<>> /\ Len(h) \in Nat \ {0} /\ Len(h) \in DOMAIN h
      BY <1>4, <1>5
    <2>2. HeadOf(h).goal = h[1].goal
      BY <1>4, <2>1 DEF HeadOf, Stream
    <2>3. CASE route = "checkpoint"
      <3>1. Seeded(c, h)
        BY <1>5, <2>2, <2>3 DEF AdoptRoute, Seeded, ContentAt
      <3>2. r.pc = "checkpoint" /\ r.call = c
        BY <1>1, <2>3 DEF Session
      <3>3. Knows(r, h)
        <4> HIDE DEF r
        <4> QED BY <1>3, <3>1, <3>2 DEF Knows, Succeeded, WriterLabel
      <3>4. Become(w, r)
        BY <1>5, <2>3 DEF AdoptExisting
      <3> QED
        BY <1>2, <1>4, <3>2, <3>3, <3>4, QuietStepKeepsHistory
    <2>4. CASE route = "resume"
      <3>1. h[1].goal = c.goal /\ Len(h) # 1 /\ InitialContent(h) = c.content
        BY <2>2, <2>4 DEF AdoptRoute
      <3>2. AdoptedAs(c, h)
        <4>1. 2 \in DOMAIN h
          <5>1. Len(h) \in Nat \ {0} /\ Len(h) # 1
            BY <2>1, <3>1
          <5> HIDE DEF h, c
          <5>2. DOMAIN h = 1..Len(h)
            BY <1>4
          <5> QED BY <5>1, <5>2
        <4> QED BY <3>1, <4>1 DEF AdoptedAs
      <3>3. r.pc = "resume" /\ r.call = c
        BY <1>1, <2>4 DEF Session
      <3>4. Knows(r, h)
        <4> HIDE DEF r
        <4> QED BY <1>3, <3>2, <3>3 DEF Knows, Succeeded, WriterLabel
      <3>5. Become(w, r)
        BY <1>5, <2>4 DEF AdoptExisting
      <3> QED
        BY <1>2, <1>4, <3>3, <3>4, <3>5, QuietStepKeepsHistory
    <2>5. CASE route \notin {"checkpoint", "resume"}
      <3>1. route # "none"
        BY DEF AdoptRoute
      <3>2. Knows(Answer(s, route), h) /\ Answer(s, route).call = c
        BY <1>1, <3>1, AnswerKnows
      <3>3. Become(w, Answer(s, route))
        BY <1>5, <2>5 DEF AdoptExisting
      <3> QED
        BY <1>2, <1>4, <3>2, <3>3, QuietStepKeepsHistory
    <2> QED
      BY <2>3, <2>4, <2>5
  <1>6. CASE AdoptEntry(w)
    <2>1. CASE h = <<>>
      <3> DEFINE r == [s EXCEPT !.pc = "seed"]
      <3>1. r.pc = "seed" /\ r.call = c /\ Become(w, r)
        BY <1>1, <1>6, <2>1 DEF AdoptEntry, Session
      <3>2. Knows(r, h)
        BY <3>1, NothingIsKnown
      <3> QED
        BY <1>2, <1>4, <3>1, <3>2, QuietStepKeepsHistory
    <2>2. CASE h # <<>>
      <3>1. 1 \in DOMAIN h
        BY <1>4, <2>2
      <3> QED
        BY <1>5, <1>6, <2>2, <3>1 DEF AdoptEntry
    <2> QED
      BY <2>1, <2>2
  <1>7. CASE SeedObjects(w)
    <2>1. PICK e : Become(w, [s EXCEPT !.pc = "create", !.draft = e])
      BY <1>7 DEF SeedObjects
    <2> DEFINE r == [s EXCEPT !.pc = "create", !.draft = e]
    <2>2. r.pc = "create" /\ r.call = c /\ Become(w, r)
      BY <1>1, <2>1 DEF Session
    <2>3. Knows(r, h)
      BY <2>2, NothingIsKnown
    <2> QED
      BY <1>2, <1>4, <2>2, <2>3, QuietStepKeepsHistory
  <1>8. CASE AdoptCreated(w)
    <2>1. 1 \in DOMAIN h
      BY <1>1, <1>8 DEF AdoptCreated, At, Knows
    <2> QED
      BY <1>5, <1>8, <2>1 DEF AdoptCreated
  <1>9. CASE Converge(w)
    <2> DEFINE r == [s EXCEPT !.pc = "resume", !.raised = "none"]
    <2>1. s.pc = "converge" /\ Seeded(c, h) /\ s.raised # "none"
      BY <1>1, <1>3, <1>9 DEF Converge, At, Knows
    <2>2. CASE Len(h) >= 2 /\ ContentAt(h, 2) = c.content
      <3>1. 2 \in DOMAIN h /\ c.content # NoContent
        BY <1>3, <1>4, <2>2, JournalAssumption DEF AdoptCall
      <3>2. AdoptedAs(c, h)
        BY <2>1, <2>2, <3>1 DEF AdoptedAs, Seeded, InitialContent, ContentAt
      <3>3. r.pc = "resume" /\ r.call = c /\ Become(w, r)
        BY <1>1, <1>9, <2>2 DEF Converge, Session
      <3>4. Knows(r, h)
        <4> HIDE DEF r
        <4> QED BY <1>3, <3>2, <3>3 DEF Knows, Succeeded, WriterLabel
      <3> QED
        BY <1>2, <1>4, <3>3, <3>4, QuietStepKeepsHistory
    <2>3. CASE ~(Len(h) >= 2 /\ ContentAt(h, 2) = c.content)
      <3>1. Become(w, Answer(s, s.raised))
        BY <1>9, <2>3 DEF Converge
      <3>2. Knows(Answer(s, s.raised), h) /\ Answer(s, s.raised).call = c
        BY <1>1, <2>1, AnswerKnows
      <3> QED
        BY <1>2, <1>4, <3>1, <3>2, QuietStepKeepsHistory
    <2> QED
      BY <2>2, <2>3
  <1> QED
    BY <1>6, <1>7, <1>8, <1>9

\* Creation: EventConflict and RevisionConflict mean that the Task is there.
LEMMA CreateTaskKeepsHistory ==
  ASSUME HistoryInv, TypeInv', NEW w \in Worker, CreateTask(w)
  PROVE  HistoryInv'
  <1> DEFINE s == session[w]
             c == s.call
             t == c.task
             outcome == AppendOutcome(t, 0, s.draft, NoLease)
             r == [s EXCEPT !.pc = "require", !.draft = NoEvent,
                            !.wrote = (outcome = "created")]
  <1>1. WellFormed(s) /\ s \in Session /\ s.pc = "create"
    BY DEF HistoryInv, TypeInv, SessionsWellFormed, CreateTask, At
  <1>2. c \in AdoptCall /\ t \in Task /\ s.draft \in Event
    BY <1>1, CallFields DEF WellFormed, AdoptLabel, Call
  <1>3. AppendTaskEvent(t, 0, s.draft, NoLease) /\ Become(w, r)
    BY DEF CreateTask
  <1>4. history[t] \in Seq(Event) /\ history'[t] \in Seq(Event) /\ JournalTyped
    BY <1>2 DEF HistoryInv, TypeInv, JournalTyped
  <1>5. \A u \in Task : Extends(history[u], history'[u])
    BY <1>2, <1>3, <1>4, AppendExtends
  <1>6. \A u \in Task : Stream(history'[u])
    BY <1>2, <1>3, <1>4, AppendKeepsStreams DEF HistoryInv
  <1>7. 1 \in DOMAIN history'[t]
    <2>1. CASE outcome = "created"
      <3>1. history'[t] = Append(history[t], s.draft)
        BY <1>2, <1>3, <1>4, <2>1 DEF AppendTaskEvent, WriteTaskEvent, JournalTyped
      <3> HIDE DEF s, t
      <3> QED
        BY <1>2, <1>4, <3>1
    <2>2. CASE outcome # "created"
      <3>1. 1 \in DOMAIN history[t]
        BY <1>4, <2>2 DEF AppendOutcome, Admission, EventIdBound, Leased
      <3>2. history'[t] = history[t]
        BY <1>3, <2>2 DEF AppendTaskEvent, WriteTaskEvent
      <3> QED
        BY <3>1, <3>2
    <2> QED
      BY <2>1, <2>2
  <1>8. r.pc = "require" /\ r.call = c
    <2> HIDE DEF outcome
    <2> QED BY <1>1 DEF Session
  <1> HIDE DEF r
  <1>9. Knows(r, history'[r.call.task])
    BY <1>7, <1>8 DEF Knows, Succeeded, WriterLabel
  <1>10. \A v \in Worker : Knows(session'[v], history'[session'[v].call.task])
    BY <1>3, <1>5, <1>9, SessionsStillKnow
  <1> QED
    BY <1>6, <1>10 DEF HistoryInv

\* The early returns of checkpoint(), and the clock it reads.
LEMMA CheckpointEntryKeepsHistory ==
  ASSUME HistoryInv, TypeInv', NEW w \in Worker, CheckpointEntry(w) \/ ReadClock(w)
  PROVE  HistoryInv'
  <1> DEFINE s == session[w]
             c == s.call
             h == HistoryOf(w)
  <1>1. WellFormed(s) /\ s \in Session /\ Knows(s, h)
    BY DEF HistoryInv, TypeInv, SessionsWellFormed, HistoryOf
  <1>2. s.pc \in {"checkpoint", "clock"} /\ UNCHANGED history
    BY DEF CheckpointEntry, ReadClock, At, Local
  <1>3. c \in WriterCall /\ c.task \in Task /\ c.expected \in Nat
    BY <1>1, <1>2, WriterFields, CallFields DEF WellFormed, WriterLabel
  <1>4. h \in Seq(Event) /\ Len(h) \in Nat /\ h = history[c.task]
    BY <1>3 DEF HistoryInv, TypeInv, JournalTyped, HistoryOf
  <1>5. c.op = "adopt" => Seeded(c, h)
    BY <1>1, <1>2 DEF Knows, WriterLabel
  <1>6. ASSUME NEW error \in {"KeyError", "RevisionConflict", "ValueError"},
               Become(w, Answer(s, error)) \/ Become(w, Raise(s, error))
        PROVE  HistoryInv'
    <2>1. /\ Knows(Answer(s, error), h) /\ Answer(s, error).call = c
          /\ Knows(Raise(s, error), h) /\ Raise(s, error).call = c
      BY <1>1, <1>5, AnswerKnows, RaiseKnows
    <2> HIDE DEF s, c, h
    <2> QED
      BY <1>2, <1>4, <1>6, <2>1, QuietStepKeepsHistory
  <1>7. ASSUME h # <<>>, Replays(c, h), Become(w, Complete(s, h, Len(h)))
        PROVE  HistoryInv'
    <2>1. Len(h) = c.expected + 1
      BY <1>7 DEF Replays
    <2>2. Committed(c, h)
      <3>1. Len(h) \in DOMAIN h
        <4> HIDE DEF h
        <4> QED BY <1>4, <1>7
      <3> QED
        BY <1>7, <2>1, <3>1 DEF Replays, HeadOf, ContentAt, Committed
    <2>3. /\ Knows(Complete(s, h, c.expected + 1), h)
          /\ Complete(s, h, c.expected + 1).call = c
      BY <1>1, <1>3, <1>4, <1>5, <2>2, CompleteKnows
    <2> QED
      BY <1>2, <1>4, <1>7, <2>1, <2>3, QuietStepKeepsHistory
  <1>8. ASSUME NEW pc \in {"clock", "acquire"}, NEW now,
               Become(w, [s EXCEPT !.pc = pc]) \/ Become(w, [s EXCEPT !.pc = pc, !.now = now])
        PROVE  HistoryInv'
    <2> DEFINE q == [s EXCEPT !.pc = pc]
               r == [s EXCEPT !.pc = pc, !.now = now]
    <2>1. q.pc = pc /\ q.call = c /\ r.pc = pc /\ r.call = c
      BY <1>1 DEF Session
    <2> HIDE DEF q, r
    <2>2. Knows(q, h) /\ Knows(r, h)
      BY <1>5, <2>1 DEF Knows, Succeeded, WriterLabel
    <2> QED
      BY <1>2, <1>4, <1>8, <2>1, <2>2, QuietStepKeepsHistory DEF q, r
  <1>9. CASE ReadClock(w)
    BY <1>8, <1>9 DEF ReadClock
  <1>10. CASE CheckpointEntry(w)
    <2>1. \/ \E error \in {"KeyError", "RevisionConflict", "ValueError"} :
               Become(w, Answer(s, error)) \/ Become(w, Raise(s, error))
          \/ h # <<>> /\ Replays(c, h) /\ Become(w, Complete(s, h, Len(h)))
          \/ Become(w, [s EXCEPT !.pc = "clock"])
      BY <1>10 DEF CheckpointEntry
    <2> QED
      BY <1>6, <1>7, <1>8, <2>1
  <1> QED
    BY <1>9, <1>10

\* The lease, the reads under it, and giving it back.
LEMMA LeasedStepsKeepHistory ==
  ASSUME HistoryInv, TypeInv', NEW w \in Worker,
         AcquireLease(w) \/ ReadProjection(w) \/ ReadHead(w) \/ ReleaseLease(w)
  PROVE  HistoryInv'
  <1> DEFINE s == session[w]
             c == s.call
             h == HistoryOf(w)
  <1>1. WellFormed(s) /\ s \in Session /\ Knows(s, h)
    BY DEF HistoryInv, TypeInv, SessionsWellFormed, HistoryOf
  <1>2. s.pc \in {"acquire", "projection", "head", "release"} /\ UNCHANGED history
    BY DEF AcquireLease, ReadProjection, ReadHead, ReleaseLease, At, Local
  <1>3. c \in WriterCall /\ c.task \in Task /\ c.expected \in Nat \ {0}
    BY <1>1, <1>2, WriterFields, CallFields DEF WellFormed, WriterLabel
  <1>4. h \in Seq(Event) /\ Len(h) \in Nat /\ h = history[c.task]
    BY <1>3 DEF HistoryInv, TypeInv, JournalTyped, HistoryOf
  <1>5. c.op = "adopt" => Seeded(c, h)
    BY <1>1, <1>2 DEF Knows, WriterLabel
  <1>6. ASSUME NEW error, error # "none",
               Become(w, Unwind(s, error)) \/ Become(w, Raise(s, error))
        PROVE  HistoryInv'
    <2>1. /\ Knows(Unwind(s, error), h) /\ Unwind(s, error).call = c
          /\ Knows(Raise(s, error), h) /\ Raise(s, error).call = c
      BY <1>1, <1>5, <1>6, UnwindKnows, RaiseKnows
    <2> HIDE DEF s, c, h
    <2> QED
      BY <1>2, <1>4, <1>6, <2>1, QuietStepKeepsHistory
  <1>7. CASE AcquireLease(w)
    <2> DEFINE lease == NextLease(c.task, FreshOwner(w, c.task), s.now)
               r == [s EXCEPT !.pc = "projection", !.lease = lease, !.now = 0]
    <2>1. Become(w, r) \/ Become(w, Raise(s, "LeaseHeld"))
      BY <1>7 DEF AcquireLease
    <2> HIDE DEF lease
    <2>2. r.pc = "projection" /\ r.call = c
      BY <1>1 DEF Session
    <2> HIDE DEF r
    <2>3. Knows(r, h)
      BY <1>5, <2>2 DEF Knows, Succeeded, WriterLabel
    <2> QED
      BY <1>2, <1>4, <1>6, <2>1, <2>2, <2>3, QuietStepKeepsHistory
  <1>8. CASE ReadProjection(w)
    <2> DEFINE r == [s EXCEPT !.pc = "head"]
    <2>1. \/ Become(w, Unwind(s, "TaskRevisionMismatch"))
          \/ Become(w, Unwind(s, "TaskStateMismatch"))
          \/ Become(w, r)
      BY <1>8 DEF ReadProjection
    <2>2. r.pc = "head" /\ r.call = c
      BY <1>1 DEF Session
    <2> HIDE DEF r
    <2>3. Knows(r, h)
      BY <1>5, <2>2 DEF Knows, Succeeded, WriterLabel
    <2> QED
      BY <1>2, <1>4, <1>6, <2>1, <2>2, <2>3, QuietStepKeepsHistory
  <1>9. CASE ReadHead(w)
    <2> DEFINE head == HeadOf(h)
               r == [s EXCEPT !.pc = "put", !.head = head]
    <2>1. \/ Become(w, Unwind(s, "TaskProjectionDrift"))
          \/ Len(h) = c.expected /\ Become(w, r)
      BY <1>9 DEF ReadHead
    <2>2. CASE Len(h) = c.expected /\ Become(w, r)
      <3>1. c.expected \in DOMAIN h /\ head = h[c.expected]
        <4>1. head = h[c.expected]
          BY <2>2 DEF HeadOf
        <4>2. c.expected \in DOMAIN h
          <5> HIDE DEF h, c
          <5> QED BY <1>3, <1>4, <2>2
        <4> QED
          BY <4>1, <4>2
      <3> HIDE DEF head
      <3>2. r.pc = "put" /\ r.call = c /\ r.head = head
        BY <1>1 DEF Session
      <3> HIDE DEF r
      <3>3. Knows(r, h)
        BY <1>5, <3>1, <3>2 DEF Knows, Succeeded, WriterLabel
      <3> QED
        BY <1>2, <1>4, <2>2, <3>2, <3>3, QuietStepKeepsHistory
    <2> QED
      BY <1>6, <2>1, <2>2
  <1>10. CASE ReleaseLease(w)
    <2>1. s.raised # "none"
      BY <1>1, <1>10 DEF ReleaseLease, At, Knows
    <2>2. Become(w, Raise(s, s.raised))
      BY <1>10 DEF ReleaseLease
    <2> QED
      BY <1>6, <2>1, <2>2
  <1> QED
    BY <1>7, <1>8, <1>9, <1>10

\* The objects of a draft are put, and the draft is appended, after the head the
\* lease was taken for.
LEMMA AppendStepsKeepHistory ==
  ASSUME HistoryInv, TypeInv', NEW w \in Worker, PutObjects(w) \/ AppendCheckpoint(w)
  PROVE  HistoryInv'
  <1> DEFINE s == session[w]
             c == s.call
             t == c.task
             h == history[t]
  <1>1. WellFormed(s) /\ s \in Session /\ Knows(s, h) /\ s.pc \in {"put", "append"}
    BY DEF HistoryInv, TypeInv, SessionsWellFormed, PutObjects, AppendCheckpoint, At
  <1>2. c \in WriterCall /\ t \in Task /\ c.expected \in Nat \ {0}
    BY <1>1, WriterFields, CallFields DEF WellFormed, WriterLabel
  <1>3. /\ h \in Seq(Event) /\ history'[t] \in Seq(Event)
        /\ JournalTyped /\ clock \in Nat
    BY <1>2 DEF HistoryInv, TypeInv, JournalTyped
  <1>4. c.op = "adopt" => Seeded(c, h)
    BY <1>1 DEF Knows, WriterLabel
  <1>5. CASE PutObjects(w)
    <2> DEFINE d == Draft(s)
               r == [s EXCEPT !.pc = "append", !.draft = d, !.head = NoEvent]
    <2>1. s.pc = "put" /\ Become(w, r) /\ UNCHANGED history
      BY <1>5 DEF PutObjects, At
    <2>2. c.expected \in DOMAIN h /\ s.head = h[c.expected]
      BY <1>1, <2>1 DEF Knows
    <2>3. d.at > h[c.expected].at
      BY <1>1, <1>3, <2>1, <2>2, DraftIsEvent
    <2>4. d.goal = h[c.expected].goal /\ d.content = c.content /\ d.state = c.state
      BY <2>2 DEF Draft
    <2> HIDE DEF d
    <2>5. r.pc = "append" /\ r.call = c /\ r.draft = d
      BY <1>1 DEF Session
    <2> HIDE DEF r
    <2>6. Knows(r, h)
      BY <1>4, <2>2, <2>3, <2>4, <2>5 DEF Knows, Succeeded, WriterLabel
    <2> QED
      BY <2>1, <2>5, <2>6, QuietStepKeepsHistory
  <1>6. CASE AppendCheckpoint(w)
    <2> DEFINE outcome == AppendOutcome(t, c.expected, s.draft, s.lease)
               wrote == s.wrote \/ outcome = "created"
               r == [s EXCEPT !.pc = "readback", !.lease = NoLease,
                              !.draft = NoEvent, !.wrote = wrote]
    <2>1. s.pc = "append" /\ AppendTaskEvent(t, c.expected, s.draft, s.lease)
      BY <1>6 DEF AppendCheckpoint, At
    <2>2. /\ s.draft \in Event
          /\ c.expected \in DOMAIN h
          /\ s.draft.at > h[c.expected].at
          /\ s.draft.goal = h[c.expected].goal
          /\ s.draft.content = c.content
          /\ s.draft.state = c.state
      BY <1>1, <2>1 DEF WellFormed, Knows
    <2>3. \A u \in Task : Extends(history[u], history'[u])
      BY <1>2, <1>3, <2>1, <2>2, AppendExtends
    <2>4. \A u \in Task : Stream(history'[u])
      BY <1>2, <1>3, <2>1, <2>2, AppendKeepsStreams DEF HistoryInv
    <2>5. c.op = "adopt" => Seeded(c, history'[t])
      <3>1. Extends(h, history'[t])
        BY <1>2, <2>3
      <3>2. 1 \in DOMAIN h => 1 \in DOMAIN history'[t] /\ history'[t][1] = h[1]
        BY <1>3, <3>1 DEF Extends
      <3> QED
        BY <1>4, <3>2 DEF Seeded
    <2>6. CASE outcome \in Admitted
      <3>1. c.expected + 1 \in DOMAIN history'[t] /\ history'[t][c.expected + 1] = s.draft
        <4>1. CASE outcome = "created"
          <5>1. history'[t] = Append(h, s.draft)
            BY <1>2, <1>3, <2>1, <4>1 DEF AppendTaskEvent, WriteTaskEvent, JournalTyped
          <5>2. Len(h) = c.expected
            BY <4>1, CreatedFollowsHead
          <5> HIDE DEF s, h, c
          <5> QED
            BY <1>2, <1>3, <2>2, <5>1, <5>2
        <4>2. CASE outcome = "existing"
          <5>1. history'[t] = h
            BY <2>1, <4>2 DEF AppendTaskEvent, WriteTaskEvent
          <5> QED
            BY <4>2, <5>1, ExistingIsBound
        <4> QED
          BY <2>6, <4>1, <4>2 DEF Admitted
      <3>2. Committed(c, history'[t])
        BY <2>2, <3>1 DEF Committed
      <3>3. Become(w, r)
        BY <1>6, <2>6 DEF AppendCheckpoint
      <3> HIDE DEF wrote
      <3>4. r.pc = "readback" /\ r.call = c
        BY <1>1 DEF Session
      <3> HIDE DEF r
      <3>5. Knows(r, history'[r.call.task])
        BY <2>5, <3>2, <3>4 DEF Knows, Succeeded, WriterLabel
      <3>6. \A v \in Worker : Knows(session'[v], history'[session'[v].call.task])
        BY <2>3, <3>3, <3>5, SessionsStillKnow
      <3> QED
        BY <2>4, <3>6 DEF HistoryInv
    <2>7. CASE outcome \notin Admitted
      <3>1. Become(w, Unwind(s, outcome))
        BY <1>6, <2>7 DEF AppendCheckpoint
      <3>2. outcome # "none"
        BY DEF AppendOutcome, Admission
      <3>3. Knows(Unwind(s, outcome), history'[t]) /\ Unwind(s, outcome).call = c
        BY <1>1, <2>5, <3>2, UnwindKnows
      <3>4. \A v \in Worker : Knows(session'[v], history'[session'[v].call.task])
        BY <2>3, <3>1, <3>3, SessionsStillKnow
      <3> QED
        BY <2>4, <3>4 DEF HistoryInv
    <2> QED
      BY <2>6, <2>7
  <1> QED
    BY <1>5, <1>6

\* The reads that make an answer.
LEMMA AnswerReadsKeepHistory ==
  ASSUME HistoryInv, TypeInv', NEW w \in Worker,
         ReadBack(w) \/ ResumeEntry(w) \/ Handoff(w)
  PROVE  HistoryInv'
  <1> DEFINE s == session[w]
             c == s.call
             h == HistoryOf(w)
  <1>1. WellFormed(s) /\ s \in Session /\ Knows(s, h) /\ s.view \in View
    BY SessionFields DEF HistoryInv, TypeInv, SessionsWellFormed, HistoryOf
  <1>2. s.pc \in {"readback", "resume", "handoff"} /\ UNCHANGED history
    BY DEF ReadBack, ResumeEntry, Handoff, At, Local
  <1>3. c \in Call /\ c.task \in Task
    BY <1>1, <1>2, CallFields DEF WellFormed
  <1>4. h \in Seq(Event) /\ h = history[c.task]
    BY <1>3 DEF HistoryInv, TypeInv, JournalTyped, HistoryOf
  <1>5. ASSUME NEW error \in {"KeyError", "RevisionConflict", "ValueError"},
               Become(w, Answer(s, error))
        PROVE  HistoryInv'
    <2>1. Knows(Answer(s, error), h) /\ Answer(s, error).call = c
      BY <1>1, AnswerKnows
    <2> QED
      BY <1>2, <1>4, <1>5, <2>1, QuietStepKeepsHistory
  <1>6. CASE ReadBack(w)
    <2>1. c \in WriterCall /\ Committed(c, h) /\ (c.op = "adopt" => Seeded(c, h))
      BY <1>1, <1>6 DEF ReadBack, At, WellFormed, Knows, WriterLabel
    <2>2. /\ Knows(Complete(s, h, c.expected + 1), h)
          /\ Complete(s, h, c.expected + 1).call = c
      BY <1>1, <1>4, <2>1, CompleteKnows
    <2>3. Become(w, Complete(s, h, c.expected + 1))
      BY <1>6 DEF ReadBack, CallOf
    <2> QED
      BY <1>2, <1>4, <2>2, <2>3, QuietStepKeepsHistory
  <1>7. CASE ResumeEntry(w)
    <2> DEFINE n == Len(h)
               state == HeadOf(h).state
               r == [s EXCEPT !.pc = "handoff", !.view.revision = n, !.view.state = state]
    <2>1. \/ \E error \in {"KeyError", "RevisionConflict"} : Become(w, Answer(s, error))
          \/ h # <<>> /\ Become(w, r)
      BY <1>7 DEF ResumeEntry
    <2>2. CASE h # <<>> /\ Become(w, r)
      <3>1. n \in DOMAIN h
        <4> HIDE DEF h
        <4> QED BY <1>4, <2>2
      <3>2. state = h[n].state
        BY DEF HeadOf
      <3>3. c.op # "checkpoint" /\ (c.op = "adopt" => AdoptedAs(c, h))
        BY <1>1, <1>7 DEF ResumeEntry, At, Knows
      <3> HIDE DEF n, state
      <3>4. r.pc = "handoff" /\ r.call = c /\ r.view.revision = n /\ r.view.state = state
        BY <1>1 DEF Session, View
      <3> HIDE DEF r
      <3>5. Knows(r, h)
        BY <3>1, <3>2, <3>3, <3>4 DEF Knows, Succeeded, WriterLabel
      <3> QED
        BY <1>2, <1>4, <2>2, <3>4, <3>5, QuietStepKeepsHistory
    <2> QED
      BY <1>5, <2>1, <2>2
  <1>8. CASE Handoff(w)
    <2> DEFINE n == Len(h)
               content == ContentAt(h, s.view.revision)
               r == [s EXCEPT !.pc = "replied", !.view.handoff = n, !.view.content = content]
    <2>1. \/ Become(w, Answer(s, "ValueError"))
          \/ n = s.view.revision /\ Become(w, r)
      BY <1>8 DEF Handoff
    <2>2. CASE n = s.view.revision /\ Become(w, r)
      <3>1. /\ s.view.revision \in DOMAIN h
            /\ s.view.state = h[s.view.revision].state
            /\ c.op = "adopt" => AdoptedAs(c, h)
        BY <1>1, <1>8 DEF Handoff, At, Knows
      <3>2. content = h[s.view.revision].content
        BY <3>1 DEF ContentAt
      <3>3. c.op # "checkpoint"
        BY <1>1, <1>8 DEF Handoff, At, Knows
      <3> HIDE DEF n, content
      <3>4. r.pc = "replied" /\ r.call = c
        BY <1>1 DEF Session
      <3>5. r.view = [s.view EXCEPT !.handoff = n, !.content = content]
        BY <1>1 DEF Session
      <3>6. ViewOf(r.view, h)
        <4> DEFINE v == [s.view EXCEPT !.handoff = n, !.content = content]
        <4>1. /\ v.handoff = n /\ v.content = content
              /\ v.revision = s.view.revision /\ v.state = s.view.state
          BY <1>1 DEF View
        <4>2. r.view = v
          BY <3>5
        <4> HIDE DEF v, r
        <4> QED BY <2>2, <3>1, <3>2, <4>1, <4>2 DEF ViewOf
      <3> HIDE DEF r
      <3>7. Knows(r, h)
        BY <3>1, <3>3, <3>4, <3>6 DEF Knows, Succeeded, WriterLabel
      <3> QED
        BY <1>2, <1>4, <2>2, <3>4, <3>7, QuietStepKeepsHistory
    <2> QED
      BY <1>5, <2>1, <2>2
  <1> QED
    BY <1>6, <1>7, <1>8

\* Clients and faults: whoever starts, stops or dies knows nothing.
LEMMA ClientStepsKeepHistory ==
  ASSUME HistoryInv, TypeInv', NEW w \in Worker,
         \/ Begin(w) \/ Deliver(w) \/ Retry(w) \/ Crash(w)
         \/ TransactionFails(w) \/ ReadFails(w)
  PROVE  HistoryInv'
  <1> DEFINE s == session[w]
  <1>1. WellFormed(s) /\ s \in Session /\ Knows(s, history[s.call.task])
    BY DEF HistoryInv, TypeInv, SessionsWellFormed
  <1>2. UNCHANGED history
    BY DEF Begin, Deliver, Retry, Crash, TransactionFails, ReadFails, Local, journalVars
  <1>3. ASSUME NEW c \in Call, Become(w, Starting(c)) PROVE HistoryInv'
    <2>1. Starting(c).pc = c.op /\ Starting(c).call = c
      BY DEF Starting, Idle
    <2>2. c.op \in {"adopt", "checkpoint", "resume"}
      BY CallFields
    <2>3. Knows(Starting(c), history[c.task])
      BY <2>1, <2>2, NothingIsKnown
    <2> QED
      BY <1>2, <1>3, <2>1, <2>3, QuietStepKeepsHistory
  <1>4. ASSUME Become(w, Idle) PROVE HistoryInv'
    <2>1. Knows(Idle, history[Idle.call.task])
      BY NothingIsKnown DEF Idle
    <2> QED
      BY <1>2, <1>4, <2>1, QuietStepKeepsHistory
  <1>5. CASE TransactionFails(w)
    <2> DEFINE error == "OperationalError"
               h == history[s.call.task]
    <2>1. \/ s.pc = "append" /\ Become(w, Unwind(s, error))
          \/ Become(w, Answer(s, error))
      BY <1>5 DEF TransactionFails
    <2>2. Knows(Answer(s, error), h) /\ Answer(s, error).call = s.call
      BY <1>1, AnswerKnows
    <2>3. ASSUME s.pc = "append"
          PROVE  Knows(Unwind(s, error), h) /\ Unwind(s, error).call = s.call
      <3>1. s.call.op = "adopt" => Seeded(s.call, h)
        BY <1>1, <2>3 DEF Knows, WriterLabel
      <3> QED
        BY <1>1, <3>1, UnwindKnows
    <2> QED
      BY <1>2, <2>1, <2>2, <2>3, QuietStepKeepsHistory
  <1>6. CASE Retry(w)
    <2>1. s.call \in Call
      BY <1>1, <1>6 DEF Retry, At, WellFormed
    <2> QED
      BY <1>3, <1>6, <2>1 DEF Retry, CallOf
  <1>7. CASE ReadFails(w)
    <2> DEFINE h == history[s.call.task]
    <2>1. PICK error \in ReadError :
            Become(w, IF s.pc \in {"head", "put"} THEN Unwind(s, error)
                      ELSE Answer(s, error))
      BY <1>7 DEF ReadFails
    <2>2. error # "none"
      BY <2>1 DEF ReadError, Corrupted
    <2>3. Knows(Answer(s, error), h) /\ Answer(s, error).call = s.call
      BY <1>1, <2>2, AnswerKnows
    <2>4. ASSUME s.pc \in {"head", "put"}
          PROVE  Knows(Unwind(s, error), h) /\ Unwind(s, error).call = s.call
      <3>1. s.call.op = "adopt" => Seeded(s.call, h)
        BY <1>1, <2>4 DEF Knows, WriterLabel
      <3> QED
        BY <1>1, <2>2, <3>1, UnwindKnows
    <2> HIDE DEF s
    <2> QED
      BY <1>2, <2>1, <2>3, <2>4, QuietStepKeepsHistory
  <1> QED
    BY <1>3, <1>4, <1>5, <1>6, <1>7 DEF Begin, Deliver, Crash

\* Init leaves at most one event in a stream, and every worker idle.
LEMMA InitHistory ==
  ASSUME Init PROVE HistoryInv
  <1>1. TypeInv
    BY InitTypes
  <1>2. \A t \in Task : Stream(history[t])
    <2>1. PICK g \in Goal, old \in SUBSET LegacyTask :
            history = [t \in Task |-> IF t \in old THEN <<LegacyCreation(g)>> ELSE <<>>]
      BY DEF Init
    <2>2. Stream(<<LegacyCreation(g)>>) /\ Stream(<<>>)
      BY DEF Stream
    <2> QED
      BY <2>1, <2>2
  <1>3. \A w \in Worker : Knows(session[w], history[session[w].call.task])
    BY NothingIsKnown DEF Init, Idle
  <1> QED
    BY <1>1, <1>2, <1>3 DEF HistoryInv

\* Every step of every worker, fault and tick keeps the history invariant.
LEMMA StepKeepsHistory ==
  ASSUME HistoryInv, [Next]_vars PROVE HistoryInv'
  <1>1. TypeInv'
    BY StepKeepsTypes DEF HistoryInv
  <1>2. ASSUME UNCHANGED <<history, session>> PROVE HistoryInv'
    BY <1>1, <1>2 DEF HistoryInv
  <1>3. ASSUME NEW w \in Worker, Run(w) PROVE HistoryInv'
    BY <1>1, <1>3, AdoptStepsKeepHistory, CreateTaskKeepsHistory,
       CheckpointEntryKeepsHistory, LeasedStepsKeepHistory,
       AppendStepsKeepHistory, AnswerReadsKeepHistory DEF Run
  <1>4. CASE Next
    <2>1. Tick \/ ClockStepsBack => UNCHANGED <<history, session>>
      BY DEF Tick, ClockStepsBack
    <2> QED
      BY <1>1, <1>2, <1>3, <1>4, <2>1, ClientStepsKeepHistory DEF Next
  <1>5. CASE UNCHANGED vars
    BY <1>2, <1>5 DEF vars
  <1> QED
    BY <1>4, <1>5

-----------------------------------------------------------------------------
\* In every behaviour a call's knowledge of its Task is true of the Task.
THEOREM HistoryIsInvariant == Spec => []HistoryInv
  BY InitHistory, StepKeepsHistory, PTL DEF Spec

\* Times strictly increase along every stream, whatever the clock did
\* (kernel.py timestamp, sqlite.py append_task_event).
THEOREM TimesIncrease == Spec => []TimeStrictlyIncreases
  <1>1. HistoryInv => TimeStrictlyIncreases
    BY DEF HistoryInv, Stream, TimeStrictlyIncreases
  <1> QED
    BY <1>1, HistoryIsInvariant, PTL

\* A terminal event is the last of its stream (sqlite.py append_task_event).
THEOREM TerminalStays == Spec => []TerminalIsLast
  <1>1. HistoryInv => TerminalIsLast
    BY DEF HistoryInv, Stream, TerminalIsLast
  <1> QED
    BY <1>1, HistoryIsInvariant, PTL

\* A task.checkpoint or task.adopt that answered ok is in the history as asked
\* (continuity.py adopt, checkpoint).
THEOREM AnswersStand == Spec => []AnswersAreHonoured
  <1>1. ASSUME HistoryInv, NEW w \in Worker, Succeeded(session[w])
        PROVE  Honoured(session[w])
    <2> DEFINE s == session[w]
               c == s.call
               h == history[c.task]
    <2>1. WellFormed(s) /\ Knows(s, h) /\ s.pc = "replied"
      BY <1>1 DEF HistoryInv, TypeInv, SessionsWellFormed, Succeeded
    <2>2. c \in Call /\ c.task \in Task /\ c.expected \in Nat
      BY <2>1, CallFields DEF WellFormed
    <2>3. h \in Seq(Event) /\ Len(h) \in Nat /\ DOMAIN h = 1..Len(h)
      BY <1>1, <2>2 DEF HistoryInv, TypeInv, JournalTyped
    <2>4. /\ c.op = "checkpoint" => Committed(c, h) /\ s.view.revision = c.expected + 1
          /\ c.op = "adopt" => AdoptedAs(c, h)
      BY <1>1, <2>1 DEF Knows
    <2>5. /\ c.expected + 1 \in DOMAIN h => Len(h) > c.expected
          /\ 2 \in DOMAIN h => Len(h) >= 2
      <3> HIDE DEF h, c
      <3> QED BY <2>2, <2>3
    <2> QED
      BY <2>4, <2>5 DEF Honoured, Committed, AdoptedAs
  <1>2. HistoryInv => AnswersAreHonoured
    BY <1>1 DEF AnswersAreHonoured
  <1> QED
    BY <1>2, HistoryIsInvariant, PTL

\* The parts of a recovery view are of one revision (continuity.py resume,
\* handoff.py operator_handoff).
THEOREM ViewsStand == Spec => []ViewsAreOfOneRevision
  <1>1. HistoryInv => ViewsAreOfOneRevision
    BY DEF HistoryInv, Knows, ViewOf, ViewsAreOfOneRevision
  <1> QED
    BY <1>1, HistoryIsInvariant, PTL

-----------------------------------------------------------------------------
\* What an entry of the ledger may be.
AnyEntry == [goal: Goal, content: Content \cup {NoContent}, state: TaskState]

\* The entries of a stream are the sequence of the entries of its events.
LEMMA EntriesAre ==
  ASSUME NEW h \in Seq(Event)
  PROVE  /\ Entries(h) \in Seq(AnyEntry)
         /\ Len(Entries(h)) = Len(h)
         /\ DOMAIN Entries(h) = DOMAIN h
         /\ \A i \in DOMAIN h : Entries(h)[i] = EntryOf(h[i])
  <1>1. DOMAIN h = 1..Len(h) /\ Len(h) \in Nat
    OBVIOUS
  <1>2. \A i \in 1..Len(h) : EntryOf(h[i]) \in AnyEntry
    <2>1. \A i \in 1..Len(h) : h[i] \in Event
      BY <1>1
    <2> QED
      BY <2>1 DEF EntryOf, Event, AnyEntry
  <1>3. Entries(h) \in [1..Len(h) -> AnyEntry]
    BY <1>1, <1>2 DEF Entries
  <1>4. Entries(h) \in Seq(AnyEntry)
    BY <1>1, <1>3
  <1> QED
    BY <1>1, <1>3, <1>4 DEF Entries

\* A Task without events is a ledger without entries.
LEMMA EntriesOfNone == Entries(<<>>) = <<>>
  <1>1. <<>> \in Seq(Event) /\ Len(<<>>) = 0
    OBVIOUS
  <1>2. Entries(<<>>) \in Seq(AnyEntry) /\ Len(Entries(<<>>)) = 0
    BY <1>1, EntriesAre
  <1> QED
    BY <1>2

\* An event more is an entry more.
LEMMA EntriesAppend ==
  ASSUME NEW h \in Seq(Event), NEW e \in Event
  PROVE  Entries(Append(h, e)) = Append(Entries(h), EntryOf(e))
  <1> DEFINE g == Append(h, e)
             l == Entries(g)
             m == Append(Entries(h), EntryOf(e))
  <1>1. /\ g \in Seq(Event) /\ Len(h) \in Nat /\ Len(g) = Len(h) + 1
        /\ DOMAIN h = 1..Len(h) /\ DOMAIN g = 1..(Len(h) + 1)
        /\ \A i \in 1..Len(h) : g[i] = h[i]
        /\ g[Len(h) + 1] = e
    OBVIOUS
  <1>2. EntryOf(e) \in AnyEntry
    BY DEF EntryOf, Event, AnyEntry
  <1>3. /\ Entries(h) \in Seq(AnyEntry)
        /\ Len(Entries(h)) = Len(h)
        /\ \A i \in 1..Len(h) : Entries(h)[i] = EntryOf(h[i])
    BY <1>1, EntriesAre
  <1> HIDE DEF g
  <1>4. /\ l \in Seq(AnyEntry) /\ Len(l) = Len(h) + 1
        /\ \A i \in 1..(Len(h) + 1) : l[i] = EntryOf(g[i])
    BY <1>1, EntriesAre
  <1>5. /\ m \in Seq(AnyEntry) /\ Len(m) = Len(h) + 1
        /\ \A i \in 1..Len(h) : m[i] = Entries(h)[i]
        /\ m[Len(h) + 1] = EntryOf(e)
    <2> DEFINE k == Entries(h)
               x == EntryOf(e)
    <2>1. k \in Seq(AnyEntry) /\ x \in AnyEntry /\ Len(k) = Len(h)
      BY <1>2, <1>3
    <2> HIDE DEF k, x
    <2>2. Append(k, x) \in Seq(AnyEntry) /\ Len(Append(k, x)) = Len(k) + 1
          /\ (\A i \in 1..Len(k) : Append(k, x)[i] = k[i])
          /\ Append(k, x)[Len(k) + 1] = x
      BY <2>1
    <2> QED
      BY <2>1, <2>2 DEF k, x
  <1> HIDE DEF l, m
  <1>6. \A i \in 1..Len(l) : l[i] = m[i]
    <2> TAKE i \in 1..Len(l)
    <2>1. i \in 1..Len(h) \/ i = Len(h) + 1
      BY <1>1, <1>4
    <2> QED
      BY <1>1, <1>3, <1>4, <1>5, <2>1
  <1>7. l = m
    BY <1>4, <1>5, <1>6, SeqEqual
  <1> QED
    BY <1>7 DEF l, m, g

-----------------------------------------------------------------------------
\* What a session owes to those outside: a draft is of its call and its objects
\* are in the CAS, a recovery view is of the revision it was fenced with, and a
\* checkpoint call that wrote has not failed, but for a read that did.
Unreported(s) ==
  /\ s.pc \notin {"release", "replied"} => s.raised = "none"
  /\ s.wrote => \/ s.pc = "readback" \/ Succeeded(s)
                \/ s.pc = "replied" /\ s.raised \in ReadError

Promises(s, o) ==
  /\ s.pc = "idle" => s.call = NoCall
  /\ s.pc = "create" => /\ s.draft.goal = s.call.goal
                        /\ s.draft.content = s.call.content
                        /\ s.draft.state = "READY"
  /\ s.pc \in {"create", "append"} => Evidence(s.call.task, s.draft) \subseteq o
  /\ s.pc = "handoff" /\ s.call.op = "resume" => s.call.expected \in {0, s.view.revision}
  /\ s.call.op = "checkpoint" => Unreported(s)

LedgerInv ==
  /\ HistoryInv
  /\ EvidenceIsStored
  /\ \A w \in Worker : Promises(session[w], objects)

LedgerStep == [Ledger!LedgerNext]_(Ledger!ledgerVars)

\* Objects are only ever put.
LEMMA PromisesGrow ==
  ASSUME NEW s, NEW o, NEW p, Promises(s, o), o \subseteq p
  PROVE  Promises(s, p)
  <1> HIDE DEF Unreported, Evidence
  <1> QED BY DEF Promises

\* A step that gives one session what it may promise keeps all promises.
LEMMA PromisesKept ==
  ASSUME LedgerInv, HistoryInv', NEW w \in Worker, NEW r, Become(w, r),
         Promises(r, objects'), objects \subseteq objects', EvidenceIsStored'
  PROVE  LedgerInv'
  <1>1. ASSUME NEW v \in Worker PROVE Promises(session'[v], objects')
    <2>1. session'[v] = IF v = w THEN r ELSE session[v]
      BY DEF Become, LedgerInv, HistoryInv, TypeInv, SessionsWellFormed
    <2>2. Promises(session[v], objects')
      BY PromisesGrow DEF LedgerInv
    <2> QED
      BY <2>1, <2>2
  <1> QED
    BY <1>1 DEF LedgerInv

\* Objects that are only put leave a history that does not change stored.
LEMMA EvidenceKept ==
  ASSUME EvidenceIsStored, objects \subseteq objects', UNCHANGED history
  PROVE  EvidenceIsStored'
  <1> HIDE DEF Evidence
  <1> QED BY DEF EvidenceIsStored

\* What clients see of a step that changes one session.
LEMMA Mirrored ==
  ASSUME HistoryInv, NEW w \in Worker, NEW r, Become(w, r)
  PROVE  /\ request' = [request EXCEPT ![w] = r.call]
         /\ answer' = [answer EXCEPT ![w] = Told(r)]
         /\ request[w] = session[w].call
         /\ answer[w] = Told(session[w])
  <1>1. session' = [session EXCEPT ![w] = r]
    BY DEF Become
  <1>2. session \in [Worker -> Session]
    BY DEF HistoryInv, TypeInv, SessionsWellFormed
  <1>3. request' = [v \in Worker |-> session'[v].call]
    BY DEF request
  <1>4. answer' = [v \in Worker |-> Told(session'[v])]
    BY DEF answer, Told, Succeeded
  <1> HIDE DEF Told
  <1>5. \A v \in Worker : session'[v] = IF v = w THEN r ELSE session[v]
    BY <1>1, <1>2
  <1> QED
    BY <1>3, <1>4, <1>5 DEF request, answer

\* The ledger is a function of the histories alone.
LEMMA SameLedger ==
  ASSUME UNCHANGED history
  PROVE  ledger' = ledger
  BY DEF ledger, Entries, EntryOf

\* The ledger of a Task, entry by entry.
LEMMA LedgerOf ==
  ASSUME HistoryInv, NEW t \in Task
  PROVE  /\ ledger[t] = Entries(history[t])
         /\ Len(ledger[t]) = Len(history[t])
         /\ DOMAIN ledger[t] = DOMAIN history[t]
         /\ \A i \in DOMAIN history[t] : ledger[t][i] = EntryOf(history[t][i])
  <1>1. ledger[t] = Entries(history[t])
    BY DEF ledger
  <1>2. history[t] \in Seq(Event)
    BY DEF HistoryInv, TypeInv, JournalTyped
  <1> QED
    BY <1>1, <1>2, EntriesAre

\* What an unanswered session, a refused one and an answered one tell.
LEMMA Tells ==
  ASSUME NEW s
  PROVE  /\ s.pc # "replied" => Told(s) = Ledger!Pending
         /\ s.pc = "replied" /\ s.raised # "none" => Told(s) = Ledger!Refused
         /\ Succeeded(s) => Told(s) = [verdict |-> "ok", revision |-> s.view.revision,
                                       content |-> s.view.content]
  BY DEF Told, Succeeded, Ledger!Pending, Ledger!Refused

\* A call is never the absent call.
LEMMA CallsAreNotNone ==
  ASSUME NEW c \in Call PROVE c # NoCall
  BY CallFields DEF NoCall

\* A call that goes on.
LEMMA GoesOn ==
  ASSUME LedgerInv, HistoryInv', NEW w \in Worker, NEW r, Become(w, r), UNCHANGED history,
         session[w].pc \notin {"idle", "replied"}, r.call = session[w].call,
         r.pc # "replied"
  PROVE  LedgerStep
  <1>1. /\ request' = [request EXCEPT ![w] = r.call]
        /\ answer' = [answer EXCEPT ![w] = Told(r)]
        /\ request[w] = session[w].call
        /\ answer[w] = Told(session[w])
        /\ ledger' = ledger
    BY Mirrored, SameLedger DEF LedgerInv
  <1>2. Told(r) = Ledger!Pending /\ Told(session[w]) = Ledger!Pending
    BY Tells
  <1>3. request' = request /\ answer' = answer
    BY <1>1, <1>2 DEF request, answer
  <1> QED
    BY <1>1, <1>3 DEF LedgerStep, Ledger!ledgerVars

\* A call that is refused.
LEMMA IsRefused ==
  ASSUME LedgerInv, HistoryInv', NEW w \in Worker, NEW r, Become(w, r), UNCHANGED history,
         session[w].pc \notin {"idle", "replied"}, r.call = session[w].call,
         r.pc = "replied", r.raised # "none"
  PROVE  LedgerStep
  <1>1. /\ request' = [request EXCEPT ![w] = r.call]
        /\ answer' = [answer EXCEPT ![w] = Told(r)]
        /\ request[w] = session[w].call
        /\ answer[w] = Told(session[w])
        /\ ledger' = ledger
    BY Mirrored, SameLedger DEF LedgerInv
  <1>2. Told(r) = Ledger!Refused /\ Told(session[w]) = Ledger!Pending
    BY Tells
  <1>3. request[w] # NoCall
    BY <1>1, CallsAreNotNone DEF LedgerInv, HistoryInv, TypeInv, SessionsWellFormed, WellFormed
  <1>4. request' = request
    BY <1>1 DEF request
  <1>5. Ledger!Refuse(w)
    BY <1>1, <1>2, <1>3, <1>4 DEF Ledger!Refuse
  <1> QED
    BY <1>5 DEF LedgerStep, Ledger!LedgerNext

\* A call that is granted: what its session knows of the history is what the
\* ledger grants it, when a recovery view is of the last revision.
LEMMA IsConfirmed ==
  ASSUME LedgerInv, HistoryInv', NEW w \in Worker, NEW r, Become(w, r), UNCHANGED history,
         session[w].pc \notin {"idle", "replied"}, r.call = session[w].call,
         Succeeded(r),
         r.call.op # "checkpoint" => r.view.revision = Len(history[r.call.task]),
         r.call.op = "resume" => r.call.expected \in {0, r.view.revision}
  PROVE  LedgerStep
  <1> DEFINE c == r.call
             h == history[c.task]
             n == r.view.revision
  <1>1. /\ request' = [request EXCEPT ![w] = c]
        /\ answer' = [answer EXCEPT ![w] = Told(r)]
        /\ request[w] = session[w].call
        /\ answer[w] = Told(session[w])
        /\ ledger' = ledger
    BY Mirrored, SameLedger DEF LedgerInv
  <1>2. /\ Told(r) = [verdict |-> "ok", revision |-> n, content |-> r.view.content]
        /\ Told(session[w]) = Ledger!Pending
    BY Tells
  <1>3. c \in Call /\ c # NoCall /\ c.task \in Task
    BY CallsAreNotNone, CallFields
       DEF LedgerInv, HistoryInv, TypeInv, SessionsWellFormed, WellFormed
  <1>4. request' = request /\ request[w] = c
    BY <1>1 DEF request
  <1>5. Knows(r, h)
    <2>1. session'[w] = r
      BY DEF Become, LedgerInv, HistoryInv, TypeInv, SessionsWellFormed
    <2>2. Knows(session'[w], history'[session'[w].call.task])
      BY DEF HistoryInv
    <2> QED
      BY <2>1, <2>2
  <1>6. /\ ledger[c.task] = Entries(h)
        /\ Len(Entries(h)) = Len(h)
        /\ DOMAIN Entries(h) = DOMAIN h
        /\ \A i \in DOMAIN h : Entries(h)[i] = EntryOf(h[i])
    BY <1>3, LedgerOf DEF LedgerInv
  <1>7. n \in DOMAIN Entries(h) /\ Entries(h)[n].content = r.view.content
    <2>1. ViewOf(r.view, h)
      BY <1>5 DEF Knows
    <2>2. n \in DOMAIN h /\ r.view.content = h[n].content
      BY <2>1 DEF ViewOf
    <2> HIDE DEF h, n
    <2> QED BY <1>6, <2>2 DEF EntryOf
  <1>8. h \in Seq(Event)
    BY <1>3 DEF LedgerInv, HistoryInv, TypeInv, JournalTyped
  <1>9. Ledger!Grants(c, Entries(h), n)
    <2>1. CASE c.op = "checkpoint"
      <3>1. Committed(c, h) /\ n = c.expected + 1
        BY <1>5, <2>1 DEF Knows
      <3> QED
        <4>1. n \in DOMAIN h /\ h[n].content = c.content /\ h[n].state = c.state
          BY <3>1 DEF Committed
        <4>2. Entries(h)[n].content = c.content /\ Entries(h)[n].state = c.state
          <5> HIDE DEF h, n, c
          <5> QED BY <1>6, <4>1 DEF EntryOf
        <4> QED BY <2>1, <3>1, <4>2 DEF Ledger!Grants
    <2>2. CASE c.op = "adopt"
      <3>1. AdoptedAs(c, h) /\ n = Len(Entries(h))
        BY <1>5, <1>6, <2>2 DEF Knows
      <3>2. 1 \in DOMAIN h /\ 2 \in DOMAIN h /\ Len(h) >= 2
        <4> HIDE DEF h
        <4>1. 2 \in DOMAIN h
          BY <3>1 DEF AdoptedAs
        <4> QED BY <1>8, <4>1
      <3>3. Entries(h)[1].goal = c.goal
        <4>1. h[1].goal = c.goal
          BY <3>1 DEF AdoptedAs
        <4> HIDE DEF h
        <4> QED BY <1>6, <3>2, <4>1 DEF EntryOf
      <3>4. /\ Entries(h)[1].content = h[1].content
            /\ Entries(h)[2].content = h[2].content
        <4> HIDE DEF h
        <4> QED BY <1>6, <3>2 DEF EntryOf
      <3>5. Ledger!Adopted(Entries(h)) = c.content
        BY <1>6, <3>1, <3>2, <3>4 DEF AdoptedAs, InitialContent, ContentAt, Ledger!Adopted
      <3> HIDE DEF h, n, c
      <3> QED
        BY <1>6, <2>2, <3>1, <3>2, <3>3, <3>5 DEF Ledger!Grants
    <2>3. CASE c.op \notin {"checkpoint", "adopt"}
      <3>1. c.op = "resume"
        BY <1>3, <2>3, CallFields
      <3> QED
        BY <1>6, <3>1 DEF Ledger!Grants
    <2> QED
      BY <2>1, <2>2, <2>3
  <1>10. Ledger!Confirm(w)
    <2> HIDE DEF h, n
    <2>1. answer' = [answer EXCEPT ![w] = [verdict |-> "ok", revision |-> n,
                                           content |-> Entries(h)[n].content]]
      BY <1>1, <1>2, <1>7
    <2> HIDE DEF c
    <2> QED
      BY <1>1, <1>2, <1>3, <1>4, <1>6, <1>7, <1>9, <2>1 DEF Ledger!Confirm, h
  <1> QED
    BY <1>10 DEF LedgerStep, Ledger!LedgerNext

\* r is what session s may become: it keeps its promises, and a recovery view it
\* returns is of the last revision.
Fits(r, s, o, h) ==
  /\ r.call = s.call
  /\ Promises(r, o)
  /\ Succeeded(r) /\ r.call.op # "checkpoint" => r.view.revision = Len(h)
  /\ Succeeded(r) /\ r.call.op = "resume" => r.call.expected \in {0, r.view.revision}

\* A step of a running call that leaves the history alone.
LEMMA QuietStepRefines ==
  ASSUME LedgerInv, HistoryInv', NEW w \in Worker, NEW r, Become(w, r), UNCHANGED history,
         objects \subseteq objects', session[w].pc \notin {"idle", "replied"},
         Fits(r, session[w], objects', history[session[w].call.task])
  PROVE  LedgerInv' /\ LedgerStep
  <1>1. LedgerInv'
    BY PromisesKept, EvidenceKept DEF LedgerInv, Fits
  <1>2. r.call = session[w].call
    BY DEF Fits
  <1>3. CASE r.pc # "replied"
    BY <1>1, <1>2, <1>3, GoesOn
  <1>4. CASE r.pc = "replied" /\ r.raised # "none"
    BY <1>1, <1>2, <1>4, IsRefused
  <1>5. CASE Succeeded(r)
    <2>1. /\ r.call.op # "checkpoint" => r.view.revision = Len(history[r.call.task])
          /\ r.call.op = "resume" => r.call.expected \in {0, r.view.revision}
      BY <1>2, <1>5 DEF Fits
    <2> QED BY <1>1, <1>2, <1>5, <2>1, IsConfirmed
  <1> QED
    BY <1>1, <1>3, <1>4, <1>5 DEF Succeeded

\* A call that goes on to a step without obligations of its own.
LEMMA GoingOnFits ==
  ASSUME NEW r, NEW s, NEW o, NEW h, r.call = s.call,
         r.pc \notin {"idle", "create", "append", "release", "handoff", "replied"},
         r.call.op = "checkpoint" => r.raised = "none" /\ (r.wrote => r.pc = "readback")
  PROVE  Fits(r, s, o, h)
  BY DEF Fits, Promises, Unreported, Succeeded

\* A call may always answer with an error, unless it is a checkpoint that wrote and
\* the error is not that of a read.
LEMMA AnswerFits ==
  ASSUME NEW s \in Session, NEW error, error # "none", NEW o, NEW h,
         s.call.op = "checkpoint" => ~s.wrote \/ error \in ReadError
  PROVE  Fits(Answer(s, error), s, o, h)
  <1> DEFINE r == Answer(s, error)
  <1>1. r.pc = "replied" /\ r.raised = error /\ r.call = s.call
    BY DEF Answer, Forgotten, Session
  <1>2. s.call.op = "checkpoint" => ~r.wrote \/ error \in ReadError
    <2>1. r.wrote = s.wrote
      BY DEF Answer, Forgotten, Session
    <2> HIDE DEF r
    <2> QED BY <2>1, Zenon
  <1> HIDE DEF r
  <1>3. r.call.op = "checkpoint" => Unreported(r)
    BY <1>1, <1>2, Zenon DEF Unreported
  <1>4. Fits(r, s, o, h)
    BY <1>1, <1>3 DEF Fits, Promises, Succeeded
  <1> QED
    BY <1>4 DEF r

\* The same of an error that adopt() may catch.
LEMMA RaiseFits ==
  ASSUME NEW s \in Session, NEW error, error # "none", NEW o, NEW h,
         s.call.op = "checkpoint" => ~s.wrote
  PROVE  Fits(Raise(s, error), s, o, h)
  <1> DEFINE r == [Forgotten(s) EXCEPT !.pc = "converge", !.raised = error]
  <1>1. r.pc = "converge" /\ r.raised = error /\ r.call = s.call
    BY DEF Forgotten, Session
  <1>2. CASE s.call.op = "adopt" /\ error \in Converging
    <2>1. Raise(s, error) = r
      BY <1>2 DEF Raise
    <2>2. s.call.op # "checkpoint"
      BY <1>2
    <2> HIDE DEF r
    <2> QED
      BY <1>1, <2>1, <2>2, GoingOnFits
  <1>3. CASE ~(s.call.op = "adopt" /\ error \in Converging)
    BY <1>3, AnswerFits DEF Raise
  <1> QED
    BY <1>2, <1>3

\* The same of an error that releases the lease first.
LEMMA UnwindFits ==
  ASSUME NEW s \in Session, NEW error, NEW o, NEW h,
         s.call.op = "checkpoint" => ~s.wrote
  PROVE  Fits(Unwind(s, error), s, o, h)
  <1> DEFINE r == Unwind(s, error)
  <1>1. r.pc = "release" /\ r.call = s.call
    BY DEF Unwind, Session
  <1>2. s.call.op = "checkpoint" => ~r.wrote
    <2>1. r.wrote = s.wrote
      BY DEF Unwind, Session
    <2> HIDE DEF r
    <2> QED BY <2>1, Zenon
  <1> HIDE DEF r
  <1>3. r.call.op = "checkpoint" => Unreported(r)
    BY <1>1, <1>2, Zenon DEF Unreported
  <1>4. Fits(r, s, o, h)
    BY <1>1, <1>3 DEF Fits, Promises, Succeeded
  <1> QED
    BY <1>4 DEF r

\* A completed checkpoint answers with the revision it wrote or recognised.
LEMMA CompleteFits ==
  ASSUME NEW s \in Session, s.call \in WriterCall, NEW g, NEW n, NEW o, NEW h,
         s.call.op = "checkpoint" => s.raised = "none"
  PROVE  Fits(Complete(s, g, n), s, o, h)
  <1> DEFINE v == [revision |-> n, handoff |-> n, state |-> s.call.state,
                   content |-> ContentAt(g, n)]
             resumes == [Forgotten(s) EXCEPT !.pc = "resume"]
             replies == [Forgotten(s) EXCEPT !.pc = "replied", !.view = v]
  <1>1. CASE s.call.op = "adopt"
    <2>1. resumes.pc = "resume" /\ resumes.call = s.call
      BY DEF Forgotten, Session
    <2>2. Complete(s, g, n) = resumes
      BY <1>1 DEF Complete
    <2> HIDE DEF resumes
    <2> QED
      BY <1>1, <2>1, <2>2, GoingOnFits
  <1>2. CASE s.call.op # "adopt"
    <2>1. s.call.op = "checkpoint"
      BY <1>2, WriterFields
    <2>2. replies.pc = "replied" /\ replies.call = s.call /\ replies.raised = s.raised
      <3> HIDE DEF v
      <3> QED BY DEF Forgotten, Session
    <2>3. Complete(s, g, n) = replies
      BY <1>2 DEF Complete
    <2> HIDE DEF replies, v
    <2>4. Succeeded(replies)
      BY <2>1, <2>2 DEF Succeeded
    <2> QED
      BY <2>1, <2>2, <2>3, <2>4 DEF Fits, Promises, Unreported
  <1> QED
    BY <1>1, <1>2

\* A checkpoint call has written nothing until it reads back.
LEMMA NotYetWritten ==
  ASSUME LedgerInv, NEW w \in Worker, session[w].call.op = "checkpoint",
         session[w].pc \notin {"readback", "replied"}
  PROVE  ~session[w].wrote
  BY Zenon DEF LedgerInv, Promises, Unreported, Succeeded

\* Nothing is in flight in a checkpoint call before its body fails.
LEMMA NotYetRaised ==
  ASSUME LedgerInv, NEW w \in Worker, session[w].call.op = "checkpoint",
         session[w].pc \notin {"release", "replied"}
  PROVE  session[w].raised = "none"
  BY DEF LedgerInv, Promises, Unreported

-----------------------------------------------------------------------------
\* What a running call is known to be.
LEMMA Running ==
  ASSUME LedgerInv, NEW w \in Worker
  PROVE  /\ WellFormed(session[w])
         /\ session[w] \in Session
         /\ Promises(session[w], objects)
         /\ Knows(session[w], history[session[w].call.task])
         /\ session[w].pc # "idle" => session[w].call \in Call
         /\ session[w].pc \in AdoptLabel => session[w].call.op = "adopt"
         /\ session[w].pc \in WriterLabel => session[w].call \in WriterCall
  <1>1. WellFormed(session[w]) /\ session[w] \in Session
    BY DEF LedgerInv, HistoryInv, TypeInv, SessionsWellFormed
  <1>2. session[w].pc \in AdoptLabel => session[w].call.op = "adopt"
    BY <1>1 DEF WellFormed, AdoptCall
  <1> QED
    BY <1>1, <1>2 DEF WellFormed, LedgerInv, HistoryInv

\* The reads of adopt(), and its writes to the CAS.
LEMMA AdoptStepsRefine ==
  ASSUME LedgerInv, HistoryInv', NEW w \in Worker,
         AdoptEntry(w) \/ SeedObjects(w) \/ AdoptCreated(w) \/ Converge(w)
  PROVE  LedgerInv' /\ LedgerStep
  <1> DEFINE s == session[w]
             c == s.call
             h == history[c.task]
  <1>1. s \in Session /\ Promises(s, objects) /\ Knows(s, h)
    BY Running
  <1>2. /\ s.pc \in AdoptLabel /\ s.pc \notin {"idle", "replied"}
        /\ UNCHANGED history /\ objects \subseteq objects'
    BY DEF AdoptEntry, SeedObjects, AdoptCreated, Converge, At, AdoptLabel, Local
  <1>3. c.op = "adopt"
    BY <1>2, Running
  <1>4. ASSUME NEW r, Become(w, r), Fits(r, s, objects', h) PROVE LedgerInv' /\ LedgerStep
    BY <1>2, <1>4, QuietStepRefines
  <1>5. ASSUME NEW r, Become(w, r), r.call = c, r.pc \in {"seed", "checkpoint", "resume"}
        PROVE  LedgerInv' /\ LedgerStep
    <2>1. Fits(r, s, objects', h)
      BY <1>3, <1>5, GoingOnFits
    <2> QED BY <1>4, <1>5, <2>1
  <1>6. ASSUME NEW error, error # "none", Become(w, Answer(s, error))
        PROVE  LedgerInv' /\ LedgerStep
    <2>1. Fits(Answer(s, error), s, objects', h)
      BY <1>1, <1>3, <1>6, AnswerFits
    <2> QED BY <1>4, <1>6, <2>1
  <1>7. CASE AdoptExisting(w)
    <2> DEFINE route == AdoptRoute(c, HistoryOf(w))
               r == [s EXCEPT !.pc = route]
    <2>1. route # "none"
      BY DEF AdoptRoute
    <2>2. CASE route \in {"checkpoint", "resume"}
      <3>1. Become(w, r)
        BY <1>7, <2>2 DEF AdoptExisting
      <3>2. r.call = c /\ r.pc = route
        BY <1>1 DEF Session
      <3> QED BY <1>5, <2>2, <3>1, <3>2
    <2>3. CASE route \notin {"checkpoint", "resume"}
      <3>1. Become(w, Answer(s, route))
        BY <1>7, <2>3 DEF AdoptExisting
      <3> QED BY <1>6, <2>1, <3>1
    <2> QED BY <2>2, <2>3
  <1>8. CASE AdoptEntry(w)
    <2> DEFINE r == [s EXCEPT !.pc = "seed"]
    <2>1. AdoptExisting(w) \/ Become(w, r)
      BY <1>8 DEF AdoptEntry
    <2>2. r.call = c /\ r.pc = "seed"
      BY <1>1 DEF Session
    <2> QED BY <1>5, <1>7, <2>1, <2>2
  <1>9. CASE SeedObjects(w)
    <2> DEFINE e == [kind |-> "created", goal |-> c.goal, content |-> c.content,
                     state |-> "READY", at |-> clock]
               r == [s EXCEPT !.pc = "create", !.draft = e]
    <2>1. Become(w, r) /\ objects' = objects \cup Evidence(c.task, e)
      BY <1>9 DEF SeedObjects, CallOf
    <2>2. e.goal = c.goal /\ e.content = c.content /\ e.state = "READY"
      OBVIOUS
    <2> HIDE DEF e
    <2>3. r.call = c /\ r.pc = "create" /\ r.draft = e
      BY <1>1 DEF Session
    <2> HIDE DEF r
    <2>4. Evidence(c.task, e) \subseteq objects'
      <3> HIDE DEF c
      <3> QED BY <2>1
    <2>5. Fits(r, s, objects', h)
      BY <1>3, <2>2, <2>3, <2>4 DEF Fits, Promises, Succeeded
    <2> QED BY <1>4, <2>1, <2>5
  <1>10. CASE Converge(w)
    <2> DEFINE r == [s EXCEPT !.pc = "resume", !.raised = "none"]
    <2>1. s.raised # "none"
      BY <1>1, <1>10 DEF Converge, At, Knows
    <2>2. Become(w, r) \/ Become(w, Answer(s, s.raised))
      BY <1>10 DEF Converge
    <2>3. r.call = c /\ r.pc = "resume"
      BY <1>1 DEF Session
    <2> HIDE DEF r
    <2> QED BY <1>5, <1>6, <2>1, <2>2, <2>3
  <1> QED
    BY <1>7, <1>8, <1>9, <1>10 DEF AdoptCreated

\* The steps of checkpoint() that write no event.
LEMMA CheckpointStepsRefine ==
  ASSUME LedgerInv, HistoryInv', NEW w \in Worker,
         \/ CheckpointEntry(w) \/ ReadClock(w) \/ AcquireLease(w) \/ ReadProjection(w)
         \/ ReadHead(w) \/ PutObjects(w) \/ ReleaseLease(w) \/ ReadBack(w)
  PROVE  LedgerInv' /\ LedgerStep
  <1> DEFINE s == session[w]
             c == s.call
             h == history[c.task]
  <1>1. s \in Session /\ Promises(s, objects) /\ Knows(s, h)
    BY Running
  <1>2. /\ s.pc \in WriterLabel \ {"append"} /\ s.pc \notin {"idle", "replied"}
        /\ UNCHANGED history /\ objects \subseteq objects'
    BY DEF CheckpointEntry, ReadClock, AcquireLease, ReadProjection, ReadHead, PutObjects,
           ReleaseLease, ReadBack, At, WriterLabel, Local
  <1>3. c \in WriterCall
    BY <1>2, Running
  <1>4. /\ c.op = "checkpoint" /\ s.pc # "readback" => ~s.wrote
        /\ c.op = "checkpoint" /\ s.pc # "release" => s.raised = "none"
    BY <1>2, NotYetWritten, NotYetRaised
  <1>5. ASSUME NEW r, Become(w, r), Fits(r, s, objects', h) PROVE LedgerInv' /\ LedgerStep
    BY <1>2, <1>5, QuietStepRefines
  <1>6. ASSUME NEW error, error # "none", s.pc # "readback",
               \/ Become(w, Answer(s, error)) \/ Become(w, Raise(s, error))
               \/ Become(w, Unwind(s, error))
        PROVE  LedgerInv' /\ LedgerStep
    <2>1. /\ Fits(Answer(s, error), s, objects', h)
          /\ Fits(Raise(s, error), s, objects', h)
          /\ Fits(Unwind(s, error), s, objects', h)
      BY <1>1, <1>4, <1>6, AnswerFits, RaiseFits, UnwindFits
    <2> HIDE DEF s, h
    <2> QED BY <1>5, <1>6, <2>1
  <1>7. ASSUME NEW g, NEW n, s.pc # "release", Become(w, Complete(s, g, n))
        PROVE  LedgerInv' /\ LedgerStep
    <2>1. Fits(Complete(s, g, n), s, objects', h)
      BY <1>1, <1>3, <1>4, <1>7, CompleteFits
    <2> QED BY <1>5, <1>7, <2>1
  <1>8. ASSUME NEW r, Become(w, r), s.pc \notin {"readback", "release"}, r.call = c,
               r.pc \in {"clock", "acquire", "projection", "head", "put"},
               r.raised = s.raised, c.op = "checkpoint" => ~r.wrote
        PROVE  LedgerInv' /\ LedgerStep
    <2>1. Fits(r, s, objects', h)
      BY <1>4, <1>8, GoingOnFits
    <2> QED BY <1>5, <1>8, <2>1
  <1>9. CASE CheckpointEntry(w)
    <2> DEFINE r == [s EXCEPT !.pc = "clock"]
    <2>1. s.pc = "checkpoint"
      BY <1>9 DEF CheckpointEntry, At
    <2>2. \/ \E error : error # "none" /\ (\/ Become(w, Answer(s, error))
                                           \/ Become(w, Raise(s, error)))
          \/ Become(w, Complete(s, HistoryOf(w), Len(HistoryOf(w))))
          \/ Become(w, r)
      BY <1>9 DEF CheckpointEntry
    <2>3. r.call = c /\ r.pc = "clock" /\ r.raised = s.raised /\ r.wrote = s.wrote
      BY <1>1 DEF Session
    <2> HIDE DEF r
    <2>4. c.op = "checkpoint" => ~r.wrote
      BY <1>4, <2>1, <2>3, Zenon
    <2> QED BY <1>6, <1>7, <1>8, <2>1, <2>2, <2>3, <2>4
  <1>10. CASE ReadClock(w)
    <2> DEFINE r == [s EXCEPT !.pc = "acquire", !.now = clock]
    <2>1. s.pc = "clock" /\ Become(w, r)
      BY <1>10 DEF ReadClock, At
    <2>2. r.call = c /\ r.pc = "acquire" /\ r.raised = s.raised /\ r.wrote = s.wrote
      BY <1>1 DEF Session
    <2> HIDE DEF r
    <2>3. c.op = "checkpoint" => ~r.wrote
      BY <1>4, <2>1, <2>2, Zenon
    <2> QED BY <1>8, <2>1, <2>2, <2>3
  <1>11. CASE AcquireLease(w)
    <2> DEFINE lease == NextLease(c.task, FreshOwner(w, c.task), s.now)
               r == [s EXCEPT !.pc = "projection", !.lease = lease, !.now = 0]
    <2>1. s.pc = "acquire" /\ (Become(w, r) \/ Become(w, Raise(s, "LeaseHeld")))
      BY <1>11 DEF AcquireLease, At
    <2> HIDE DEF lease
    <2>2. r.call = c /\ r.pc = "projection" /\ r.raised = s.raised /\ r.wrote = s.wrote
      BY <1>1 DEF Session
    <2> HIDE DEF r
    <2>3. c.op = "checkpoint" => ~r.wrote
      BY <1>4, <2>1, <2>2, Zenon
    <2> QED BY <1>6, <1>8, <2>1, <2>2, <2>3
  <1>12. CASE ReadProjection(w)
    <2> DEFINE r == [s EXCEPT !.pc = "head"]
    <2>1. /\ s.pc = "projection"
          /\ \/ Become(w, Unwind(s, "TaskRevisionMismatch"))
             \/ Become(w, Unwind(s, "TaskStateMismatch"))
             \/ Become(w, r)
      BY <1>12 DEF ReadProjection, At
    <2>2. r.call = c /\ r.pc = "head" /\ r.raised = s.raised /\ r.wrote = s.wrote
      BY <1>1 DEF Session
    <2> HIDE DEF r
    <2>3. c.op = "checkpoint" => ~r.wrote
      BY <1>4, <2>1, <2>2, Zenon
    <2> QED BY <1>6, <1>8, <2>1, <2>2, <2>3
  <1>13. CASE ReadHead(w)
    <2> DEFINE head == HeadOf(HistoryOf(w))
               r == [s EXCEPT !.pc = "put", !.head = head]
    <2>1. /\ s.pc = "head"
          /\ \/ Become(w, Unwind(s, "TaskProjectionDrift"))
             \/ Become(w, r)
      BY <1>13 DEF ReadHead, At
    <2> HIDE DEF head
    <2>2. r.call = c /\ r.pc = "put" /\ r.raised = s.raised /\ r.wrote = s.wrote
      BY <1>1 DEF Session
    <2> HIDE DEF r
    <2>3. c.op = "checkpoint" => ~r.wrote
      BY <1>4, <2>1, <2>2, Zenon
    <2> QED BY <1>6, <1>8, <2>1, <2>2, <2>3
  <1>14. CASE PutObjects(w)
    <2> DEFINE d == Draft(s)
               r == [s EXCEPT !.pc = "append", !.draft = d, !.head = NoEvent]
    <2>1. /\ s.pc = "put" /\ Become(w, r)
          /\ objects' = objects \cup Evidence(c.task, d)
      BY <1>14 DEF PutObjects, At
    <2> HIDE DEF d
    <2>2. /\ r.call = c /\ r.pc = "append" /\ r.draft = d
          /\ r.raised = s.raised /\ r.wrote = s.wrote
      BY <1>1 DEF Session
    <2> HIDE DEF r
    <2>3. c.op = "checkpoint" => ~r.wrote
      BY <1>4, <2>1, <2>2, Zenon
    <2>4. c.op = "checkpoint" => Unreported(r)
      <3>1. c.op = "checkpoint" => r.raised = "none"
        BY <1>4, <2>1, <2>2
      <3> QED BY <2>3, <3>1, Zenon DEF Unreported
    <2>5. Evidence(c.task, d) \subseteq objects'
      <3> HIDE DEF c
      <3> QED BY <2>1
    <2>6. Fits(r, s, objects', h)
      BY <2>2, <2>4, <2>5 DEF Fits, Promises, Succeeded
    <2> QED BY <1>5, <2>1, <2>6
  <1>15. CASE ReleaseLease(w)
    <2>1. s.pc = "release" /\ Become(w, Raise(s, s.raised))
      BY <1>15 DEF ReleaseLease, At
    <2>2. s.raised # "none"
      BY <1>1, <2>1 DEF Knows
    <2> QED BY <1>6, <2>1, <2>2
  <1>16. CASE ReadBack(w)
    <2>1. s.pc = "readback" /\ Become(w, Complete(s, HistoryOf(w), c.expected + 1))
      BY <1>16 DEF ReadBack, At, CallOf
    <2> QED BY <1>7, <2>1
  <1> QED
    BY <1>9, <1>10, <1>11, <1>12, <1>13, <1>14, <1>15, <1>16

\* The reads of resume().
LEMMA ResumeStepsRefine ==
  ASSUME LedgerInv, HistoryInv', NEW w \in Worker, ResumeEntry(w) \/ Handoff(w)
  PROVE  LedgerInv' /\ LedgerStep
  <1> DEFINE s == session[w]
             c == s.call
             h == history[c.task]
             n == Len(h)
  <1>1. s \in Session /\ Promises(s, objects) /\ Knows(s, h)
    BY Running
  <1>2. /\ s.pc \in {"resume", "handoff"} /\ s.pc \notin {"idle", "replied"}
        /\ UNCHANGED history /\ objects \subseteq objects'
    BY DEF ResumeEntry, Handoff, At, Local
  <1>3. c \in Call /\ c.op # "checkpoint" /\ HistoryOf(w) = h
    BY <1>1, <1>2, Running DEF Knows, HistoryOf
  <1>4. ASSUME NEW r, Become(w, r), Fits(r, s, objects', h) PROVE LedgerInv' /\ LedgerStep
    BY <1>2, <1>4, QuietStepRefines
  <1>5. ASSUME NEW error, error # "none", Become(w, Answer(s, error))
        PROVE  LedgerInv' /\ LedgerStep
    <2>1. Fits(Answer(s, error), s, objects', h)
      BY <1>1, <1>3, <1>5, AnswerFits
    <2> QED BY <1>4, <1>5, <2>1
  <1>6. CASE ResumeEntry(w)
    <2> DEFINE state == HeadOf(h).state
               r == [s EXCEPT !.pc = "handoff", !.view.revision = n, !.view.state = state]
    <2>1. \/ \E error : error # "none" /\ Become(w, Answer(s, error))
          \/ (c.op = "resume" => c.expected \in {0, n}) /\ Become(w, r)
      BY <1>3, <1>6 DEF ResumeEntry
    <2>2. CASE (c.op = "resume" => c.expected \in {0, n}) /\ Become(w, r)
      <3> HIDE DEF n, state
      <3>1. r.pc = "handoff" /\ r.call = c /\ r.view.revision = n
        BY <1>1 DEF Session, View
      <3> HIDE DEF r
      <3>2. Fits(r, s, objects', h)
        BY <1>3, <2>2, <3>1 DEF Fits, Promises, Succeeded
      <3> QED BY <1>4, <2>2, <3>2
    <2> QED BY <1>5, <2>1, <2>2
  <1>7. CASE Handoff(w)
    <2> DEFINE content == ContentAt(h, s.view.revision)
               r == [s EXCEPT !.pc = "replied", !.view.handoff = n, !.view.content = content]
    <2>1. \/ Become(w, Answer(s, "ValueError"))
          \/ n = s.view.revision /\ Become(w, r)
      BY <1>3, <1>7 DEF Handoff
    <2>2. CASE n = s.view.revision /\ Become(w, r)
      <3>1. s.pc = "handoff"
        BY <1>7 DEF Handoff, At
      <3>2. c.op = "resume" => c.expected \in {0, n}
        BY <1>1, <2>2, <3>1 DEF Promises
      <3> HIDE DEF content, n
      <3>3. r.pc = "replied" /\ r.call = c /\ r.view.revision = s.view.revision
        BY <1>1 DEF Session, View
      <3> HIDE DEF r
      <3>4. r.view.revision = Len(h) /\ (c.op = "resume" => c.expected \in {0, r.view.revision})
        BY <2>2, <3>2, <3>3 DEF n
      <3>5. Fits(r, s, objects', h)
        BY <1>3, <3>3, <3>4 DEF Fits, Promises, Succeeded
      <3> QED BY <1>4, <2>2, <3>5
    <2> QED BY <1>5, <2>1, <2>2
  <1> QED
    BY <1>6, <1>7

-----------------------------------------------------------------------------
\* An event that is created is an entry more.
LEMMA LedgerGrows ==
  ASSUME HistoryInv, NEW t \in Task, NEW e \in Event,
         history' = [history EXCEPT ![t] = Append(@, e)]
  PROVE  ledger' = [ledger EXCEPT ![t] = Append(@, EntryOf(e))]
  <1>1. history \in [Task -> Seq(Event)]
    BY DEF HistoryInv, TypeInv, JournalTyped
  <1>2. ledger' = [u \in Task |-> Entries(history'[u])]
    BY DEF ledger, Entries, EntryOf
  <1>3. \A u \in Task : history'[u] = IF u = t THEN Append(history[t], e) ELSE history[u]
    BY <1>1
  <1>4. Entries(Append(history[t], e)) = Append(Entries(history[t]), EntryOf(e))
    BY <1>1, EntriesAppend
  <1>5. ledger = [u \in Task |-> Entries(history[u])]
    BY DEF ledger
  <1>6. \A u \in Task : ledger'[u] = [ledger EXCEPT ![t] = Append(@, EntryOf(e))][u]
    <2> TAKE u \in Task
    <2>1. CASE u = t
      <3>1. ledger'[u] = Entries(Append(history[t], e))
        BY <1>2, <1>3, <2>1
      <3>2. ledger[u] = Entries(history[t])
        BY <1>5, <2>1
      <3> QED BY <1>4, <1>5, <2>1, <3>1, <3>2
    <2>2. CASE u # t
      <3>1. ledger'[u] = Entries(history[u])
        BY <1>2, <1>3, <2>2
      <3> QED BY <1>5, <2>2, <3>1
    <2> QED BY <2>1, <2>2
  <1> QED
    BY <1>2, <1>5, <1>6

\* An event whose objects are stored keeps every event's objects stored.
LEMMA EvidenceGrows ==
  ASSUME HistoryInv, EvidenceIsStored, NEW t \in Task, NEW e \in Event,
         history' = [history EXCEPT ![t] = Append(@, e)],
         UNCHANGED objects, Evidence(t, e) \subseteq objects
  PROVE  EvidenceIsStored'
  <1>1. history \in [Task -> Seq(Event)]
    BY DEF HistoryInv, TypeInv, JournalTyped
  <1>2. \A u \in Task : history'[u] = IF u = t THEN Append(history[t], e) ELSE history[u]
    BY <1>1
  <1>3. ASSUME NEW u \in Task, NEW i \in DOMAIN history'[u]
        PROVE  Evidence(u, history'[u][i]) \subseteq objects
    <2>1. CASE u # t
      BY <1>2, <1>3, <2>1 DEF EvidenceIsStored
    <2>2. CASE u = t
      <3> DEFINE h == history[t]
      <3>1. h \in Seq(Event) /\ history'[u] = Append(h, e)
        BY <1>1, <1>2, <2>2
      <3>2. (i \in DOMAIN h /\ history'[u][i] = h[i]) \/ history'[u][i] = e
        <4> HIDE DEF h
        <4>1. i \in 1..(Len(h) + 1) /\ DOMAIN h = 1..Len(h) /\ Len(h) \in Nat
          BY <1>3, <3>1
        <4>2. i \in 1..Len(h) \/ i = Len(h) + 1
          BY <4>1
        <4> QED
          BY <3>1, <4>1, <4>2
      <3> QED
        BY <2>2, <3>2 DEF EvidenceIsStored
    <2> QED
      BY <2>1, <2>2
  <1>4. EvidenceIsStored' <=> \A u \in Task : \A i \in DOMAIN history'[u] :
                                 Evidence(u, history'[u][i]) \subseteq objects'
    BY DEF EvidenceIsStored, Evidence, DescriptorObject, CheckpointObject
  <1> QED
    BY <1>3, <1>4

\* The creation of a Task.
LEMMA CreateTaskRefines ==
  ASSUME LedgerInv, HistoryInv', NEW w \in Worker, CreateTask(w)
  PROVE  LedgerInv' /\ LedgerStep
  <1> DEFINE s == session[w]
             c == s.call
             t == c.task
             h == history[t]
             outcome == AppendOutcome(t, 0, s.draft, NoLease)
             r == [s EXCEPT !.pc = "require", !.draft = NoEvent,
                            !.wrote = (outcome = "created")]
  <1>1. /\ WellFormed(s) /\ s \in Session /\ Promises(s, objects)
        /\ s.pc = "create" /\ s.pc \notin {"idle", "replied"}
    BY Running DEF CreateTask, At
  <1>2. c.op = "adopt" /\ c \in Call /\ t \in Task /\ s.draft \in Event
    BY <1>1, Running, CallFields DEF WellFormed, AdoptLabel
  <1>3. h \in Seq(Event)
    BY <1>2 DEF LedgerInv, HistoryInv, TypeInv, JournalTyped
  <1>4. AppendTaskEvent(t, 0, s.draft, NoLease) /\ Become(w, r) /\ UNCHANGED objects
    BY DEF CreateTask, AppendTaskEvent, WriteTaskEvent
  <1>5. r.pc = "require" /\ r.call = c
    <2> HIDE DEF outcome
    <2> QED BY <1>1 DEF Session
  <1> HIDE DEF r
  <1>6. Fits(r, s, objects', h)
    BY <1>2, <1>5, GoingOnFits
  <1>7. CASE outcome # "created"
    <2>1. UNCHANGED history
      BY <1>4, <1>7 DEF AppendTaskEvent, WriteTaskEvent
    <2> QED
      BY <1>1, <1>4, <1>6, <2>1, QuietStepRefines
  <1>8. CASE outcome = "created"
    <2>1. history' = [history EXCEPT ![t] = Append(@, s.draft)]
      BY <1>4, <1>8 DEF AppendTaskEvent, WriteTaskEvent
    <2>2. Evidence(t, s.draft) \subseteq objects
      BY <1>1 DEF Promises
    <2>3. LedgerInv'
      <3>1. EvidenceIsStored'
        BY <1>2, <1>4, <2>1, <2>2, EvidenceGrows DEF LedgerInv
      <3> QED
        BY <1>4, <1>6, <3>1, PromisesKept DEF Fits
    <2>4. /\ request' = [request EXCEPT ![w] = c]
          /\ answer' = [answer EXCEPT ![w] = Told(r)]
          /\ request[w] = c
          /\ answer[w] = Told(s)
      BY <1>4, <1>5, Mirrored DEF LedgerInv
    <2>5. Told(r) = Ledger!Pending /\ Told(s) = Ledger!Pending
      BY <1>1, <1>5, Tells
    <2>6. request' = request /\ answer' = answer
      BY <2>4, <2>5 DEF request, answer
    <2>7. h = <<>>
      <3>1. Len(h) = 0
        BY <1>8, CreatedFollowsHead
      <3> QED BY <1>3, <3>1
    <2>8. ledger[t] = <<>>
      BY <1>2, <2>7, LedgerOf, EntriesOfNone DEF LedgerInv
    <2>9. EntryOf(s.draft) = Ledger!Entry(c.goal, c.content, "READY")
      BY <1>1 DEF Promises, EntryOf, Ledger!Entry
    <2>10. ledger' = [ledger EXCEPT ![t] = <<EntryOf(s.draft)>>]
      <3>1. ledger' = [ledger EXCEPT ![t] = Append(@, EntryOf(s.draft))]
        BY <1>2, <2>1, LedgerGrows DEF LedgerInv
      <3> DEFINE x == EntryOf(s.draft)
      <3> HIDE DEF x
      <3>2. Append(<<>>, x) = <<x>>
        OBVIOUS
      <3> QED BY <2>8, <3>1, <3>2 DEF x
    <2>11. c # NoCall
      BY <1>2, CallsAreNotNone
    <2>12. Ledger!Establish(w)
      BY <1>2, <2>4, <2>5, <2>6, <2>8, <2>9, <2>10, <2>11 DEF Ledger!Establish
    <2> QED
      BY <2>3, <2>12 DEF LedgerStep, Ledger!LedgerNext
  <1> QED
    BY <1>7, <1>8

\* An append that adds a checkpoint to a Task.
LEMMA AppendRefines ==
  ASSUME LedgerInv, HistoryInv', NEW w \in Worker, AppendCheckpoint(w)
  PROVE  LedgerInv' /\ LedgerStep
  <1> DEFINE s == session[w]
             c == s.call
             t == c.task
             h == history[t]
             outcome == AppendOutcome(t, c.expected, s.draft, s.lease)
             wrote == s.wrote \/ outcome = "created"
             r == [s EXCEPT !.pc = "readback", !.lease = NoLease,
                            !.draft = NoEvent, !.wrote = wrote]
  <1>1. /\ WellFormed(s) /\ s \in Session /\ Promises(s, objects) /\ Knows(s, h)
        /\ s.pc = "append" /\ s.pc \notin {"idle", "replied"}
    BY Running DEF AppendCheckpoint, At
  <1>2. /\ c \in WriterCall /\ c \in Call /\ c.op \in {"adopt", "checkpoint"}
        /\ c.expected \in Nat \ {0} /\ t \in Task /\ s.draft \in Event
    BY <1>1, Running, CallFields, WriterFields DEF WellFormed, WriterLabel
  <1>3. h \in Seq(Event) /\ Stream(h)
    BY <1>2 DEF LedgerInv, HistoryInv, TypeInv, JournalTyped
  <1>4. AppendTaskEvent(t, c.expected, s.draft, s.lease) /\ UNCHANGED objects
    BY DEF AppendCheckpoint, AppendTaskEvent, WriteTaskEvent
  <1>5. /\ outcome \in Admitted => Become(w, r)
        /\ outcome \notin Admitted => Become(w, Unwind(s, outcome))
    BY DEF AppendCheckpoint
  <1>6. r.pc = "readback" /\ r.call = c /\ r.raised = s.raised
    <2> HIDE DEF wrote
    <2> QED BY <1>1 DEF Session
  <1> HIDE DEF r
  <1>7. Fits(r, s, objects', h)
    <2>1. c.op = "checkpoint" => r.raised = "none"
      BY <1>1, <1>6, NotYetRaised
    <2> QED BY <1>6, <2>1, GoingOnFits
  <1>8. Fits(Unwind(s, outcome), s, objects', h)
    <2>1. c.op = "checkpoint" => ~s.wrote
      BY <1>1, NotYetWritten
    <2> QED BY <1>1, <2>1, UnwindFits
  <1>9. CASE outcome # "created"
    <2>1. UNCHANGED history
      BY <1>4, <1>9 DEF AppendTaskEvent, WriteTaskEvent
    <2> QED
      BY <1>1, <1>4, <1>5, <1>7, <1>8, <2>1, QuietStepRefines
  <1>10. CASE outcome = "created"
    <2>1. history' = [history EXCEPT ![t] = Append(@, s.draft)]
      BY <1>4, <1>10 DEF AppendTaskEvent, WriteTaskEvent
    <2>2. Become(w, r)
      BY <1>5, <1>10 DEF Admitted
    <2>3. LedgerInv'
      <3>1. Evidence(t, s.draft) \subseteq objects
        BY <1>1 DEF Promises
      <3>2. EvidenceIsStored'
        BY <1>2, <1>4, <2>1, <3>1, EvidenceGrows DEF LedgerInv
      <3> QED
        BY <1>4, <1>7, <2>2, <3>2, PromisesKept DEF Fits
    <2>4. /\ request' = [request EXCEPT ![w] = c]
          /\ answer' = [answer EXCEPT ![w] = Told(r)]
          /\ request[w] = c
          /\ answer[w] = Told(s)
      BY <1>6, <2>2, Mirrored DEF LedgerInv
    <2>5. Told(r) = Ledger!Pending /\ Told(s) = Ledger!Pending
      BY <1>1, <1>6, Tells
    <2>6. request' = request /\ answer' = answer
      BY <2>4, <2>5 DEF request, answer
    <2>7. c # NoCall
      BY <1>2, CallsAreNotNone
    <2>8. Len(h) = c.expected /\ ~Terminal(h[Len(h)].state)
      BY <1>2, <1>10, CreatedFollowsHead DEF HeadOf
    <2>9. Len(h) \in DOMAIN h /\ 1 \in DOMAIN h
      <3> HIDE DEF h, c
      <3> QED BY <1>2, <1>3, <2>8
    <2>10. h[Len(h)].state = "READY"
      <3>1. h[Len(h)] \in Event
        BY <1>3, <2>9
      <3> QED BY <2>8, <3>1 DEF Event, TaskState, Terminal
    <2> DEFINE l == ledger[t]
    <2>11. /\ Len(l) = Len(h) /\ l = Entries(h)
           /\ l[Len(h)] = EntryOf(h[Len(h)])
           /\ l[1] = EntryOf(h[1])
      BY <1>2, <2>9, LedgerOf DEF LedgerInv
    <2>12. l[Len(h)].state = "READY" /\ l[1].goal = h[1].goal /\ l[1].content = h[1].content
      BY <2>10, <2>11 DEF EntryOf
    <2>13. l # <<>>
      <3>1. l \in Seq(AnyEntry)
        BY <1>3, <2>11, EntriesAre
      <3> HIDE DEF l, h, c
      <3> QED BY <1>2, <2>8, <2>11, <3>1
    <2>14. Ledger!Open(l)
      BY <2>11, <2>12, <2>13 DEF Ledger!Open
    <2>15. c.op = "adopt" => l[1].goal = c.goal /\ l[1].content \in {NoContent, c.content}
      <3>1. c.op = "adopt" => Seeded(c, h)
        BY <1>1 DEF Knows, WriterLabel
      <3> QED BY <2>12, <3>1 DEF Seeded
    <2>16. /\ s.draft.goal = h[1].goal
           /\ s.draft.content = c.content /\ s.draft.state = c.state
      <3>1. /\ s.draft.goal = h[c.expected].goal /\ c.expected \in DOMAIN h
            /\ s.draft.content = c.content /\ s.draft.state = c.state
        BY <1>1 DEF Knows
      <3>2. h[c.expected].goal = h[1].goal
        BY <1>3, <3>1 DEF Stream
      <3> QED BY <3>1, <3>2
    <2>17. EntryOf(s.draft) = Ledger!Entry(l[1].goal, c.content, c.state)
      BY <2>12, <2>16 DEF EntryOf, Ledger!Entry
    <2>18. ledger' = [ledger EXCEPT ![t] = Append(@, EntryOf(s.draft))]
      BY <1>2, <2>1, LedgerGrows DEF LedgerInv
    <2>19. Len(l) = c.expected
      BY <2>8, <2>11
    <2>20. Ledger!Advance(w)
      <3> HIDE DEF c
      <3> QED
        BY <1>2, <2>4, <2>5, <2>6, <2>7, <2>14, <2>15, <2>17, <2>18, <2>19 DEF Ledger!Advance
    <2> QED
      BY <2>3, <2>20 DEF LedgerStep, Ledger!LedgerNext
  <1> QED
    BY <1>9, <1>10

\* A request is asked, repeated or left.
LEMMA ClientStepsRefine ==
  ASSUME LedgerInv, HistoryInv', NEW w \in Worker,
         Begin(w) \/ Deliver(w) \/ Retry(w) \/ Crash(w)
  PROVE  LedgerInv' /\ LedgerStep
  <1> DEFINE s == session[w]
  <1>1. s \in Session /\ Promises(s, objects)
    BY Running
  <1>2. UNCHANGED history /\ UNCHANGED objects
    BY DEF Begin, Deliver, Retry, Crash, Local, journalVars
  <1>3. ASSUME NEW r, Become(w, r), Promises(r, objects) PROVE LedgerInv'
    BY <1>2, <1>3, PromisesKept, EvidenceKept DEF LedgerInv
  <1>4. ledger' = ledger
    BY <1>2, SameLedger
  <1>5. ASSUME NEW r, Become(w, r)
        PROVE  /\ request' = [request EXCEPT ![w] = r.call]
               /\ answer' = [answer EXCEPT ![w] = Told(r)]
               /\ request[w] = s.call
               /\ answer[w] = Told(s)
    BY <1>5, Mirrored DEF LedgerInv
  <1>6. ASSUME NEW c \in Call
        PROVE  /\ Promises(Starting(c), objects)
               /\ Starting(c).call = c
               /\ Told(Starting(c)) = Ledger!Pending
    <2> DEFINE r == Starting(c)
    <2>1. r.pc = c.op /\ r.call = c /\ r.raised = "none" /\ r.wrote = FALSE
      BY DEF Starting, Idle
    <2>2. c.op \in {"adopt", "checkpoint", "resume"}
      BY CallFields
    <2> HIDE DEF r
    <2>3. Promises(r, objects) /\ Told(r) = Ledger!Pending
      <3>1. Unreported(r)
        BY <2>1, <2>2 DEF Unreported
      <3> QED BY <2>1, <2>2, <3>1, Tells DEF Promises
    <2> QED BY <2>1, <2>3 DEF r
  <1>7. ASSUME Become(w, Idle) PROVE LedgerInv' /\ LedgerStep
    <2>1. Idle.pc = "idle" /\ Idle.call = NoCall /\ Idle.raised = "none"
      BY DEF Idle
    <2>2. NoCall.op = "none"
      BY DEF NoCall
    <2>3. Promises(Idle, objects)
      BY <2>1, <2>2 DEF Promises
    <2>4. Told(Idle) = Ledger!Pending
      BY <2>1, Tells
    <2>5. Ledger!Leave(w)
      BY <1>4, <1>5, <1>7, <2>1, <2>4 DEF Ledger!Leave
    <2> QED BY <1>3, <1>7, <2>3, <2>5 DEF LedgerStep, Ledger!LedgerNext
  <1>8. CASE Begin(w)
    <2>1. PICK c \in Call : Become(w, Starting(c))
      BY <1>8 DEF Begin
    <2>2. s.pc = "idle" /\ s.call = NoCall
      BY <1>1, <1>8 DEF Begin, At, Promises
    <2>3. Told(s) = Ledger!Pending
      BY <2>2, Tells
    <2>4. /\ request' = [request EXCEPT ![w] = c]
          /\ answer' = [answer EXCEPT ![w] = Ledger!Pending]
          /\ request[w] = NoCall
          /\ answer[w] = Ledger!Pending
      BY <1>5, <1>6, <2>1, <2>2, <2>3
    <2>5. answer' = answer
      BY <2>4 DEF answer
    <2>6. Ledger!Ask(w)
      BY <1>4, <2>4, <2>5 DEF Ledger!Ask
    <2> QED BY <1>3, <1>6, <2>1, <2>6 DEF LedgerStep, Ledger!LedgerNext
  <1>9. CASE Retry(w)
    <2>1. s.pc = "replied" /\ s.raised # "none" /\ Become(w, Starting(s.call))
      BY <1>9 DEF Retry, At, Busy, CallOf
    <2>2. s.call \in Call
      BY <2>1, Running
    <2>3. Told(s) = Ledger!Refused
      BY <2>1, Tells
    <2>4. /\ request' = [request EXCEPT ![w] = s.call]
          /\ answer' = [answer EXCEPT ![w] = Ledger!Pending]
          /\ request[w] = s.call
          /\ answer[w] = Ledger!Refused
      BY <1>5, <1>6, <2>1, <2>2, <2>3
    <2>5. request' = request
      BY <2>4 DEF request
    <2>6. Ledger!AskAgain(w)
      BY <1>4, <2>4, <2>5 DEF Ledger!AskAgain
    <2> QED BY <1>3, <1>6, <2>1, <2>2, <2>6 DEF LedgerStep, Ledger!LedgerNext
  <1> QED
    BY <1>7, <1>8, <1>9 DEF Deliver, Crash

\* A transaction that fails is a refusal, now or after the lease is released.
LEMMA FailureRefines ==
  ASSUME LedgerInv, HistoryInv', NEW w \in Worker, TransactionFails(w)
  PROVE  LedgerInv' /\ LedgerStep
  <1> DEFINE s == session[w]
             h == history[s.call.task]
             error == "OperationalError"
  <1>1. s \in Session
    BY Running
  <1>2. /\ s.pc \in {"create", "acquire", "append", "release"}
        /\ s.pc \notin {"idle", "readback", "replied"}
        /\ Become(w, Answer(s, error)) \/ Become(w, Unwind(s, error))
        /\ UNCHANGED history /\ UNCHANGED objects
    BY DEF TransactionFails
  <1>3. s.call.op = "checkpoint" => ~s.wrote
    BY <1>2, NotYetWritten
  <1>4. Fits(Answer(s, error), s, objects', h) /\ Fits(Unwind(s, error), s, objects', h)
    BY <1>1, <1>3, AnswerFits, UnwindFits
  <1> HIDE DEF h, error
  <1> QED
    BY <1>2, <1>4, QuietStepRefines DEF h

\* A read that fails is a refusal too, and the only one after the append.
LEMMA FailedReadRefines ==
  ASSUME LedgerInv, HistoryInv', NEW w \in Worker, ReadFails(w)
  PROVE  LedgerInv' /\ LedgerStep
  <1> DEFINE s == session[w]
             h == history[s.call.task]
  <1>1. s \in Session
    BY Running
  <1>2. PICK error \in ReadError :
          /\ s.pc \in Readable \cup {"seed"}
          /\ Become(w, IF s.pc \in {"head", "put"} THEN Unwind(s, error)
                       ELSE Answer(s, error))
    BY DEF ReadFails
  <1>3. s.pc \notin {"idle", "replied"} /\ error # "none"
    BY <1>2 DEF Readable, ReadError, Corrupted
  <1>4. UNCHANGED history /\ UNCHANGED objects
    BY DEF ReadFails
  <1>5. Fits(Answer(s, error), s, objects', h)
    BY <1>1, <1>2, <1>3, AnswerFits
  <1>6. ASSUME s.pc \in {"head", "put"} PROVE Fits(Unwind(s, error), s, objects', h)
    <2>1. s.call.op = "checkpoint" => ~s.wrote
      BY <1>6, NotYetWritten
    <2> QED BY <1>1, <2>1, UnwindFits
  <1>7. CASE s.pc \in {"head", "put"}
    <2>1. Become(w, Unwind(s, error))
      BY <1>2, <1>7
    <2> HIDE DEF h
    <2> QED BY <1>3, <1>4, <1>6, <1>7, <2>1, QuietStepRefines DEF h
  <1>8. CASE s.pc \notin {"head", "put"}
    <2>1. Become(w, Answer(s, error))
      BY <1>2, <1>8
    <2> HIDE DEF h
    <2> QED BY <1>3, <1>4, <1>5, <2>1, QuietStepRefines DEF h
  <1> QED
    BY <1>7, <1>8

\* Init is an initial ledger.
LEMMA InitLedger ==
  ASSUME Init PROVE LedgerInv /\ Ledger!LedgerInit
  <1>1. HistoryInv
    BY InitHistory
  <1>2. PICK g \in Goal, old \in SUBSET LegacyTask :
          /\ history = [t \in Task |-> IF t \in old THEN <<LegacyCreation(g)>> ELSE <<>>]
          /\ objects = UNION {Evidence(t, LegacyCreation(g)) : t \in old}
    BY DEF Init
  <1>3. session = [w \in Worker |-> Idle]
    BY DEF Init
  <1>4. EvidenceIsStored
    <2> HIDE DEF Evidence, LegacyCreation
    <2> QED BY <1>2 DEF EvidenceIsStored
  <1>5. Idle.pc = "idle" /\ Idle.call = NoCall /\ NoCall.op = "none"
    BY DEF Idle, NoCall
  <1>6. \A w \in Worker : Promises(session[w], objects)
    BY <1>3, <1>5 DEF Promises
  <1>7. request = [w \in Worker |-> NoCall]
    BY <1>3, <1>5 DEF request
  <1>8. answer = [w \in Worker |-> Ledger!Pending]
    BY <1>3, <1>5, Tells DEF answer
  <1> DEFINE x == Ledger!Entry(g, NoContent, "READY")
  <1>9. Entries(<<LegacyCreation(g)>>) = <<x>>
    <2> DEFINE e == LegacyCreation(g)
    <2>1. e \in Event
      BY DEF LegacyCreation, Event, TaskState
    <2>2. EntryOf(e) = x
      BY DEF LegacyCreation, EntryOf, Ledger!Entry
    <2> HIDE DEF e, x
    <2>3. Append(<<>>, e) = <<e>> /\ Append(<<>>, x) = <<x>> /\ <<>> \in Seq(Event)
      OBVIOUS
    <2>4. Entries(Append(<<>>, e)) = Append(<<>>, x)
      BY <2>1, <2>2, <2>3, EntriesAppend, EntriesOfNone
    <2> QED BY <2>3, <2>4 DEF e
  <1>10. ledger = [t \in Task |-> IF t \in old THEN <<x>> ELSE <<>>]
    <2>1. \A t \in Task : Entries(history[t]) = IF t \in old THEN <<x>> ELSE <<>>
      BY <1>2, <1>9, EntriesOfNone
    <2> HIDE DEF x
    <2> QED BY <2>1 DEF ledger
  <1> QED
    BY <1>1, <1>4, <1>6, <1>7, <1>8, <1>10 DEF LedgerInv, Ledger!LedgerInit

\* Every step keeps the invariant and is a step of the ledger or none.
LEMMA StepRefines ==
  ASSUME LedgerInv, [Next]_vars PROVE LedgerInv' /\ LedgerStep
  <1>1. HistoryInv'
    BY StepKeepsHistory DEF LedgerInv
  <1>2. ASSUME UNCHANGED <<history, session, objects>> PROVE LedgerInv' /\ LedgerStep
    <2>1. LedgerInv'
      <3>1. EvidenceIsStored'
        BY <1>2, EvidenceKept DEF LedgerInv
      <3> QED BY <1>1, <1>2, <3>1 DEF LedgerInv
    <2>2. ledger' = ledger /\ request' = request /\ answer' = answer
      BY <1>2, SameLedger DEF request, answer, Told
    <2> QED BY <2>1, <2>2 DEF LedgerStep, Ledger!ledgerVars
  <1>3. ASSUME NEW w \in Worker, Run(w) PROVE LedgerInv' /\ LedgerStep
    BY <1>1, <1>3, AdoptStepsRefine, CreateTaskRefines, CheckpointStepsRefine,
       AppendRefines, ResumeStepsRefine DEF Run
  <1>4. CASE Next
    <2>1. Tick \/ ClockStepsBack => UNCHANGED <<history, session, objects>>
      BY DEF Tick, ClockStepsBack
    <2> QED
      BY <1>1, <1>2, <1>3, <1>4, <2>1, ClientStepsRefine, FailureRefines, FailedReadRefines
         DEF Next
  <1>5. CASE UNCHANGED vars
    BY <1>2, <1>5 DEF vars
  <1> QED
    BY <1>4, <1>5

-----------------------------------------------------------------------------
\* In every behaviour sessions keep their promises.
THEOREM PromisesAreKept == Spec => []LedgerInv
  BY InitLedger, StepRefines, PTL DEF Spec

\* Every event's objects are in the CAS (storage.py record_task_event puts before
\* it appends).
THEOREM EvidenceStays == Spec => []EvidenceIsStored
  BY PromisesAreKept, PTL DEF LedgerInv

\* A checkpoint that is told not_committed, by anything but a damaged object or
\* Journal, committed nothing (mcp_server.py _error_result): the errors of a damaged
\* object, which the read-back raises after the append, are the only exception.
THEOREM RefusalsAreHonest == Spec => []RefusalsCommitNothing
  <1>1. LedgerInv => RefusalsCommitNothing
    <2> SUFFICES ASSUME LedgerInv, NEW w \in Worker,
                        session[w].call.op = "checkpoint",
                        ToldNotCommitted(session[w]), session[w].raised \notin Corrupted
                 PROVE  ~session[w].wrote
      BY Zenon DEF RefusalsCommitNothing
    <2>1. /\ session[w].pc = "replied" /\ session[w].raised # "none"
          /\ session[w].raised # "ObjectMissing"
      BY DEF ToldNotCommitted, CommitUnknown
    <2>2. session[w].raised \notin ReadError
      BY <2>1 DEF ReadError
    <2>3. Unreported(session[w])
      BY DEF LedgerInv, Promises
    <2> QED
      BY <2>1, <2>2, <2>3, Zenon DEF Unreported, Succeeded
  <1> QED
    BY <1>1, PromisesAreKept, PTL

\* External continuity implements the ledger of checkpoints (continuity.py).
THEOREM ContinuityImplementsLedger == Spec => ImplementsLedger
  <1>1. LedgerInv /\ [Next]_vars => [Ledger!LedgerNext]_(Ledger!ledgerVars)
    BY StepRefines DEF LedgerStep
  <1>2. Init => Ledger!LedgerInit
    BY InitLedger
  <1> QED
    BY <1>1, <1>2, PromisesAreKept, PTL DEF Spec, ImplementsLedger, Ledger!LedgerSpec
=============================================================================
