-------------------------- MODULE Extensions_proofs --------------------------
(***************************************************************************)
(* Why no update of a namespace is lost, and why the views of its state    *)
(* and of the namespaces of a Task are of one revision, for any number of  *)
(* components, Tasks, namespaces and revisions.                            *)
(***************************************************************************)
EXTENDS Extensions, SequenceTheorems, WellFoundedInduction, TLAPS

EventId == ({"created"} \X {1}) \cup ({"core"} \X Nat) \cup (Namespace \X Update)
EventRecord ==
  [kind: {"created", "core", "extension"}, id: EventId, ns: Namespace \cup {NoNamespace},
   update: Update \cup {NoUpdate}, owned: SUBSET Field, data: SUBSET Field,
   state: TaskState, at: Nat]
CallRecord ==
  [op: {"none", "extend", "core", "inspect", "route"}, task: Task \cup {NoOwner},
   expected: Nat, ns: Namespace \cup {NoNamespace}, update: Update \cup {NoUpdate},
   state: TaskState]
Loaded == {"clock", "acquire", "projection", "head", "stamp"}
Writing == Loaded \cup {"load", "state", "append"}
Inspecting == {"before", "pointer", "after"}
Routing == {"route", "handoff", "durable", "visible"}
SessionRecord ==
  [pc: Writing \cup Inspecting \cup Routing \cup {"idle", "release", "replied"},
   call: CallRecord, now: Nat, lease: Lease \cup {NoLease}, loaded: Nat,
   owned: SUBSET Field, draft: EventRecord, attempt: Nat, pointer: Nat,
   names: SUBSET Namespace]

TypeOK ==
  /\ clock \in Nat
  /\ history \in [Task -> Seq(EventRecord)]
  /\ leases \in [Task -> Lease \cup {NoLease}]
  /\ pointers \in [Task -> [Namespace -> Nat]]
  /\ session \in [Worker -> SessionRecord]

\* A stream begins with its creation, and extension events have an owner.
Owned(h) ==
  /\ Len(h) > 0 /\ h[1].kind = "created"
  /\ \A i \in DOMAIN h : h[i].kind = "extension" => h[i].ns \in Namespace

\* The events of namespace n up to revision r, and the last of them, or 0.
Own(h, n, r) == {i \in 1..r : h[i].kind = "extension" /\ h[i].ns = n}
IsLast(h, n, r, p) ==
  \/ p = 0 /\ Own(h, n, r) = {}
  \/ p \in Own(h, n, r) /\ \A j \in Own(h, n, r) : j <= p
PointersAreLast ==
  \A t \in Task : \A n \in Namespace :
    IsLast(history[t], n, Len(history[t]), pointers[t][n])

\* What a caller merges his update into, when nothing was committed since.
MergedHead(h, c) == Merged(Retained(h, LastOf(h, c.ns, Len(h))), c.update)

\* A call that writes has loaded the revision it expects or a later one, and as
\* long as the Task has not moved on, what it has merged is right.
WriterKnows(s, h) ==
  LET c == s.call IN
  s.pc \in Writing =>
    /\ c.op \in {"extend", "core"} /\ c.expected \in 1..Len(h)
    /\ c.op = "extend" => c.ns \in Namespace /\ c.update \in Update
    /\ s.pc \in {"load", "state"} => c.op = "extend"
    /\ c.op = "extend" /\ s.pc \in Loaded \cup {"state"} => s.loaded \in c.expected..Len(h)
    /\ c.op = "extend" /\ s.pc \in Loaded /\ Len(h) = s.loaded => s.owned = MergedHead(h, c)
DraftIsFaithful(s, h) ==
  LET c == s.call
      e == s.draft
  IN  s.pc = "append" =>
        /\ c.op = "core" => e.kind = "core"
        /\ c.op = "extend" => e.kind = "extension" /\ e.ns = c.ns /\ e.update = c.update
        /\ c.op = "extend" /\ Len(h) = c.expected =>
             /\ e.owned = MergedHead(h, c)
             /\ e.state = h[c.expected].state
             /\ e.data = (h[c.expected].data \ c.update.remove) \cup e.owned

\* A reader has read the state of the revision its pointer names, and of the
\* revision it loaded if the Task has not moved on.
ReaderKnows(s, h) ==
  LET c == s.call IN
  /\ s.pc \in Inspecting => c.op = "inspect"
  /\ s.pc \in Routing => c.op = "route"
  /\ c.op \in {"inspect", "route"} => c.ns \in Namespace /\ s.loaded <= Len(h)
  /\ c.op = "inspect" /\ s.pc \in {"after", "replied"} =>
       s.pointer <= Len(h) /\ s.owned = Retained(h, s.pointer)
  /\ c.op = "inspect" /\ (s.pc = "replied" \/ (s.pc = "after" /\ Len(h) = s.loaded)) =>
       s.pointer = LastOf(h, c.ns, s.loaded)
  /\ s.pc = "visible" => Extended(h, s.loaded) \subseteq s.names
  /\ c.op = "route" /\ s.pc = "replied" => s.names = Extended(h, s.loaded)

Knows(s) ==
  s.pc # "idle" =>
    LET h == history[s.call.task]
    IN  /\ s.call.task \in Task
        /\ WriterKnows(s, h) /\ DraftIsFaithful(s, h) /\ ReaderKnows(s, h)

IInv ==
  /\ TypeOK /\ PointersAreLast /\ NoUpdateIsLost
  /\ \A t \in Task : Owned(history[t])
  /\ \A w \in Worker : Knows(session[w])

-----------------------------------------------------------------------------
\* Streams that grow

Grown(h, g) == Len(h) <= Len(g) /\ \A i \in 1..Len(h) : g[i] = h[i]

LEMMA SeqFacts ==
  ASSUME NEW h \in Seq(EventRecord)
  PROVE  /\ Len(h) \in Nat /\ DOMAIN h = 1..Len(h)
         /\ \A i \in 1..Len(h) : h[i] \in EventRecord
  OBVIOUS

LEMMA LastIsLastOf ==
  ASSUME NEW h, NEW n, NEW r \in Nat, NEW p, IsLast(h, n, r, p)
  PROVE  p = LastOf(h, n, r)
  <1> DEFINE own == Own(h, n, r)
  <1>1. LastOf(h, n, r) = IF own = {} THEN 0 ELSE CHOOSE i \in own : \A j \in own : j <= i
    BY DEF LastOf, Own
  <1>2. own \subseteq 1..r BY DEF Own
  <1>3. CASE p = 0 /\ own = {} BY <1>1, <1>3
  <1>4. CASE p \in own /\ \A j \in own : j <= p
    <2> HIDE DEF own
    <2>1. \A i \in own : (\A j \in own : j <= i) => i = p BY <1>2, <1>4
    <2>2. (CHOOSE i \in own : \A j \in own : j <= i) = p BY <1>4, <2>1
    <2> QED BY <1>1, <1>4, <2>2
  <1> QED BY <1>3, <1>4 DEF IsLast

LEMMA LeastNatural ==
  ASSUME NEW T, T \subseteq Nat, T # {}
  PROVE  \E k \in T : \A j \in T : k <= j
  <1> DEFINE R == OpToRel(<, Nat)
  <1>1. IsWellFoundedOn(R, Nat) BY NatLessThanWellFounded
  <1>2. PICK k \in T : \A j \in T : <<j, k>> \notin R BY <1>1, WFMin
  <1>3. ASSUME NEW j \in T PROVE k <= j
    <2>1. ~(j < k) BY <1>2 DEF OpToRel
    <2> QED BY <2>1
  <1> QED BY <1>2, <1>3

LEMMA LastExists ==
  ASSUME NEW h, NEW n, NEW r \in Nat
  PROVE  \E p \in 0..r : IsLast(h, n, r, p)
  <1> DEFINE own == Own(h, n, r)
             T == {k \in Nat : r - k \in own}
  <1>1. own \subseteq 1..r BY DEF Own
  <1>2. CASE own = {} BY <1>2 DEF IsLast
  <1>3. CASE own # {}
    <2>1. PICK i \in own : TRUE BY <1>3
    <2>2. i \in 1..r BY <1>1
    <2>3. r - i \in Nat /\ r - (r - i) = i BY <2>2
    <2>4. r - i \in T BY <2>1, <2>3
    <2>5. PICK k \in T : \A j \in T : k <= j BY <2>4, LeastNatural
    <2>6. r - k \in own /\ k \in Nat BY <2>5
    <2>7. ASSUME NEW j \in own PROVE j <= r - k
      <3>1. j \in 1..r BY <1>1
      <3>2. r - j \in Nat /\ r - (r - j) = j BY <3>1
      <3>3. r - j \in T BY <3>2, <2>7
      <3>4. k <= r - j BY <2>5, <3>3
      <3> QED BY <2>6, <3>1, <3>4
    <2>8. r - k \in 0..r BY <1>1, <2>6
    <2> QED BY <2>6, <2>7, <2>8 DEF IsLast
  <1> QED BY <1>2, <1>3

LEMMA LastOfType ==
  ASSUME NEW h, NEW n, NEW r \in Nat
  PROVE  LastOf(h, n, r) \in 0..r
  BY LastExists, LastIsLastOf

LEMMA GrownKeeps ==
  ASSUME NEW h \in Seq(EventRecord), NEW g \in Seq(EventRecord), Grown(h, g),
         NEW r \in 0..Len(h)
  PROVE  /\ Retained(g, r) = Retained(h, r)
         /\ Extended(g, r) = Extended(h, r)
         /\ \A n : Own(g, n, r) = Own(h, n, r) /\ LastOf(g, n, r) = LastOf(h, n, r)
  <1>1. \A i \in 1..r : g[i] = h[i] BY SeqFacts DEF Grown
  <1>2. Retained(g, r) = Retained(h, r) BY <1>1 DEF Retained
  <1>3. Extended(g, r) = Extended(h, r)
    <2>1. {j \in 1..r : g[j].kind = "extension"} = {j \in 1..r : h[j].kind = "extension"}
      BY <1>1
    <2> QED BY <1>1, <2>1 DEF Extended
  <1>4. ASSUME NEW n PROVE Own(g, n, r) = Own(h, n, r) /\ LastOf(g, n, r) = LastOf(h, n, r)
    <2>1. Own(g, n, r) = Own(h, n, r) BY <1>1 DEF Own
    <2>2. /\ LastOf(g, n, r) = IF Own(g, n, r) = {} THEN 0
                 ELSE CHOOSE i \in Own(g, n, r) : \A j \in Own(g, n, r) : j <= i
          /\ LastOf(h, n, r) = IF Own(h, n, r) = {} THEN 0
                 ELSE CHOOSE i \in Own(h, n, r) : \A j \in Own(h, n, r) : j <= i
      BY DEF LastOf, Own
    <2> QED BY <2>1, <2>2
  <1> QED BY <1>2, <1>3, <1>4

\* The event that is appended is the last of its namespace.
LEMMA AppendFacts ==
  ASSUME NEW h \in Seq(EventRecord), NEW e \in EventRecord, NEW g, g = Append(h, e)
  PROVE  /\ g \in Seq(EventRecord) /\ Len(g) = Len(h) + 1 /\ g[Len(h) + 1] = e
         /\ Grown(h, g) /\ Len(h) \in Nat
  BY DEF Grown

LEMMA AppendLast ==
  ASSUME NEW h \in Seq(EventRecord), NEW e \in EventRecord, NEW g, g = Append(h, e),
         NEW n, NEW p, IsLast(h, n, Len(h), p)
  PROVE  IsLast(g, n, Len(g), IF e.kind = "extension" /\ e.ns = n THEN Len(h) + 1 ELSE p)
  <1>1. /\ Len(h) \in Nat /\ Len(g) = Len(h) + 1 /\ g[Len(h) + 1] = e
        /\ \A i \in 1..Len(h) : g[i] = h[i]
    BY AppendFacts DEF Grown
  <1>2. CASE e.kind = "extension" /\ e.ns = n
    <2>1. Len(h) + 1 \in Own(g, n, Len(g)) BY <1>1, <1>2 DEF Own
    <2>2. \A j \in Own(g, n, Len(g)) : j <= Len(h) + 1 BY <1>1 DEF Own
    <2> QED BY <1>2, <2>1, <2>2 DEF IsLast
  <1>3. CASE ~(e.kind = "extension" /\ e.ns = n)
    <2>1. Own(g, n, Len(g)) = Own(h, n, Len(h)) BY <1>1, <1>3 DEF Own
    <2> QED BY <1>3, <2>1 DEF IsLast
  <1> QED BY <1>2, <1>3

\* What a session knows of a stream holds of a longer one.
LEMMA GrownKnown ==
  ASSUME NEW s \in SessionRecord, NEW h \in Seq(EventRecord), NEW g \in Seq(EventRecord),
         Grown(h, g), WriterKnows(s, h), DraftIsFaithful(s, h), ReaderKnows(s, h)
  PROVE  WriterKnows(s, g) /\ DraftIsFaithful(s, g) /\ ReaderKnows(s, g)
  <1> DEFINE c == s.call
  <1>1. /\ Len(h) \in Nat /\ Len(g) \in Nat /\ Len(h) <= Len(g)
        /\ c.expected \in Nat /\ s.loaded \in Nat /\ s.pointer \in Nat
    BY SeqFacts DEF Grown, SessionRecord, CallRecord
  <1>2. Len(g) = Len(h) => MergedHead(g, c) = MergedHead(h, c)
    <2>1. SUFFICES ASSUME Len(g) = Len(h) PROVE MergedHead(g, c) = MergedHead(h, c)
      OBVIOUS
    <2>2. g = h BY <2>1, SeqEqual DEF Grown
    <2> QED BY <2>2
  <1>3. WriterKnows(s, g)
    <2> SUFFICES ASSUME s.pc \in Writing
        PROVE  /\ c.op \in {"extend", "core"} /\ c.expected \in 1..Len(g)
               /\ c.op = "extend" => c.ns \in Namespace /\ c.update \in Update
               /\ s.pc \in {"load", "state"} => c.op = "extend"
               /\ c.op = "extend" /\ s.pc \in Loaded \cup {"state"} =>
                    s.loaded \in c.expected..Len(g)
               /\ c.op = "extend" /\ s.pc \in Loaded /\ Len(g) = s.loaded =>
                    s.owned = MergedHead(g, c)
      BY DEF WriterKnows
    <2>1. c.expected \in 1..Len(h) BY DEF WriterKnows
    <2>2. c.op = "extend" /\ s.pc \in Loaded \cup {"state"} => s.loaded \in c.expected..Len(h)
      BY DEF WriterKnows
    <2>3. c.op = "extend" /\ s.pc \in Loaded /\ Len(g) = s.loaded => Len(g) = Len(h)
      BY <1>1, <2>2
    <2> QED BY <1>1, <1>2, <2>1, <2>2, <2>3 DEF WriterKnows
  <1>4. DraftIsFaithful(s, g)
    <2>1. s.pc = "append" => c.expected \in 1..Len(h) BY DEF WriterKnows, Writing
    <2>2. s.pc = "append" /\ Len(g) = c.expected =>
            Len(g) = Len(h) /\ g[c.expected] = h[c.expected]
      BY <1>1, <2>1 DEF Grown
    <2> QED BY <1>2, <2>2 DEF DraftIsFaithful
  <1>5. ReaderKnows(s, g)
    <2>1. c.op \in {"inspect", "route"} => s.loaded \in 0..Len(h) BY <1>1 DEF ReaderKnows
    <2>2. c.op = "inspect" /\ s.pc \in {"after", "replied"} => s.pointer \in 0..Len(h)
      BY <1>1 DEF ReaderKnows
    <2>3. c.op = "inspect" /\ s.pc \in {"after", "replied"} =>
            Retained(g, s.pointer) = Retained(h, s.pointer)
      BY <2>2, GrownKeeps
    <2>4. c.op \in {"inspect", "route"} =>
            /\ LastOf(g, c.ns, s.loaded) = LastOf(h, c.ns, s.loaded)
            /\ Extended(g, s.loaded) = Extended(h, s.loaded)
      BY <2>1, GrownKeeps
    <2>5. /\ s.pc \in Inspecting => c.op = "inspect"
          /\ s.pc \in Routing => c.op = "route"
          /\ c.op \in {"inspect", "route"} => c.ns \in Namespace /\ s.loaded <= Len(g)
      BY <1>1 DEF ReaderKnows
    <2>6. c.op = "inspect" /\ s.pc \in {"after", "replied"} =>
            s.pointer <= Len(g) /\ s.owned = Retained(g, s.pointer)
      BY <1>1, <2>3 DEF ReaderKnows
    <2>7. c.op = "inspect" /\ (s.pc = "replied" \/ (s.pc = "after" /\ Len(g) = s.loaded)) =>
            s.pointer = LastOf(g, c.ns, s.loaded)
      BY <1>1, <2>1, <2>4 DEF ReaderKnows
    <2>8. s.pc = "visible" => Extended(g, s.loaded) \subseteq s.names
      BY <2>4 DEF ReaderKnows, Routing
    <2>9. c.op = "route" /\ s.pc = "replied" => s.names = Extended(g, s.loaded)
      BY <2>4 DEF ReaderKnows
    <2> QED BY <2>5, <2>6, <2>7, <2>8, <2>9 DEF ReaderKnows
  <1> QED BY <1>3, <1>4, <1>5

-----------------------------------------------------------------------------
\* Types

LEMMA SetTypes ==
  /\ \A u \in Update : u.add \in SUBSET Field /\ u.remove \in SUBSET Field
  /\ NoUpdate.add = {} /\ NoUpdate.remove = {}
  /\ \A u \in Update \cup {NoUpdate}, x \in SUBSET Field : Merged(x, u) \in SUBSET Field
  BY DEF Update, NoUpdate, Merged

LEMMA CreationType == Creation \in EventRecord /\ Creation.kind = "created"
  <1>1. Creation.id \in EventId BY DEF Creation, EventId
  <1> QED BY <1>1 DEF Creation, EventRecord, TaskState

LEMMA IdleType ==
  /\ NoCall \in CallRecord /\ NoCall.op = "none"
  /\ Idle \in SessionRecord /\ Idle.pc = "idle" /\ Idle.call = NoCall
  <1>1. NoCall \in CallRecord /\ NoCall.op = "none" BY DEF NoCall, CallRecord, TaskState
  <1> QED BY <1>1, CreationType DEF Idle, SessionRecord

LEMMA RetainedType ==
  ASSUME NEW h \in Seq(EventRecord), NEW r \in 0..Len(h)
  PROVE  Retained(h, r) \in SUBSET Field
  <1>1. r # 0 => h[r] \in EventRecord BY SeqFacts
  <1> QED BY <1>1 DEF Retained, EventRecord

\* What TypeOK says of a session and its stream.
LEMMA SessionFacts ==
  ASSUME IInv, NEW w \in Worker, session[w].pc # "idle"
  PROVE  /\ session[w] \in SessionRecord /\ session[w].call \in CallRecord
         /\ session[w].call.task \in Task
         /\ HistoryOf(w) \in Seq(EventRecord) /\ Len(HistoryOf(w)) \in Nat \ {0}
         /\ WriterKnows(session[w], HistoryOf(w))
         /\ DraftIsFaithful(session[w], HistoryOf(w))
         /\ ReaderKnows(session[w], HistoryOf(w))
  <1>1. session[w] \in SessionRecord BY DEF IInv, TypeOK
  <1>2. session[w].call \in CallRecord BY <1>1 DEF SessionRecord
  <1>3. /\ session[w].call.task \in Task
        /\ WriterKnows(session[w], HistoryOf(w))
        /\ DraftIsFaithful(session[w], HistoryOf(w))
        /\ ReaderKnows(session[w], HistoryOf(w))
    BY DEF IInv, Knows, HistoryOf
  <1>4. HistoryOf(w) \in Seq(EventRecord) BY <1>3 DEF HistoryOf, IInv, TypeOK
  <1>5. Len(HistoryOf(w)) > 0 BY <1>3 DEF HistoryOf, IInv, Owned
  <1> QED BY <1>1, <1>2, <1>3, <1>4, <1>5, SeqFacts

\* A session that is idle, or only releases its lease, need not know anything.
LEMMA KnowsNothing ==
  ASSUME NEW s, s.pc = "idle" \/ (s.pc = "release" /\ s.call.op = "none" /\ s.call.task \in Task)
  PROVE  Knows(s)
  BY DEF Knows, WriterKnows, DraftIsFaithful, ReaderKnows, Writing, Loaded, Inspecting, Routing

LEMMA UnwindFacts ==
  ASSUME NEW s \in SessionRecord, s.call.task \in Task
  PROVE  /\ Unwind(s) \in SessionRecord /\ Unwind(s).pc = "release"
         /\ Unwind(s).call.op = "none" /\ Unwind(s).call.task = s.call.task
         /\ Knows(Unwind(s))
  <1> DEFINE c == [NoCall EXCEPT !.task = s.call.task]
  <1>1. c \in CallRecord /\ c.op = "none" /\ c.task = s.call.task
    BY IdleType DEF CallRecord
  <1>2. s.lease \in Lease \cup {NoLease} BY DEF SessionRecord
  <1>3. Unwind(s) = [Idle EXCEPT !.pc = "release", !.lease = s.lease, !.call = c]
    BY DEF Unwind
  <1> HIDE DEF c
  <1>4. /\ Unwind(s) \in SessionRecord /\ Unwind(s).pc = "release"
        /\ Unwind(s).call = c
    BY <1>1, <1>2, <1>3, IdleType DEF SessionRecord
  <1> QED BY <1>1, <1>4, KnowsNothing

-----------------------------------------------------------------------------
\* The invariant holds before the first step.
THEOREM InitInv == Init => IInv
  <1> SUFFICES ASSUME Init PROVE IInv OBVIOUS
  <1> DEFINE first == <<Creation>>
  <1>0. /\ first \in Seq(EventRecord) /\ Len(first) = 1 /\ first[1] = Creation
        /\ DOMAIN first = {1}
    BY CreationType
  <1>1. \A t \in Task : history[t] = first BY DEF Init
  <1> HIDE DEF first
  <1>2. TypeOK
    <2>1. history \in [Task -> Seq(EventRecord)] BY <1>0, <1>1 DEF Init
    <2>2. session \in [Worker -> SessionRecord] BY IdleType DEF Init
    <2> QED BY <2>1, <2>2 DEF Init, TypeOK
  <1>3. ASSUME NEW t \in Task
        PROVE  /\ Len(history[t]) = 1 /\ history[t][1] = Creation
               /\ Owned(history[t]) /\ \A n : Own(history[t], n, 1) = {}
    <2>1. Len(history[t]) = 1 /\ history[t][1] = Creation BY <1>0, <1>1
    <2>2. Creation.kind = "created" BY CreationType
    <2>3. DOMAIN history[t] = {1} BY <1>0, <1>1
    <2> QED BY <2>1, <2>2, <2>3 DEF Owned, Own
  <1>4. PointersAreLast BY <1>3 DEF PointersAreLast, Init, IsLast
  <1>5. NoUpdateIsLost
    <2>1. \A t \in Task : \A i \in DOMAIN history[t] : history[t][i].kind # "extension"
      BY <1>0, <1>1, CreationType
    <2> QED BY <2>1 DEF NoUpdateIsLost
  <1>6. \A w \in Worker : Knows(session[w])
    BY IdleType, KnowsNothing DEF Init
  <1> QED BY <1>2, <1>3, <1>4, <1>5, <1>6 DEF IInv

-----------------------------------------------------------------------------
\* Steps that leave the streams alone

LEMMA SessionStep ==
  ASSUME IInv, NEW w \in Worker, NEW s \in SessionRecord, Become(w, s),
         UNCHANGED <<history, pointers>>, clock' \in Nat,
         leases' \in [Task -> Lease \cup {NoLease}], Knows(s)
  PROVE  IInv'
  <1>1. session' = [session EXCEPT ![w] = s] BY DEF Become
  <1>2. session' \in [Worker -> SessionRecord] BY <1>1 DEF IInv, TypeOK
  <1>3. TypeOK' BY <1>2 DEF IInv, TypeOK
  <1>4. PointersAreLast' BY DEF IInv, PointersAreLast
  <1>5. NoUpdateIsLost' BY DEF IInv, NoUpdateIsLost
  <1>6. \A t \in Task : Owned(history'[t]) BY DEF IInv
  <1>7. ASSUME NEW p \in Worker PROVE Knows(session[p])'
    <2>1. Knows(session'[p])
      <3>1. CASE p = w BY <1>1, <3>1 DEF IInv, TypeOK
      <3>2. CASE p # w BY <1>1, <3>2 DEF IInv, TypeOK
      <3> QED BY <3>1, <3>2
    <2> QED BY <2>1 DEF Knows
  <1> QED BY <1>3, <1>4, <1>5, <1>6, <1>7 DEF IInv

\* ... and the clock and the leases as well.
LEMMA LocalStep ==
  ASSUME IInv, NEW w \in Worker, NEW s \in SessionRecord, Become(w, s), Local, Knows(s)
  PROVE  IInv'
  BY SessionStep DEF Local, IInv, TypeOK

LEMMA IdleStep ==
  ASSUME IInv, NEW w \in Worker, Become(w, Idle), Local
  PROVE  IInv'
  BY IdleType, KnowsNothing, LocalStep

LEMMA UnwindStep ==
  ASSUME IInv, NEW w \in Worker, session[w].pc # "idle", Become(w, Unwind(session[w])), Local
  PROVE  IInv'
  BY SessionFacts, UnwindFacts, LocalStep

LEMMA BeginInv == ASSUME IInv, NEW w \in Worker, Begin(w) PROVE IInv'
  <1>1. PICK t \in Task : \E c \in Call(t) :
          Become(w, [Idle EXCEPT !.call = c,
                    !.pc = CASE c.op = "extend" -> "load"
                             [] c.op = "core" -> "clock"
                             [] c.op = "inspect" -> "before"
                             [] c.op = "route" -> "route"])
    BY DEF Begin
  <1>2. PICK c \in Call(t) :
          Become(w, [Idle EXCEPT !.call = c,
                    !.pc = CASE c.op = "extend" -> "load"
                             [] c.op = "core" -> "clock"
                             [] c.op = "inspect" -> "before"
                             [] c.op = "route" -> "route"])
    BY <1>1
  <1> DEFINE pc == CASE c.op = "extend" -> "load"
                     [] c.op = "core" -> "clock"
                     [] c.op = "inspect" -> "before"
                     [] c.op = "route" -> "route"
             s == [Idle EXCEPT !.call = c, !.pc = pc]
             h == history[t]
  <1>3. h \in Seq(EventRecord) /\ DOMAIN h = 1..Len(h) /\ Len(h) \in Nat
    BY SeqFacts DEF IInv, TypeOK
  <1>4. /\ c \in CallRecord /\ c.task = t /\ c.op \in {"extend", "core", "inspect", "route"}
        /\ c.op \in {"extend", "core"} => c.expected \in 1..Len(h)
        /\ c.op = "extend" => c.ns \in Namespace /\ c.update \in Update
        /\ c.op \in {"inspect", "route"} => c.ns \in Namespace
    <2>1. c \in ExtendCall(t) \cup CoreCall(t) \cup ReadCall(t) BY DEF Call
    <2>2. Seen(h) \subseteq 1..Len(h) /\ Seen(h) \subseteq Nat BY <1>3 DEF Seen
    <2>3. CASE c \in ExtendCall(t)
      BY <2>2, <2>3 DEF ExtendCall, CallRecord, TaskState
    <2>4. CASE c \in CoreCall(t)
      BY <2>2, <2>4 DEF CoreCall, CallRecord, TaskState
    <2>5. CASE c \in ReadCall(t)
      BY <2>2, <2>5 DEF ReadCall, CallRecord, TaskState
    <2> QED BY <2>1, <2>3, <2>4, <2>5
  <1>5. /\ c.op = "extend" => pc = "load"
        /\ c.op = "core" => pc = "clock"
        /\ c.op = "inspect" => pc = "before"
        /\ c.op = "route" => pc = "route"
    OBVIOUS
  <1>6. pc \in {"load", "clock", "before", "route"} BY <1>4, <1>5
  <1> HIDE DEF pc
  <1>7. /\ s \in SessionRecord /\ s.pc = pc /\ s.call = c /\ s.loaded = 0
    BY <1>4, <1>6, IdleType DEF SessionRecord, Writing, Loaded, Inspecting, Routing, Idle
  <1>8. Become(w, s) BY <1>2 DEF pc
  <1> HIDE DEF s
  <1>9. WriterKnows(s, h)
    <2>1. c.op \in {"extend", "core"} <=> pc \in Writing
      BY <1>4, <1>5 DEF Writing, Loaded
    <2>2. c.op = "extend" <=> pc = "load" BY <1>4, <1>5
    <2> QED BY <1>4, <1>6, <1>7, <2>1, <2>2 DEF WriterKnows, Loaded
  <1>10. DraftIsFaithful(s, h) BY <1>6, <1>7 DEF DraftIsFaithful
  <1>11. ReaderKnows(s, h)
    <2>1. pc \in Inspecting => c.op = "inspect" BY <1>4, <1>5, <1>6 DEF Inspecting
    <2>2. pc \in Routing => c.op = "route" BY <1>4, <1>5, <1>6 DEF Routing
    <2> QED BY <1>3, <1>4, <1>6, <1>7, <2>1, <2>2 DEF ReaderKnows
  <1>12. Knows(s) BY <1>4, <1>7, <1>9, <1>10, <1>11 DEF Knows
  <1> QED BY <1>7, <1>8, <1>12, LocalStep DEF Begin

\* The steps of a writer before it has its lease, and after it.
LEMMA LoadInv == ASSUME IInv, NEW w \in Worker, Load(w) PROVE IInv'
  <1> DEFINE x == session[w]
             h == HistoryOf(w)
             s == [x EXCEPT !.pc = "state", !.loaded = Len(h)]
  <1>1. At(w, "load") /\ Become(w, s) /\ Local BY DEF Load
  <1>2. /\ x \in SessionRecord /\ x.call.task \in Task /\ Len(h) \in Nat
        /\ WriterKnows(x, h) /\ x.pc = "load"
    BY <1>1, SessionFacts DEF At
  <1>3. /\ s \in SessionRecord /\ s.pc = "state" /\ s.loaded = Len(h) /\ s.call = x.call
    BY <1>2 DEF SessionRecord, Writing
  <1>4. x.call.op = "extend" /\ x.call.expected \in 1..Len(h) BY <1>2 DEF WriterKnows, Writing
  <1> HIDE DEF s
  <1>5. Knows(s)
    <2>1. WriterKnows(s, h) BY <1>2, <1>3, <1>4 DEF WriterKnows, Writing, Loaded
    <2>2. DraftIsFaithful(s, h) BY <1>3 DEF DraftIsFaithful
    <2>3. ReaderKnows(s, h) BY <1>3, <1>4 DEF ReaderKnows, Inspecting, Routing
    <2> QED BY <1>2, <1>3, <2>1, <2>2, <2>3 DEF Knows, HistoryOf
  <1> QED BY <1>1, <1>3, <1>5, LocalStep

LEMMA LoadNamespaceInv == ASSUME IInv, NEW w \in Worker, LoadNamespace(w) PROVE IInv'
  <1> DEFINE x == session[w]
             h == HistoryOf(w)
             c == x.call
             p == pointers[c.task][c.ns]
             s == [x EXCEPT !.pc = "clock", !.owned = Merged(Retained(h, p), c.update)]
  <1>1. At(w, "state") /\ Become(w, s) /\ Local BY DEF LoadNamespace
  <1>2. /\ x \in SessionRecord /\ c.task \in Task /\ Len(h) \in Nat
        /\ WriterKnows(x, h) /\ x.pc = "state" /\ h \in Seq(EventRecord)
    BY <1>1, SessionFacts DEF At
  <1>3. /\ c.op = "extend" /\ c.expected \in 1..Len(h) /\ c.ns \in Namespace
        /\ c.update \in Update /\ x.loaded \in c.expected..Len(h)
    BY <1>2 DEF WriterKnows, Writing, Loaded
  <1>4. p = LastOf(h, c.ns, Len(h)) /\ p \in 0..Len(h)
    <2>1. IsLast(h, c.ns, Len(h), p) BY <1>2, <1>3 DEF IInv, PointersAreLast, HistoryOf
    <2>2. p = LastOf(h, c.ns, Len(h)) BY <1>2, <2>1, LastIsLastOf
    <2>3. Own(h, c.ns, Len(h)) \subseteq 1..Len(h) BY DEF Own
    <2>4. p = 0 \/ p \in 1..Len(h) BY <2>1, <2>3 DEF IsLast
    <2> HIDE DEF p
    <2> QED BY <1>2, <2>2, <2>4
  <1>5. Merged(Retained(h, p), c.update) \in SUBSET Field
    BY <1>2, <1>3, <1>4, RetainedType, SetTypes
  <1>6. /\ s \in SessionRecord /\ s.pc = "clock" /\ s.call = c /\ s.loaded = x.loaded
        /\ s.owned = MergedHead(h, c)
    <2>1. s.owned = Merged(Retained(h, p), c.update) BY <1>2 DEF SessionRecord
    <2> QED BY <1>2, <1>4, <1>5, <2>1 DEF SessionRecord, Writing, Loaded, MergedHead
  <1> HIDE DEF s
  <1>7. Knows(s)
    <2>1. WriterKnows(s, h) BY <1>3, <1>6 DEF WriterKnows, Writing, Loaded
    <2>2. DraftIsFaithful(s, h) BY <1>6 DEF DraftIsFaithful
    <2>3. ReaderKnows(s, h) BY <1>3, <1>6 DEF ReaderKnows, Inspecting, Routing
    <2> QED BY <1>2, <1>6, <2>1, <2>2, <2>3 DEF Knows, HistoryOf
  <1> QED BY <1>1, <1>6, <1>7, LocalStep

\* A writer that only moves on, with the same call and the same state.
LEMMA WriterMoves ==
  ASSUME IInv, NEW w \in Worker, session[w].pc \in Loaded, NEW s \in SessionRecord,
         s.call = session[w].call, s.loaded = session[w].loaded,
         s.owned = session[w].owned, s.pc \in Loaded
  PROVE  Knows(s)
  <1> DEFINE x == session[w]
             h == HistoryOf(w)
  <1>1. x.pc # "idle" /\ x.pc \in Writing /\ s.pc \in Writing BY DEF Loaded, Writing
  <1>2. x.call.task \in Task /\ WriterKnows(x, h) BY <1>1, SessionFacts
  <1>3. x.call.op \in {"extend", "core"} BY <1>1, <1>2 DEF WriterKnows
  <1>4. WriterKnows(s, h) BY <1>1, <1>2 DEF WriterKnows, Loaded
  <1>5. DraftIsFaithful(s, h) BY DEF DraftIsFaithful, Loaded
  <1>6. ReaderKnows(s, h) BY <1>3 DEF ReaderKnows, Inspecting, Routing, Loaded
  <1> QED BY <1>2, <1>4, <1>5, <1>6 DEF Knows, HistoryOf

LEMMA ReadClockInv == ASSUME IInv, NEW w \in Worker, ReadClock(w) PROVE IInv'
  <1> DEFINE x == session[w]
             s == [x EXCEPT !.pc = "acquire", !.now = clock]
  <1>1. At(w, "clock") /\ Become(w, s) /\ Local BY DEF ReadClock
  <1>2. x \in SessionRecord /\ x.pc = "clock" /\ clock \in Nat
    BY <1>1 DEF At, IInv, TypeOK
  <1>3. /\ s \in SessionRecord /\ s.pc = "acquire" /\ s.call = x.call
        /\ s.loaded = x.loaded /\ s.owned = x.owned
    BY <1>2 DEF SessionRecord, Writing, Loaded
  <1> HIDE DEF s
  <1>4. Knows(s) BY <1>2, <1>3, WriterMoves DEF Loaded
  <1> QED BY <1>1, <1>3, <1>4, LocalStep

LEMMA AcquireLeaseInv == ASSUME IInv, NEW w \in Worker, AcquireLease(w) PROVE IInv'
  <1> DEFINE x == session[w]
             t == x.call.task
             owner == <<w, 0>>
             lease == NextLease(t, owner, x.now)
             s == [x EXCEPT !.pc = "projection", !.lease = lease, !.now = 0]
  <1>1. x \in SessionRecord /\ x.pc = "acquire" /\ t \in Task
    BY SessionFacts DEF AcquireLease, At
  <1>2. UNCHANGED <<clock, history, objects, pointers>> /\ clock \in Nat
    BY DEF AcquireLease, IInv, TypeOK
  <1>3. CASE leases' = [leases EXCEPT ![t] = lease] /\ Become(w, s)
    <2>1. lease \in Lease
      <3>1. leases[t] \in Lease \cup {NoLease} BY <1>1 DEF IInv, TypeOK
      <3>2. leases[t].revision \in Nat BY <3>1 DEF Lease, NoLease
      <3>3. owner \in Owner BY DEF Owner
      <3>4. x.now + TtlMs \in Nat BY <1>1, JournalAssumption DEF SessionRecord
      <3> QED BY <3>2, <3>3, <3>4 DEF NextLease, Lease
    <2>2. leases' \in [Task -> Lease \cup {NoLease}] BY <1>3, <2>1 DEF IInv, TypeOK
    <2> HIDE DEF lease
    <2>3. /\ s \in SessionRecord /\ s.pc = "projection" /\ s.call = x.call
          /\ s.loaded = x.loaded /\ s.owned = x.owned
      BY <1>1, <2>1 DEF SessionRecord, Writing, Loaded
    <2>4. Become(w, s) BY <1>3
    <2> HIDE DEF s
    <2>5. Knows(s) BY <1>1, <2>3, WriterMoves DEF Loaded
    <2> QED BY <1>2, <2>2, <2>3, <2>4, <2>5, SessionStep
  <1>4. CASE Become(w, Idle) /\ UNCHANGED leases
    BY <1>2, <1>4, IdleStep DEF Local
  <1> QED BY <1>3, <1>4 DEF AcquireLease

LEMMA ReadProjectionInv == ASSUME IInv, NEW w \in Worker, ReadProjection(w) PROVE IInv'
  <1> DEFINE x == session[w]
             s == [x EXCEPT !.pc = "head"]
  <1>1. x \in SessionRecord /\ x.pc = "projection" /\ Local
    BY DEF ReadProjection, At, IInv, TypeOK
  <1>2. CASE Become(w, Unwind(x)) BY <1>1, <1>2, UnwindStep
  <1>3. CASE Become(w, s)
    <2>1. /\ s \in SessionRecord /\ s.pc = "head" /\ s.call = x.call
          /\ s.loaded = x.loaded /\ s.owned = x.owned
      BY <1>1 DEF SessionRecord, Writing, Loaded
    <2> HIDE DEF s
    <2>2. Knows(s) BY <1>1, <2>1, WriterMoves DEF Loaded
    <2> QED BY <1>1, <1>3, <2>1, <2>2, LocalStep
  <1> QED BY <1>2, <1>3 DEF ReadProjection

LEMMA ReadHeadInv == ASSUME IInv, NEW w \in Worker, ReadHead(w) PROVE IInv'
  <1> DEFINE x == session[w]
             s == [x EXCEPT !.pc = "stamp"]
  <1>1. x \in SessionRecord /\ x.pc = "head" /\ Local
    BY DEF ReadHead, At, IInv, TypeOK
  <1>2. CASE Become(w, Unwind(x)) BY <1>1, <1>2, UnwindStep
  <1>3. CASE Become(w, s)
    <2>1. /\ s \in SessionRecord /\ s.pc = "stamp" /\ s.call = x.call
          /\ s.loaded = x.loaded /\ s.owned = x.owned
      BY <1>1 DEF SessionRecord, Writing, Loaded
    <2> HIDE DEF s
    <2>2. Knows(s) BY <1>1, <2>1, WriterMoves DEF Loaded
    <2> QED BY <1>1, <1>3, <2>1, <2>2, LocalStep
  <1> QED BY <1>2, <1>3 DEF ReadHead

-----------------------------------------------------------------------------
\* The transaction of a writer

LEMMA DraftInv == ASSUME IInv, NEW w \in Worker, Draft(w) PROVE IInv'
  <1> DEFINE x == session[w]
             c == x.call
             h == HistoryOf(w)
             head == h[c.expected]
             draft == [kind |-> IF c.op = "core" THEN "core" ELSE "extension",
                       id |-> IF c.op = "core" THEN <<"core", c.expected + 1>>
                              ELSE <<c.ns, c.update>>,
                       ns |-> c.ns, update |-> c.update, owned |-> x.owned,
                       data |-> Payload(x, h),
                       state |-> IF c.op = "core" THEN c.state ELSE head.state,
                       at |-> Later(clock, head.at + 1)]
             s == [x EXCEPT !.pc = "append", !.draft = draft, !.owned = {}, !.loaded = 0]
  <1>1. x.pc = "stamp" /\ Local BY DEF Draft, At
  <1>2. /\ x \in SessionRecord /\ c \in CallRecord /\ c.task \in Task
        /\ h \in Seq(EventRecord) /\ Len(h) \in Nat
        /\ WriterKnows(x, h)
    BY <1>1, SessionFacts
  <1>3. /\ c.op \in {"extend", "core"} /\ c.expected \in 1..Len(h)
        /\ c.op = "extend" =>
             /\ c.ns \in Namespace /\ c.update \in Update
             /\ x.loaded \in c.expected..Len(h)
             /\ Len(h) = x.loaded => x.owned = MergedHead(h, c)
    BY <1>1, <1>2 DEF WriterKnows, Writing, Loaded
  <1>4. head \in EventRecord BY <1>2, <1>3, SeqFacts
  <1>5. CASE Become(w, Unwind(x)) BY <1>1, <1>5, UnwindStep
  <1>6. CASE Become(w, s)
    <2>1. Payload(x, h) \in SUBSET Field
      <3>1. CASE c.op = "core" BY <3>1 DEF Payload
      <3>2. CASE c.op = "extend"
        <4>1. h[x.loaded] \in EventRecord
          <5>1. x.loaded \in 1..Len(h) BY <1>2, <1>3, <3>2
          <5> QED BY <1>2, <5>1, SeqFacts
        <4> QED BY <1>2, <3>2, <4>1 DEF Payload, EventRecord, SessionRecord
      <3> QED BY <1>3, <3>1, <3>2
    <2>2. draft \in EventRecord
      <3>1. draft.id \in EventId
        <4>1. c.op = "core" => <<"core", c.expected + 1>> \in {"core"} \X Nat BY <1>3
        <4>2. c.op = "extend" => <<c.ns, c.update>> \in Namespace \X Update BY <1>3
        <4> QED BY <1>3, <4>1, <4>2 DEF EventId
      <3>2. draft.state \in TaskState BY <1>2, <1>4 DEF CallRecord, EventRecord
      <3>3. draft.at \in Nat
        BY <1>4 DEF IInv, TypeOK, EventRecord, Later
      <3>4. /\ draft.kind \in {"created", "core", "extension"}
            /\ draft.ns \in Namespace \cup {NoNamespace}
            /\ draft.update \in Update \cup {NoUpdate}
            /\ draft.owned \in SUBSET Field /\ draft.data \in SUBSET Field
        BY <1>2, <2>1 DEF CallRecord, SessionRecord
      <3> QED BY <3>1, <3>2, <3>3, <3>4 DEF EventRecord
    <2>3. /\ draft.kind = (IF c.op = "core" THEN "core" ELSE "extension")
          /\ draft.ns = c.ns /\ draft.update = c.update /\ draft.owned = x.owned
          /\ draft.data = Payload(x, h)
          /\ draft.state = (IF c.op = "core" THEN c.state ELSE head.state)
      OBVIOUS
    <2> HIDE DEF draft
    <2>4. s \in SessionRecord /\ s.pc = "append" /\ s.draft = draft /\ s.call = c
      BY <1>2, <2>2 DEF SessionRecord, Writing, Loaded
    <2>5. Become(w, s) BY <1>6
    <2> HIDE DEF s
    <2>6. WriterKnows(s, h) BY <1>3, <2>4 DEF WriterKnows, Writing, Loaded
    <2>7. DraftIsFaithful(s, h)
      <3>1. c.op = "extend" /\ Len(h) = c.expected => x.loaded = c.expected BY <1>2, <1>3
      <3>2. c.op = "extend" /\ Len(h) = c.expected =>
              /\ draft.owned = MergedHead(h, c)
              /\ draft.state = h[c.expected].state
              /\ draft.data = (h[c.expected].data \ c.update.remove) \cup draft.owned
        BY <1>3, <2>3, <3>1 DEF Payload
      <3> QED BY <2>3, <2>4, <3>2 DEF DraftIsFaithful
    <2>8. ReaderKnows(s, h) BY <1>3, <2>4 DEF ReaderKnows, Inspecting, Routing
    <2>9. Knows(s) BY <1>2, <2>4, <2>6, <2>7, <2>8 DEF Knows, HistoryOf
    <2> QED BY <1>1, <2>4, <2>5, <2>9, LocalStep
  <1> QED BY <1>5, <1>6 DEF Draft

LEMMA AdmissionFacts ==
  ASSUME NEW t, NEW expected, NEW e, NEW lease, NEW bound, NEW same,
         Admission(t, expected, e, lease, bound, same) = "created"
  PROVE  Len(history[t]) = expected
  BY DEF Admission

\* No update is lost in h (NoUpdateIsLost, for one stream and one event).
KeptAt(h, i) ==
  h[i].kind = "extension" =>
    /\ h[i].owned = Merged(Retained(h, LastOf(h, h[i].ns, i - 1)), h[i].update)
    /\ h[i].state = h[i - 1].state
    /\ h[i].data = (h[i - 1].data \ h[i].update.remove) \cup h[i].owned
Kept(h) == \A i \in DOMAIN h : KeptAt(h, i)

\* A new event keeps every update of its Task: its own, and the earlier ones.
LEMMA NewEventIsFaithful ==
  ASSUME NEW h \in Seq(EventRecord), Owned(h), NEW e \in EventRecord, Kept(h),
         e.kind = "extension" =>
           /\ e.owned = Merged(Retained(h, LastOf(h, e.ns, Len(h))), e.update)
           /\ e.state = h[Len(h)].state
           /\ e.data = (h[Len(h)].data \ e.update.remove) \cup e.owned,
         NEW g, g = Append(h, e)
  PROVE  Kept(g)
  <1>1. /\ g \in Seq(EventRecord) /\ Len(g) = Len(h) + 1 /\ g[Len(h) + 1] = e
        /\ Grown(h, g) /\ Len(h) \in Nat \ {0}
        /\ DOMAIN g = 1..Len(h) + 1 /\ DOMAIN h = 1..Len(h)
    <2>1. /\ g \in Seq(EventRecord) /\ Len(g) = Len(h) + 1 /\ g[Len(h) + 1] = e
          /\ Grown(h, g)
      BY AppendFacts
    <2>2. Len(h) \in Nat /\ DOMAIN g = 1..Len(g) /\ DOMAIN h = 1..Len(h) BY <2>1, SeqFacts
    <2> QED BY <2>1, <2>2 DEF Owned
  <1> SUFFICES ASSUME NEW i \in 1..Len(h) + 1, g[i].kind = "extension" PROVE KeptAt(g, i)
    BY <1>1 DEF Kept, KeptAt
  <1>2. i \in 1..Len(h) => g[i] = h[i] BY <1>1 DEF Grown
  <1>3. i # 1
    <2>1. 1 \in 1..Len(h) BY <1>1
    <2>2. g[1] = h[1] /\ h[1].kind = "created" BY <1>1, <2>1 DEF Grown, Owned
    <2> QED BY <2>2
  <1>4. /\ i - 1 \in 1..Len(h) /\ i - 1 \in 0..Len(h) /\ i - 1 \in Nat
        /\ g[i - 1] = h[i - 1]
    BY <1>1, <1>3 DEF Grown
  <1>5. /\ LastOf(g, g[i].ns, i - 1) = LastOf(h, g[i].ns, i - 1)
        /\ Retained(g, LastOf(g, g[i].ns, i - 1)) = Retained(h, LastOf(h, g[i].ns, i - 1))
    <2> DEFINE l == LastOf(h, g[i].ns, i - 1)
    <2>1. LastOf(g, g[i].ns, i - 1) = l BY <1>1, <1>4, GrownKeeps
    <2>2. l \in 0..(i - 1) BY <1>4, LastOfType
    <2>3. l \in 0..Len(h) BY <1>1, <1>4, <2>2
    <2> HIDE DEF l
    <2>4. Retained(g, l) = Retained(h, l) BY <1>1, <2>3, GrownKeeps
    <2> QED BY <2>1, <2>4 DEF l
  <1>6. CASE i \in 1..Len(h)
    <2>1. g[i] = h[i] /\ KeptAt(h, i) BY <1>1, <1>2, <1>6 DEF Kept
    <2> QED BY <1>4, <1>5, <2>1 DEF KeptAt
  <1>7. CASE i = Len(h) + 1
    <2>1. i - 1 = Len(h) /\ g[i] = e BY <1>1, <1>7
    <2> QED BY <1>4, <1>5, <2>1 DEF KeptAt
  <1> QED BY <1>1, <1>6, <1>7

LEMMA CreateInv ==
  ASSUME IInv, NEW w \in Worker, At(w, "append"),
         LET c == session[w].call
             e == session[w].draft
         IN  /\ Len(HistoryOf(w)) = c.expected
             /\ history' = [history EXCEPT ![c.task] = Append(@, e)]
             /\ leases' = [leases EXCEPT ![c.task] = NoLease]
             /\ pointers' = IF c.op = "extend"
                            THEN [pointers EXCEPT ![c.task][c.ns] = c.expected + 1]
                            ELSE pointers,
         UNCHANGED clock, Become(w, Idle)
  PROVE  IInv'
  <1> DEFINE x == session[w]
             c == x.call
             e == x.draft
             t == c.task
             h == history[t]
  <1>1. /\ x.pc = "append" /\ x \in SessionRecord /\ t \in Task
        /\ h \in Seq(EventRecord) /\ Len(h) \in Nat
        /\ WriterKnows(x, h) /\ DraftIsFaithful(x, h) /\ Len(h) = c.expected
    BY SessionFacts DEF At, HistoryOf
  <1>2. e \in EventRecord /\ c.op \in {"extend", "core"} BY <1>1 DEF SessionRecord, WriterKnows, Writing
  <1>3. /\ c.op = "core" => e.kind = "core"
        /\ c.op = "extend" => /\ e.kind = "extension" /\ e.ns = c.ns /\ e.update = c.update
                              /\ c.ns \in Namespace
                              /\ e.owned = MergedHead(h, c)
                              /\ e.state = h[Len(h)].state
                              /\ e.data = (h[Len(h)].data \ c.update.remove) \cup e.owned
    BY <1>1 DEF DraftIsFaithful, WriterKnows, Writing
  <1> DEFINE g == Append(h, e)
  <1>4. /\ g \in Seq(EventRecord) /\ Len(g) = Len(h) + 1 /\ g[Len(h) + 1] = e
        /\ Grown(h, g)
    <2> HIDE DEF h, e
    <2>1. g = Append(h, e) OBVIOUS
    <2> HIDE DEF g
    <2> QED BY <1>1, <1>2, <2>1, AppendFacts
  <1>5. /\ history'[t] = g /\ \A u \in Task : u # t => history'[u] = history[u]
        /\ history' \in [Task -> Seq(EventRecord)]
    BY <1>1, <1>4 DEF IInv, TypeOK
  <1>6. /\ \A u \in Task : u # t => pointers'[u] = pointers[u]
        /\ \A n \in Namespace :
             pointers'[t][n] = IF e.kind = "extension" /\ e.ns = n THEN Len(h) + 1
                               ELSE pointers[t][n]
        /\ pointers' \in [Task -> [Namespace -> Nat]]
    <2>1. pointers \in [Task -> [Namespace -> Nat]] BY DEF IInv, TypeOK
    <2>2. CASE c.op = "extend"
      <3> DEFINE m == Len(h) + 1
      <3>1. pointers' = [pointers EXCEPT ![t][c.ns] = m] /\ m \in Nat BY <1>1, <2>2
      <3>2. e.kind = "extension" /\ e.ns = c.ns /\ c.ns \in Namespace BY <1>3, <2>2
      <3> HIDE DEF m, h
      <3>3. pointers' \in [Task -> [Namespace -> Nat]] BY <1>1, <2>1, <3>1, <3>2
      <3>4. \A u \in Task : u # t => pointers'[u] = pointers[u] BY <1>1, <2>1, <3>1
      <3>5. \A n \in Namespace :
              pointers'[t][n] = IF e.ns = n THEN m ELSE pointers[t][n]
        BY <1>1, <2>1, <3>1, <3>2
      <3> QED BY <3>2, <3>3, <3>4, <3>5 DEF m
    <2>3. CASE c.op = "core"
      <3>1. e.kind # "extension" /\ pointers' = pointers BY <1>3, <2>3
      <3> QED BY <2>1, <3>1
    <2> QED BY <1>2, <2>2, <2>3
  <1> HIDE DEF g
  <1>7. TypeOK'
    <2>1. leases' \in [Task -> Lease \cup {NoLease}] BY DEF IInv, TypeOK
    <2>2. session' \in [Worker -> SessionRecord] BY IdleType DEF IInv, TypeOK, Become
    <2> QED BY <1>5, <1>6, <2>1, <2>2 DEF IInv, TypeOK
  <1>8. PointersAreLast'
    <2> SUFFICES ASSUME NEW u \in Task, NEW n \in Namespace
                 PROVE  IsLast(history'[u], n, Len(history'[u]), pointers'[u][n])
      BY DEF PointersAreLast
    <2>1. IsLast(history[u], n, Len(history[u]), pointers[u][n])
      BY DEF IInv, PointersAreLast
    <2>2. CASE u # t BY <1>5, <1>6, <2>1, <2>2
    <2>3. CASE u = t
      <3>1. IsLast(g, n, Len(g), IF e.kind = "extension" /\ e.ns = n THEN Len(h) + 1
                                 ELSE pointers[t][n])
        <4> DEFINE q == pointers[t][n]
        <4>1. IsLast(h, n, Len(h), q) /\ g = Append(h, e) BY <2>1, <2>3 DEF g
        <4> HIDE DEF h, e, q
        <4>2. IsLast(g, n, Len(g), IF e.kind = "extension" /\ e.ns = n THEN Len(h) + 1
                                   ELSE q)
          BY <1>1, <1>2, <4>1, AppendLast
        <4> QED BY <4>2 DEF q
      <3> QED BY <1>5, <1>6, <2>3, <3>1
    <2> QED BY <2>2, <2>3
  <1>9. ASSUME NEW u \in Task PROVE Owned(history'[u])
    <2>1. CASE u # t BY <1>5, <2>1 DEF IInv
    <2>2. CASE u = t
      <3> HIDE DEF h, e
      <3>1. Owned(h) BY <1>1 DEF IInv, h
      <3>2. DOMAIN g = 1..Len(h) + 1 /\ DOMAIN h = 1..Len(h) BY <1>1, <1>4, SeqFacts
      <3>3. g[1].kind = "created" /\ Len(g) > 0
        <4>1. Len(h) > 0 /\ h[1].kind = "created" BY <3>1 DEF Owned
        <4>2. 1 \in 1..Len(h) BY <1>1, <4>1 DEF h
        <4>3. g[1] = h[1] BY <1>4, <4>2 DEF Grown
        <4>4. Len(g) = Len(h) + 1 /\ Len(h) \in Nat BY <1>1, <1>4
        <4> QED BY <4>1, <4>3, <4>4
      <3>4. \A i \in 1..Len(h) : g[i] = h[i] BY <1>4 DEF Grown
      <3>5. e.kind = "extension" => e.ns \in Namespace BY <1>2, <1>3
      <3>6. ASSUME NEW i \in 1..Len(h) + 1, g[i].kind = "extension"
            PROVE  g[i].ns \in Namespace
        <4>1. CASE i \in 1..Len(h)
          <5>1. g[i] = h[i] BY <3>4, <4>1
          <5>2. h[i].kind = "extension" => h[i].ns \in Namespace BY <3>1, <3>2, <4>1 DEF Owned
          <5> QED BY <3>6, <5>1, <5>2
        <4>2. CASE i = Len(h) + 1 BY <1>4, <3>5, <3>6, <4>2
        <4> QED BY <1>1, <4>1, <4>2
      <3>7. Owned(g) BY <3>2, <3>3, <3>6 DEF Owned
      <3> QED BY <1>5, <2>2, <3>7 DEF h
    <2> QED BY <2>1, <2>2
  <1>10. NoUpdateIsLost'
    <2>1. \A u \in Task : Kept(history[u]) BY DEF IInv, NoUpdateIsLost, Kept, KeptAt
    <2>2. e.kind = "extension" =>
            /\ e.owned = Merged(Retained(h, LastOf(h, e.ns, Len(h))), e.update)
            /\ e.state = h[Len(h)].state
            /\ e.data = (h[Len(h)].data \ e.update.remove) \cup e.owned
      BY <1>2, <1>3 DEF MergedHead
    <2>3. Owned(h) BY <1>1 DEF IInv
    <2>4. Kept(h) BY <1>1, <2>1
    <2>5. Kept(g)
      <3>1. g = Append(h, e) BY DEF g
      <3> HIDE DEF h, e
      <3> QED BY <1>1, <1>2, <2>2, <2>3, <2>4, <3>1, NewEventIsFaithful
    <2>6. ASSUME NEW u \in Task PROVE Kept(history'[u]) BY <1>5, <2>1, <2>5
    <2> QED BY <2>6 DEF NoUpdateIsLost, Kept, KeptAt
  <1>11. ASSUME NEW p \in Worker PROVE Knows(session[p])'
    <2>1. CASE p = w
      <3>1. session'[p] = Idle BY <2>1 DEF Become, IInv, TypeOK
      <3> QED BY <3>1, IdleType DEF Knows
    <2>2. CASE p # w
      <3> DEFINE y == session[p]
                 v == y.call.task
      <3>1. session'[p] = y BY <2>2 DEF Become, IInv, TypeOK
      <3> SUFFICES ASSUME y.pc # "idle"
          PROVE  /\ v \in Task /\ WriterKnows(y, history'[v])
                 /\ DraftIsFaithful(y, history'[v]) /\ ReaderKnows(y, history'[v])
        BY <3>1 DEF Knows
      <3>2. /\ y \in SessionRecord /\ v \in Task /\ history[v] \in Seq(EventRecord)
            /\ WriterKnows(y, history[v]) /\ DraftIsFaithful(y, history[v])
            /\ ReaderKnows(y, history[v])
        BY SessionFacts DEF HistoryOf
      <3>3. CASE v # t BY <1>5, <3>2, <3>3
      <3>4. CASE v = t BY <1>4, <1>5, <3>2, <3>4, GrownKnown
      <3> QED BY <3>3, <3>4
    <2> QED BY <2>1, <2>2
  <1> QED BY <1>7, <1>8, <1>9, <1>10, <1>11 DEF IInv

LEMMA CommitEventInv == ASSUME IInv, NEW w \in Worker, CommitEvent(w) PROVE IInv'
  <1> DEFINE x == session[w]
             c == x.call
             t == c.task
             h == HistoryOf(w)
             twins == {r \in DOMAIN h : h[r].id = x.draft.id}
             owns(r) == c.op = "extend" => pointers[t][c.ns] = r /\ r = c.expected + 1
             same == \E r \in twins : h[r] = x.draft /\ owns(r)
             outcome == Admission(t, c.expected, x.draft, x.lease, twins # {}, same)
  <1>1. /\ At(w, "append") /\ x.pc = "append"
        /\ WriteTaskEvent(t, c.expected, x.draft, outcome)
        /\ pointers' = IF outcome = "created" /\ c.op = "extend"
                       THEN [pointers EXCEPT ![t][c.ns] = c.expected + 1] ELSE pointers
        /\ Become(w, IF outcome \in Admitted THEN Idle ELSE Unwind(x))
    BY DEF CommitEvent, At
  <1>2. outcome = "created" => Len(history[t]) = c.expected BY AdmissionFacts
  <1> HIDE DEF outcome
  <1>3. /\ c.expected > 0 /\ t \in Task /\ x \in SessionRecord /\ c.expected \in Nat
    <2>1. /\ t \in Task /\ x \in SessionRecord /\ WriterKnows(x, h) /\ Len(h) \in Nat
      BY <1>1, SessionFacts
    <2>2. c.expected \in 1..Len(h) BY <1>1, <2>1 DEF WriterKnows, Writing
    <2> QED BY <2>1, <2>2
  <1>4. CASE outcome = "created"
    <2>1. /\ history' = [history EXCEPT ![t] = Append(@, x.draft)]
          /\ leases' = [leases EXCEPT ![t] = NoLease] /\ UNCHANGED clock
          /\ Become(w, Idle)
      BY <1>1, <1>3, <1>4 DEF WriteTaskEvent, Admitted
    <2>2. pointers' = IF c.op = "extend" THEN [pointers EXCEPT ![t][c.ns] = c.expected + 1]
                      ELSE pointers
      BY <1>1, <1>4
    <2>3. Len(h) = c.expected BY <1>2, <1>4 DEF HistoryOf
    <2> QED BY <1>1, <2>1, <2>2, <2>3, CreateInv
  <1>5. CASE outcome # "created"
    <2>1. UNCHANGED <<history, pointers, clock>> BY <1>1, <1>5 DEF WriteTaskEvent
    <2>2. leases' \in [Task -> Lease \cup {NoLease}] /\ clock' \in Nat
      BY <1>1, <2>1 DEF WriteTaskEvent, IInv, TypeOK
    <2>3. CASE outcome \in Admitted
      BY <1>1, <2>1, <2>2, <2>3, IdleType, KnowsNothing, SessionStep
    <2>4. CASE outcome \notin Admitted
      BY <1>1, <1>3, <2>1, <2>2, <2>4, UnwindFacts, SessionStep
    <2> QED BY <2>3, <2>4
  <1> QED BY <1>4, <1>5

LEMMA ReleaseLeaseInv == ASSUME IInv, NEW w \in Worker, ReleaseLease(w) PROVE IInv'
  <1> DEFINE x == session[w]
             t == x.call.task
  <1>1. x.pc = "release" /\ leases' = [leases EXCEPT ![t] = ReleasedLease(t, x.lease)]
    BY DEF ReleaseLease, At
  <1>2. t \in Task BY <1>1, SessionFacts
  <1>3. ReleasedLease(t, x.lease) \in Lease \cup {NoLease}
    BY <1>2 DEF ReleasedLease, IInv, TypeOK
  <1>4. leases' \in [Task -> Lease \cup {NoLease}] BY <1>1, <1>3 DEF IInv, TypeOK
  <1>5. UNCHANGED <<history, pointers>> /\ clock' \in Nat /\ Become(w, Idle)
    BY DEF ReleaseLease, IInv, TypeOK
  <1> QED BY <1>4, <1>5, IdleType, KnowsNothing, SessionStep

-----------------------------------------------------------------------------
\* The readers

\* What a reader's session knows, when it writes nothing.
LEMMA ReaderSession ==
  ASSUME IInv, NEW w \in Worker,
         session[w].pc \in Inspecting \cup Routing,
         NEW s, s.call = session[w].call,
         s.pc \in Inspecting \cup Routing \cup {"replied"},
         ReaderKnows(s, HistoryOf(w))
  PROVE  Knows(s)
  <1>1. session[w].pc # "idle" BY DEF Inspecting, Routing
  <1>2. session[w].call.task \in Task BY <1>1, SessionFacts
  <1>3. WriterKnows(s, HistoryOf(w)) /\ DraftIsFaithful(s, HistoryOf(w))
    BY DEF WriterKnows, DraftIsFaithful, Writing, Loaded, Inspecting, Routing
  <1> QED BY <1>2, <1>3 DEF Knows, HistoryOf

\* What the step of a reader starts from.
LEMMA ReaderFacts ==
  ASSUME IInv, NEW w \in Worker, session[w].pc \in Inspecting \cup Routing
  PROVE  LET x == session[w]
             c == x.call
             h == HistoryOf(w)
         IN  /\ x \in SessionRecord /\ c \in CallRecord /\ c.task \in Task
             /\ h \in Seq(EventRecord) /\ Len(h) \in Nat
             /\ x.loaded \in 0..Len(h) /\ c.ns \in Namespace
             /\ x.pc \in Inspecting => c.op = "inspect"
             /\ x.pc \in Routing => c.op = "route"
             /\ ReaderKnows(x, h)
  <1>1. session[w].pc # "idle" BY DEF Inspecting, Routing
  <1>2. /\ session[w] \in SessionRecord /\ session[w].call \in CallRecord
        /\ session[w].call.task \in Task /\ HistoryOf(w) \in Seq(EventRecord)
        /\ Len(HistoryOf(w)) \in Nat /\ ReaderKnows(session[w], HistoryOf(w))
    BY <1>1, SessionFacts
  <1>3. session[w].call.op \in {"inspect", "route"} BY <1>2 DEF ReaderKnows
  <1>4. session[w].loaded \in 0..Len(HistoryOf(w))
    BY <1>2, <1>3 DEF ReaderKnows, SessionRecord
  <1> QED BY <1>2, <1>3, <1>4 DEF ReaderKnows

LEMMA PointerIsLast ==
  ASSUME IInv, NEW t \in Task, NEW n \in Namespace
  PROVE  /\ pointers[t][n] \in 0..Len(history[t])
         /\ pointers[t][n] = LastOf(history[t], n, Len(history[t]))
         /\ pointers[t][n] > 0 <=> Own(history[t], n, Len(history[t])) # {}
  <1> DEFINE h == history[t]
             p == pointers[t][n]
  <1>1. IsLast(h, n, Len(h), p) BY DEF IInv, PointersAreLast
  <1>2. h \in Seq(EventRecord) /\ Len(h) \in Nat BY SeqFacts DEF IInv, TypeOK
  <1> HIDE DEF h, p
  <1>3. p = LastOf(h, n, Len(h)) BY <1>1, <1>2, LastIsLastOf
  <1>4. Own(h, n, Len(h)) \subseteq 1..Len(h) BY DEF Own
  <1>5. p \in 0..Len(h) /\ (p > 0 <=> Own(h, n, Len(h)) # {})
    BY <1>1, <1>2, <1>4 DEF IsLast
  <1> QED BY <1>3, <1>5 DEF h, p

LEMMA ReadBeforeInv == ASSUME IInv, NEW w \in Worker, ReadBefore(w) PROVE IInv'
  <1> DEFINE x == session[w]
             h == HistoryOf(w)
             s == [x EXCEPT !.pc = "pointer", !.loaded = Len(h)]
  <1>1. x.pc = "before" /\ Local /\ x.pc \in Inspecting BY DEF ReadBefore, At, Inspecting
  <1>2. /\ x \in SessionRecord /\ Len(h) \in Nat /\ x.call.op = "inspect"
        /\ x.call.ns \in Namespace
    BY <1>1, ReaderFacts
  <1>3. CASE Become(w, Idle) BY <1>1, <1>3, IdleStep
  <1>4. CASE Become(w, s)
    <2>1. s \in SessionRecord /\ s.pc = "pointer" /\ s.loaded = Len(h) /\ s.call = x.call
      BY <1>2 DEF SessionRecord, Inspecting
    <2>2. Become(w, s) BY <1>4
    <2> HIDE DEF s
    <2>3. ReaderKnows(s, h) BY <1>2, <2>1 DEF ReaderKnows, Inspecting, Routing
    <2>4. Knows(s) BY <1>1, <2>1, <2>3, ReaderSession DEF Inspecting
    <2> QED BY <1>1, <2>1, <2>2, <2>4, LocalStep
  <1> QED BY <1>3, <1>4 DEF ReadBefore

LEMMA ReadPointerInv == ASSUME IInv, NEW w \in Worker, ReadPointer(w) PROVE IInv'
  <1> DEFINE x == session[w]
             h == HistoryOf(w)
             r == pointers[x.call.task][x.call.ns]
             s == [x EXCEPT !.pc = "after", !.pointer = r, !.owned = Retained(h, r)]
  <1>1. /\ x.pc = "pointer" /\ Local /\ x.pc \in Inspecting /\ Become(w, s)
    BY DEF ReadPointer, At, Inspecting
  <1>2. /\ x \in SessionRecord /\ Len(h) \in Nat /\ x.call.op = "inspect"
        /\ x.call.ns \in Namespace /\ x.call.task \in Task /\ x.loaded \in 0..Len(h)
        /\ h \in Seq(EventRecord)
    BY <1>1, ReaderFacts
  <1>3. r \in 0..Len(h) /\ r = LastOf(h, x.call.ns, Len(h))
    BY <1>2, PointerIsLast DEF HistoryOf
  <1>4. Retained(h, r) \in SUBSET Field BY <1>2, <1>3, RetainedType
  <1> HIDE DEF r
  <1>5. /\ s \in SessionRecord /\ s.pc = "after" /\ s.pointer = r /\ s.call = x.call
        /\ s.owned = Retained(h, r) /\ s.loaded = x.loaded
    <2> DEFINE owned == Retained(h, r)
    <2>1. s = [x EXCEPT !.pc = "after", !.pointer = r, !.owned = owned] OBVIOUS
    <2>2. owned \in SUBSET Field /\ r \in Nat BY <1>2, <1>3, <1>4
    <2> HIDE DEF owned, s
    <2>3. /\ s \in SessionRecord /\ s.pc = "after" /\ s.pointer = r /\ s.call = x.call
          /\ s.owned = owned /\ s.loaded = x.loaded
      BY <1>2, <2>1, <2>2 DEF SessionRecord, Inspecting
    <2> QED BY <2>3 DEF owned
  <1> HIDE DEF s
  <1>6. ReaderKnows(s, h) BY <1>2, <1>3, <1>5 DEF ReaderKnows, Inspecting, Routing
  <1>7. Knows(s) BY <1>1, <1>5, <1>6, ReaderSession DEF Inspecting
  <1> QED BY <1>1, <1>5, <1>7, LocalStep DEF r

LEMMA ReadAfterInv == ASSUME IInv, NEW w \in Worker, ReadAfter(w) PROVE IInv'
  <1> DEFINE x == session[w]
             h == HistoryOf(w)
             done == [x EXCEPT !.pc = "replied"]
             again == [Idle EXCEPT !.pc = "before", !.call = x.call,
                                   !.attempt = x.attempt + 1]
  <1>1. x.pc = "after" /\ Local /\ x.pc \in Inspecting BY DEF ReadAfter, At, Inspecting
  <1>2. /\ x \in SessionRecord /\ Len(h) \in Nat /\ x.call.op = "inspect"
        /\ x.call.ns \in Namespace /\ x.call \in CallRecord /\ x.loaded \in 0..Len(h)
        /\ ReaderKnows(x, h)
    BY <1>1, ReaderFacts
  <1>3. CASE Len(h) = x.loaded /\ Become(w, done)
    <2>1. /\ done \in SessionRecord /\ done.pc = "replied" /\ done.call = x.call
          /\ done.pointer = x.pointer /\ done.owned = x.owned /\ done.loaded = x.loaded
      BY <1>2 DEF SessionRecord
    <2>2. Become(w, done) BY <1>3
    <2> HIDE DEF done
    <2>3. ReaderKnows(done, h) BY <1>1, <1>2, <1>3, <2>1 DEF ReaderKnows, Inspecting, Routing
    <2>4. Knows(done) BY <1>1, <2>1, <2>3, ReaderSession
    <2> QED BY <1>1, <2>1, <2>2, <2>4, LocalStep
  <1>4. CASE Become(w, Idle) BY <1>1, <1>4, IdleStep
  <1>5. CASE Become(w, again)
    <2>1. /\ again \in SessionRecord /\ again.pc = "before" /\ again.call = x.call
          /\ again.loaded = 0
      <3>1. x.attempt + 1 \in Nat BY <1>2 DEF SessionRecord
      <3>2. Idle.loaded = 0 BY DEF Idle
      <3> QED BY <1>2, <3>1, <3>2, IdleType DEF SessionRecord, Inspecting
    <2>2. Become(w, again) BY <1>5
    <2> HIDE DEF again
    <2>3. ReaderKnows(again, h) BY <1>2, <2>1 DEF ReaderKnows, Inspecting, Routing
    <2>4. Knows(again) BY <1>1, <2>1, <2>3, ReaderSession DEF Inspecting
    <2> QED BY <1>1, <2>1, <2>2, <2>4, LocalStep
  <1> QED BY <1>3, <1>4, <1>5 DEF ReadAfter

LEMMA RouteEntryInv == ASSUME IInv, NEW w \in Worker, RouteEntry(w) PROVE IInv'
  <1> DEFINE x == session[w]
             h == HistoryOf(w)
             s == [x EXCEPT !.pc = "handoff", !.loaded = Len(h)]
  <1>1. x.pc = "route" /\ Local /\ x.pc \in Routing BY DEF RouteEntry, At, Routing
  <1>2. /\ x \in SessionRecord /\ Len(h) \in Nat /\ x.call.op = "route"
        /\ x.call.ns \in Namespace
    BY <1>1, ReaderFacts
  <1>3. CASE Become(w, Idle) BY <1>1, <1>3, IdleStep
  <1>4. CASE Become(w, s)
    <2>1. s \in SessionRecord /\ s.pc = "handoff" /\ s.loaded = Len(h) /\ s.call = x.call
      BY <1>2 DEF SessionRecord, Routing
    <2>2. Become(w, s) BY <1>4
    <2> HIDE DEF s
    <2>3. ReaderKnows(s, h) BY <1>2, <2>1 DEF ReaderKnows, Inspecting, Routing
    <2>4. Knows(s) BY <1>1, <2>1, <2>3, ReaderSession DEF Routing
    <2> QED BY <1>1, <2>1, <2>2, <2>4, LocalStep
  <1> QED BY <1>3, <1>4 DEF RouteEntry

LEMMA HandoffInv == ASSUME IInv, NEW w \in Worker, Handoff(w) PROVE IInv'
  <1> DEFINE x == session[w]
             h == HistoryOf(w)
             s == [x EXCEPT !.pc = "durable"]
  <1>1. x.pc = "handoff" /\ Local /\ x.pc \in Routing BY DEF Handoff, At, Routing
  <1>2. /\ x \in SessionRecord /\ Len(h) \in Nat /\ x.call.op = "route"
        /\ x.call.ns \in Namespace /\ x.loaded \in 0..Len(h)
    BY <1>1, ReaderFacts
  <1>3. CASE Become(w, Idle) BY <1>1, <1>3, IdleStep
  <1>4. CASE Become(w, s)
    <2>1. s \in SessionRecord /\ s.pc = "durable" /\ s.loaded = x.loaded /\ s.call = x.call
      BY <1>2 DEF SessionRecord, Routing
    <2>2. Become(w, s) BY <1>4
    <2> HIDE DEF s
    <2>3. ReaderKnows(s, h) BY <1>2, <2>1 DEF ReaderKnows, Inspecting, Routing
    <2>4. Knows(s) BY <1>1, <2>1, <2>3, ReaderSession DEF Routing
    <2> QED BY <1>1, <2>1, <2>2, <2>4, LocalStep
  <1> QED BY <1>3, <1>4 DEF Handoff

\* A namespace with an event by some revision has a pointer.
LEMMA ExtendedHavePointers ==
  ASSUME IInv, NEW t \in Task, NEW r \in 0..Len(history[t]),
         NEW n \in Extended(history[t], r)
  PROVE  n \in Namespace /\ pointers[t][n] > 0
  <1> DEFINE h == history[t]
  <1>1. h \in Seq(EventRecord) /\ Len(h) \in Nat /\ DOMAIN h = 1..Len(h) /\ Owned(h)
    BY SeqFacts DEF IInv, TypeOK
  <1>2. PICK i \in 1..r : h[i].kind = "extension" /\ h[i].ns = n BY DEF Extended
  <1>3. i \in 1..Len(h) BY <1>1, <1>2
  <1>4. n \in Namespace BY <1>1, <1>2, <1>3 DEF Owned
  <1>5. i \in Own(h, n, Len(h)) BY <1>2, <1>3 DEF Own
  <1> QED BY <1>4, <1>5, PointerIsLast

LEMMA DurableNamespacesInv == ASSUME IInv, NEW w \in Worker, DurableNamespaces(w) PROVE IInv'
  <1> DEFINE x == session[w]
             h == HistoryOf(w)
             t == x.call.task
             names == {n \in Namespace : pointers[t][n] > 0}
             s == [x EXCEPT !.pc = "visible", !.names = names]
  <1>1. x.pc = "durable" /\ Local /\ x.pc \in Routing /\ Become(w, s)
    BY DEF DurableNamespaces, At, Routing
  <1>2. /\ x \in SessionRecord /\ Len(h) \in Nat /\ x.call.op = "route"
        /\ x.call.ns \in Namespace /\ t \in Task /\ x.loaded \in 0..Len(h)
    BY <1>1, ReaderFacts
  <1>3. Extended(h, x.loaded) \subseteq names
    BY <1>2, ExtendedHavePointers DEF HistoryOf
  <1>4. /\ s \in SessionRecord /\ s.pc = "visible" /\ s.names = names /\ s.call = x.call
        /\ s.loaded = x.loaded
    BY <1>2 DEF SessionRecord, Routing
  <1> HIDE DEF s, names
  <1>5. ReaderKnows(s, h) BY <1>2, <1>3, <1>4 DEF ReaderKnows, Inspecting, Routing
  <1>6. Knows(s) BY <1>1, <1>4, <1>5, ReaderSession DEF Routing
  <1> QED BY <1>1, <1>4, <1>6, LocalStep DEF s, names

LEMMA VisibleNamespacesInv == ASSUME IInv, NEW w \in Worker, VisibleNamespaces(w) PROVE IInv'
  <1> DEFINE x == session[w]
             h == HistoryOf(w)
             s == [x EXCEPT !.pc = "replied", !.names = @ \cap Extended(h, x.loaded)]
  <1>1. x.pc = "visible" /\ Local /\ x.pc \in Routing /\ Become(w, s)
    BY DEF VisibleNamespaces, At, Routing
  <1>2. /\ x \in SessionRecord /\ Len(h) \in Nat /\ x.call.op = "route"
        /\ x.call.ns \in Namespace /\ x.loaded \in 0..Len(h) /\ ReaderKnows(x, h)
    BY <1>1, ReaderFacts
  <1>3. x.names \cap Extended(h, x.loaded) = Extended(h, x.loaded)
    BY <1>1, <1>2 DEF ReaderKnows
  <1>4. /\ s \in SessionRecord /\ s.pc = "replied" /\ s.call = x.call
        /\ s.names = Extended(h, x.loaded) /\ s.loaded = x.loaded
    BY <1>2, <1>3 DEF SessionRecord
  <1> HIDE DEF s
  <1>5. ReaderKnows(s, h) BY <1>2, <1>4 DEF ReaderKnows, Inspecting, Routing
  <1>6. Knows(s) BY <1>1, <1>4, <1>5, ReaderSession
  <1> QED BY <1>1, <1>4, <1>6, LocalStep DEF s

-----------------------------------------------------------------------------
LEMMA TickInv == ASSUME IInv, Tick \/ UNCHANGED vars PROVE IInv'
  <1>1. UNCHANGED <<history, leases, pointers, session>> /\ clock' \in Nat
    BY DEF Tick, vars, IInv, TypeOK
  <1>2. TypeOK' BY <1>1 DEF IInv, TypeOK
  <1>3. PointersAreLast' /\ NoUpdateIsLost' /\ \A t \in Task : Owned(history'[t])
    BY <1>1 DEF IInv, PointersAreLast, NoUpdateIsLost
  <1>4. \A w \in Worker : Knows(session[w])' BY <1>1 DEF IInv, Knows
  <1> QED BY <1>2, <1>3, <1>4 DEF IInv

\* The invariant is inductive: one lemma per action.
THEOREM StepInv == IInv /\ [Next]_vars => IInv'
  <1> SUFFICES ASSUME IInv, [Next]_vars PROVE IInv' OBVIOUS
  <1>1. ASSUME NEW w \in Worker, Deliver(w) PROVE IInv' BY <1>1, IdleStep DEF Deliver
  <1> QED BY <1>1, BeginInv, LoadInv, LoadNamespaceInv, ReadClockInv, AcquireLeaseInv,
             ReadProjectionInv, ReadHeadInv, DraftInv, CommitEventInv, ReleaseLeaseInv,
             ReadBeforeInv, ReadPointerInv, ReadAfterInv, RouteEntryInv, HandoffInv,
             DurableNamespacesInv, VisibleNamespacesInv, TickInv
          DEF Next

\* The inductive invariant holds in every state.
THEOREM ExtensionsInv == Spec => []IInv
  BY InitInv, StepInv, PTL DEF Spec

\* The stream, lease and pointer rows and the locals of every call keep their
\* types (extensions.py, kernel.py).
THEOREM ExtensionsTypeCorrect == Spec => []TypeOK
  <1>1. IInv => TypeOK BY DEF IInv
  <1> QED BY <1>1, ExtensionsInv, PTL

\* No update of a namespace is lost, and nothing else of the Task is changed, by
\* any number of components that read before their lease (extensions.py
\* append_preserving).
THEOREM UpdatesAreKept == Spec => []NoUpdateIsLost
  <1>1. IInv => NoUpdateIsLost BY DEF IInv
  <1> QED BY <1>1, ExtensionsInv, PTL

\* What load_namespace_snapshot returns is of one revision (extensions.py).
THEOREM SnapshotsCoherent == Spec => []SnapshotsAreCoherent
  <1>1. IInv => SnapshotsAreCoherent
    <2> SUFFICES ASSUME IInv, NEW w \in Worker,
                        session[w].call.op = "inspect", session[w].pc = "replied"
        PROVE  LET s == session[w]
                   h == history[s.call.task]
               IN  /\ s.pointer = LastOf(h, s.call.ns, s.loaded)
                   /\ s.owned = Retained(h, s.pointer)
      BY DEF SnapshotsAreCoherent
    <2>1. ReaderKnows(session[w], history[session[w].call.task])
      BY SessionFacts DEF HistoryOf
    <2> QED BY <2>1 DEF ReaderKnows
  <1> QED BY <1>1, ExtensionsInv, PTL

\* The namespaces of a recovery view are those of its revision (mcp_server.py
\* resume).
THEOREM RoutesBounded == Spec => []RoutesAreBounded
  <1>1. IInv => RoutesAreBounded
    <2> SUFFICES ASSUME IInv, NEW w \in Worker,
                        session[w].call.op = "route", session[w].pc = "replied"
        PROVE  session[w].names
                 = Extended(history[session[w].call.task], session[w].loaded)
      BY DEF RoutesAreBounded
    <2>1. ReaderKnows(session[w], history[session[w].call.task])
      BY SessionFacts DEF HistoryOf
    <2> QED BY <2>1 DEF ReaderKnows
  <1> QED BY <1>1, ExtensionsInv, PTL
=============================================================================
