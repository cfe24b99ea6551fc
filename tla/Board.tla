--------------------------------- MODULE Board ---------------------------------
(***************************************************************************)
(* The Message Board: calls of board.post, clients that poll board.list    *)
(* with the cursor of the last answer they got, and a Doctor that reads    *)
(* the whole Board while messages arrive.                                  *)
(*                                                                         *)
(* board_messages is append-only, and its AUTOINCREMENT sequence is given  *)
(* in the append transaction and rolled back with it, so the table is the  *)
(* sequence log.  Row and object of a message carry the same fields: here  *)
(* both are the message.  A step is one transaction or one read; a row     *)
(* that is found never changes, so reading the rest of it is no new step.  *)
(***************************************************************************)
EXTENDS Naturals, Sequences, FiniteSets, Selection

CONSTANTS
  Message,      \* what may be posted: [id, topic, reply]
  NoMessage,    \* the message of a slot that posts none
  Poster,       \* slots for calls of board.post
  Reader,       \* clients that poll board.list, or a Doctor's pass
  Query,        \* what a reader may follow: [topic, reply]
  Limit,        \* the page size readers ask for
  DoctorLimit   \* the page size of the Doctor

\* An absent topic, reply target or filter is the empty set.
ASSUME BoardAssumption ==
  /\ Limit \in Nat \ {0} /\ DoctorLimit \in Nat \ {0}
  /\ NoMessage \notin Message

VARIABLES
  log,      \* board_messages, by sequence
  objects,  \* the message objects in the CAS
  post,     \* post[p]: the call p makes
  reader    \* reader[r]: what r reads, its cursor and its call

vars == <<log, objects, post, reader>>

Least(a, b) == IF a <= b THEN a ELSE b
Greatest(a, b) == IF a >= b THEN a ELSE b

Bound(id) == \E i \in DOMAIN log : log[i].id = id
SequenceOf(id) == CHOOSE i \in DOMAIN log : log[i].id = id

-----------------------------------------------------------------------------
\* board_messages(): one SELECT over the table.

Everything == [topic |-> {}, reply |-> {}]
Filtered(q) == q # Everything
Matches(q, m) == /\ q.topic = {} \/ m.topic = q.topic
                 /\ q.reply = {} \/ m.reply = q.reply

Selected(q, after, through) ==
  InOrder({i \in after + 1..through : Matches(q, log[i])}, through)
Ascending(q, after, through, limit) ==
  LET rows == Selected(q, after, through)
  IN  SubSeq(rows, 1, Least(limit, Len(rows)))
Newest(q, through, limit) ==
  LET rows == Selected(q, 0, through)
  IN  SubSeq(rows, Greatest(1, Len(rows) - limit + 1), Len(rows))

\* _read() finds the object of each row, or the call fails.
Readable(rows) == \A k \in DOMAIN rows : log[rows[k]] \in objects

-----------------------------------------------------------------------------
\* board.post

NoCall == [pc |-> "idle", message |-> NoMessage, verdict |-> "none"]
Posting(p, pc) == post[p].pc = pc
Continue(p, pc) == post' = [post EXCEPT ![p].pc = pc]
Conclude(p, verdict) ==
  post' = [post EXCEPT ![p] = [NoCall EXCEPT !.pc = "replied", !.verdict = verdict]]
Written(p, verdict) ==
  post' = [post EXCEPT ![p].pc = "confirm", ![p].verdict = verdict]

\* _by_client_message_id(): the row, then the first message after the sequence
\* before it.
Lookup(id) == LET rows == Ascending(Everything, SequenceOf(id) - 1, Len(log), 1)
              IN  log[rows[1]]
Recognise(p) ==
  Conclude(p, IF Lookup(post[p].message.id) = post[p].message
              THEN "existing" ELSE "conflict")

Post(p) ==
  /\ Posting(p, "idle")
  /\ \E m \in Message :
       post' = [post EXCEPT ![p] = [pc |-> "exists", message |-> m, verdict |-> "asked"]]
  /\ UNCHANGED <<log, objects, reader>>

Exists(p) ==
  LET m == post[p].message IN
  /\ Posting(p, "exists")
  /\ IF Bound(m.id) THEN Recognise(p)
     ELSE Continue(p, IF m.reply = {} THEN "put" ELSE "target")
  /\ UNCHANGED <<log, objects, reader>>

FindTarget(p) ==
  /\ Posting(p, "target")
  /\ IF \A id \in post[p].message.reply : Bound(id)
     THEN Continue(p, "put") ELSE Conclude(p, "no target")
  /\ UNCHANGED <<log, objects, reader>>

\* A post that writes its row before its object.
PutMessageLate(p) ==
  /\ Posting(p, "put")
  /\ Continue(p, "append")
  /\ UNCHANGED <<log, objects, reader>>

PutMessage(p) ==
  /\ Posting(p, "put")
  /\ objects' = objects \cup {post[p].message}
  /\ Continue(p, "append")
  /\ UNCHANGED <<log, reader>>

\* A transaction that relies on the read before it.
AppendUnchecked(p) ==
  /\ Posting(p, "append")
  /\ log' = Append(log, post[p].message)
  /\ Written(p, "created")
  /\ UNCHANGED <<objects, reader>>

\* append_board_message(): what was read before is read again in the transaction.
AppendMessage(p) ==
  LET m == post[p].message
      found == Bound(m.id)
      targeted == \A id \in m.reply : Bound(id)
  IN  /\ Posting(p, "append")
      /\ IF m.id \in m.reply
         THEN Conclude(p, "invalid") /\ UNCHANGED log
         ELSE IF found
         THEN /\ IF log[SequenceOf(m.id)] = m
                 THEN Written(p, "existing")
                 ELSE Conclude(p, "conflict")
              /\ UNCHANGED log
         ELSE IF ~targeted
         THEN Conclude(p, "no target") /\ UNCHANGED log
         ELSE /\ log' = Append(log, m)
              /\ Written(p, "created")
      /\ UNCHANGED <<objects, reader>>

\* The transaction fails, and leaves nothing behind.
AppendFails(p) ==
  /\ Posting(p, "append")
  /\ Conclude(p, "failed")
  /\ UNCHANGED <<log, objects, reader>>

\* The message is read back: _by_client_message_id() must find this one.
Confirm(p) ==
  LET m == post[p].message IN
  /\ Posting(p, "confirm")
  /\ IF Bound(m.id) /\ Lookup(m.id) = m /\ m \in objects
     THEN Conclude(p, post[p].verdict) ELSE Conclude(p, "failed")
  /\ UNCHANGED <<log, objects, reader>>

\* The answer arrives or is lost, or the process died where that leaves a trace:
\* the client may post the same again.
EndPost(p) ==
  /\ post[p].pc \in {"append", "confirm", "replied"}
  /\ post' = [post EXCEPT ![p] = NoCall]
  /\ UNCHANGED <<log, objects, reader>>

-----------------------------------------------------------------------------
\* board.list, polled.  cursor is the afterSequence of the next call; a client
\* that has none (started = FALSE) gets the newest window.

Listing(r, pc) == reader[r].pc = pc
Update(r, s) == reader' = [reader EXCEPT ![r] = s]
Answered(s, rows, next, more) ==
  [s EXCEPT !.pc = "answered", !.rows = rows, !.next = next, !.more = more]
Quiet(s) == [s EXCEPT !.pc = "idle", !.rows = <<>>, !.cut = 0, !.next = 0,
                      !.more = FALSE]

Poll(r) ==
  LET s == reader[r] IN
  /\ Listing(r, "idle") /\ ~s.audit
  /\ Update(r, [s EXCEPT !.pc = IF Filtered(s.query) THEN "last" ELSE "page"])
  /\ UNCHANGED <<log, objects, post>>

\* With a filter the last sequence is the cut the page is read through; without
\* one it is read after the page, and only says whether there is more.
ReadLast(r) ==
  LET s == reader[r]
      next == IF s.rows # <<>> THEN s.rows[Len(s.rows)] ELSE s.cursor
  IN  /\ Listing(r, "last")
      /\ Update(r, IF Filtered(s.query)
                   THEN [s EXCEPT !.pc = "page", !.cut = Len(log)]
                   ELSE Answered([s EXCEPT !.cut = Len(log)], s.rows, next, next < Len(log)))
      /\ UNCHANGED <<log, objects, post>>

\* The page of a filtered list: without a cursor the newest window, else one row
\* too many tells that there is more.
FilteredPage(s, through, limit, end) ==
  LET rows == Ascending(s.query, s.cursor, through, limit)
      visible == SubSeq(rows, 1, Least(Limit, Len(rows)))
      more == Len(rows) > Limit
  IN  IF ~s.started THEN Answered(s, Newest(s.query, through, Limit), s.cut, FALSE)
      ELSE Answered(s, visible, IF more THEN visible[Len(visible)] ELSE end, more)

\* A page that is not cut where the cursor will move to.
CutPageUncut(s) == FilteredPage(s, Len(log), Limit + 1, Greatest(s.cursor, s.cut))
\* A page that does not ask for the row too many.
CutPageExact(s) == FilteredPage(s, s.cut, Limit, Greatest(s.cursor, s.cut))
\* A cursor that stays where it is when nothing matches.
CutPageStalling(s) ==
  LET rows == Ascending(s.query, s.cursor, s.cut, Limit)
  IN  FilteredPage(s, s.cut, Limit + 1, IF rows = <<>> THEN s.cursor ELSE rows[1])

CutPage(s) == FilteredPage(s, s.cut, Limit + 1, Greatest(s.cursor, s.cut))

PlainPage(s) ==
  [s EXCEPT !.pc = "last",
            !.rows = IF s.started THEN Ascending(s.query, s.cursor, Len(log), Limit)
                     ELSE Newest(s.query, Len(log), Limit)]

\* The page is bound by \E, and so evaluated once.
ReadPage(r) ==
  LET s == reader[r] IN
  /\ Listing(r, "page")
  /\ \E page \in {IF Filtered(s.query) THEN CutPage(s) ELSE PlainPage(s)} :
       Update(r, IF Readable(page.rows) THEN page ELSE Quiet(s))
  /\ UNCHANGED <<log, objects, post>>

\* The client takes the page and the cursor.
Receive(r) ==
  LET s == reader[r] IN
  /\ Listing(r, "answered")
  /\ Update(r, [Quiet(s) EXCEPT !.cursor = s.next, !.started = TRUE,
                                !.heard = @ \o s.rows])
  /\ UNCHANGED <<log, objects, post>>

\* The answer is lost: the client polls again with the cursor it has.
LoseAnswer(r) ==
  /\ Listing(r, "answered")
  /\ Update(r, Quiet(reader[r]))
  /\ UNCHANGED <<log, objects, post>>

-----------------------------------------------------------------------------
\* HostMessageBoard.validate_integrity: the cursor is the last message it
\* validated, the cut the boundary of the pass.

\* validate_board_invariants(): no message, once there, can fail these later.
Dangling == \E i \in DOMAIN log : \E id \in log[i].reply : ~Bound(id) \/ id = log[i].id

BeginPass(r) ==
  /\ Listing(r, "idle") /\ reader[r].audit
  /\ Update(r, [reader[r] EXCEPT !.pc = IF Dangling THEN "alarm" ELSE "boundary"])
  /\ UNCHANGED <<log, objects, post>>

ReadBoundary(r) ==
  /\ Listing(r, "boundary")
  /\ Update(r, [reader[r] EXCEPT !.pc = "validate", !.cut = Len(log)])
  /\ UNCHANGED <<log, objects, post>>

\* One page of a pass; what lies after the boundary is left to a later one.
Validate(r, rows) ==
  LET s == reader[r] IN
  Update(r, IF s.cursor >= s.cut \/ rows = <<>> THEN [s EXCEPT !.pc = "done"]
            ELSE IF ~Readable(rows) THEN [s EXCEPT !.pc = "alarm"]
            ELSE [s EXCEPT !.cursor = rows[Len(rows)], !.heard = @ \o rows])

\* A pass that takes whole pages.
ValidateWholePage(r) ==
  /\ Listing(r, "validate")
  /\ Validate(r, Ascending(Everything, reader[r].cursor, Len(log), DoctorLimit))
  /\ UNCHANGED <<log, objects, post>>

ValidatePage(r) ==
  /\ Listing(r, "validate")
  /\ LET page == Ascending(Everything, reader[r].cursor, Len(log), DoctorLimit)
     IN  Validate(r, InOrder({page[k] : k \in DOMAIN page}, reader[r].cut))
  /\ UNCHANGED <<log, objects, post>>

-----------------------------------------------------------------------------
\* A client starts with the newest window or with afterSequence 0.
Client == {c \in [pc: {"idle"}, audit: BOOLEAN, query: Query, started: BOOLEAN,
                  cursor: {0}, heard: {<<>>}, cut: {0}, rows: {<<>>}, next: {0},
                  more: {FALSE}] : c.audit => c.started /\ c.query = Everything}

Init ==
  /\ log = <<>>
  /\ objects = {}
  /\ post = [p \in Poster |-> NoCall]
  /\ reader \in [Reader -> Client]

PosterStep(p) ==
  \/ Post(p) \/ Exists(p) \/ FindTarget(p) \/ PutMessage(p)
  \/ AppendMessage(p) \/ AppendFails(p) \/ Confirm(p) \/ EndPost(p)
ReaderStep(r) ==
  \/ Poll(r) \/ ReadLast(r) \/ ReadPage(r) \/ Receive(r) \/ LoseAnswer(r)
  \/ BeginPass(r) \/ ReadBoundary(r) \/ ValidatePage(r)

Next ==
  \/ \E p \in Poster : PosterStep(p)
  \/ \E r \in Reader : ReaderStep(r)

\* Clients keep polling, their calls do not hang, and not every answer is lost.
Fairness ==
  \A r \in Reader :
    /\ WF_vars(Poll(r)) /\ WF_vars(ReadLast(r)) /\ WF_vars(ReadPage(r))
    /\ SF_vars(Receive(r))

Spec == Init /\ [][Next]_vars /\ Fairness

-----------------------------------------------------------------------------
\* The pass of the Doctor, and what a reader finds, never miss an object: the
\* CAS holds every message of the log (board.py post puts it before the append).
MessagesAreStored == \A i \in DOMAIN log : log[i] \in objects

\* A client that polls with the cursor of its last answer has heard every
\* message it follows up to that cursor, from the first it heard on, once and in
\* sequence order, whatever is appended between the reads of a call and however
\* many answers are lost (board.py:174, "without skipping a concurrent later
\* append").
NothingIsSkipped ==
  \A r \in Reader :
    LET s == reader[r]
        first == IF s.heard = <<>> THEN s.cursor ELSE s.heard[1] - 1
    IN  /\ s.cursor <= Len(log)
        /\ s.heard # <<>> => s.heard = Selected(s.query, first, s.cursor)

\* An answer without hasMore leaves nothing out that was there at its last
\* sequence, whether the page was read before that sequence or after it.
LastPagesAreLast ==
  \A r \in Reader :
    LET s == reader[r] IN
    s.pc = "answered" /\ ~s.more /\ s.started =>
      s.rows = Selected(s.query, s.cursor, s.cut)

\* The Doctor's pass raises no alarm while messages arrive, and validates
\* exactly the messages up to the boundary it captured (validate_integrity: "one
\* stable prefix").
DoctorValidatesThePrefix ==
  \A r \in Reader :
    /\ reader[r].pc # "alarm"
    /\ reader[r].pc = "done" => reader[r].heard = Selected(Everything, 0, reader[r].cut)

\* The Board is a BoardLog: an identity enters the log once, is answered
\* "created" once, every conflict is true of the log when it is decided, a reply
\* follows its target, and followers hear interval after interval.
posts == [p \in Poster |->
            [message |-> IF post[p].verdict = "asked" THEN post[p].message ELSE NoMessage,
             verdict |-> post[p].verdict]]
follows == [r \in Reader |-> [query |-> reader[r].query, to |-> reader[r].cursor,
                              heard |-> reader[r].heard]]
BoardPromise == INSTANCE BoardLog
ImplementsBoardLog == BoardPromise!Spec

\* A client that keeps polling gets past every message that is posted.
PollersCatchUp ==
  \A r \in Reader : \A n \in 1..Cardinality({m.id : m \in Message}) :
    Len(log) >= n /\ ~reader[r].audit ~> reader[r].cursor >= n
=============================================================================
