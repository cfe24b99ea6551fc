--------------------------------- MODULE News ---------------------------------
(***************************************************************************)
(* Daily News: calls of news.publish that repeat, race and are refused,    *)
(* clients that list the editions page by page, and clients that read the  *)
(* newest edition.                                                         *)
(*                                                                         *)
(* An edition is corrected by publishing a further revision of it, which   *)
(* names the revision it replaces and must keep the date.  The identity of *)
(* a publication is its caller's, and repeating it is answered "existing"  *)
(* whatever was published since.  A step is one transaction or one read.   *)
(***************************************************************************)
EXTENDS Naturals, Sequences, FiniteSets

CONSTANTS
  Request,      \* what may be published: [client, edition, date, expected, content]
  NoRequest,    \* the request of a slot that makes none
  Publisher,    \* slots for calls of news.publish
  Reader,       \* clients of news.list, and of news.read without an edition
  Scope,        \* the date ranges [from, to] that are listed
  Limit         \* the page size

ASSUME NewsAssumption ==
  /\ \A q \in Request : q.edition \in Nat /\ q.date \in Nat \ {0} /\ q.expected \in Nat
  /\ Limit \in Nat \ {0}

VARIABLES
  publications, \* news_publications, by sequence
  heads,        \* news_editions: the rows, one for each edition
  objects,      \* the edition objects in the CAS
  publish,      \* publish[p]: the call p makes
  reader        \* reader[r]: what r reads, and what it was shown

vars == <<publications, heads, objects, publish, reader>>

Object(q) == [edition |-> q.edition, date |-> q.date, content |-> q.content]
HeadsOf(e) == {h \in heads : h.edition = e}
RevisionOf(e) == IF HeadsOf(e) = {} THEN 0 ELSE (CHOOSE h \in HeadsOf(e) : TRUE).revision
PublishedAs(client) == {i \in DOMAIN publications : publications[i].client = client}

\* ORDER BY edition_date DESC, edition_id ASC
Before(a, b) == a.date > b.date \/ (a.date = b.date /\ a.edition < b.edition)
Rank(h, S) == Cardinality({g \in S : Before(g, h)}) + 1

-----------------------------------------------------------------------------
\* news.publish

NoCall == [pc |-> "idle", request |-> NoRequest, known |-> FALSE, verdict |-> "none"]
Publishing(p, pc) == publish[p].pc = pc
Continue(p, pc) == publish' = [publish EXCEPT ![p].pc = pc]
Conclude(p, verdict) ==
  publish' = [publish EXCEPT ![p] =
    [NoCall EXCEPT !.pc = "replied", !.known = publish[p].known, !.verdict = verdict]]

\* The request that publication i answered.
Answers(i, q) == LET x == publications[i] IN
  /\ x.client = q.client /\ x.edition = q.edition /\ x.date = q.date
  /\ x.expected = q.expected /\ x.content = q.content

\* known: this very publication was there before the call.
Publish(p) ==
  /\ Publishing(p, "idle")
  /\ \E q \in Request :
       publish' = [publish EXCEPT ![p] =
         [pc |-> "put", request |-> q, verdict |-> "none",
          known |-> \E i \in DOMAIN publications : Answers(i, q)]]
  /\ UNCHANGED <<publications, heads, objects, reader>>

PutEdition(p) ==
  /\ Publishing(p, "put")
  /\ objects' = objects \cup {Object(publish[p].request)}
  /\ Continue(p, "append")
  /\ UNCHANGED <<publications, heads, reader>>

\* The row of the edition moves with the publication.
Publication(q) == [client |-> q.client, edition |-> q.edition, date |-> q.date,
                   expected |-> q.expected, revision |-> q.expected + 1,
                   content |-> q.content]
Store(q) ==
  /\ publications' = Append(publications, Publication(q))
  /\ heads' = (heads \ HeadsOf(q.edition))
                \cup {[edition |-> q.edition, date |-> q.date,
                       revision |-> q.expected + 1, content |-> q.content]}

Refusal(p, verdict) == Conclude(p, verdict) /\ UNCHANGED <<publications, heads>>

\* A transaction that looks at the revision before it looks at the identity.
AppendFenceFirst(p) ==
  LET q == publish[p].request IN
  /\ Publishing(p, "append")
  /\ IF RevisionOf(q.edition) # q.expected THEN Refusal(p, "revision")
     ELSE IF PublishedAs(q.client) # {} THEN Refusal(p, "conflict")
     ELSE Store(q) /\ publish' = [publish EXCEPT ![p].pc = "confirm", ![p].verdict = "created"]
  /\ UNCHANGED <<objects, reader>>

\* A transaction that lets a revision change the date of its edition.
AppendRedated(p) ==
  LET q == publish[p].request IN
  /\ Publishing(p, "append")
  /\ IF PublishedAs(q.client) # {} \/ RevisionOf(q.edition) # q.expected
     THEN Refusal(p, "conflict")
     ELSE Store(q) /\ publish' = [publish EXCEPT ![p].pc = "confirm", ![p].verdict = "created"]
  /\ UNCHANGED <<objects, reader>>

\* append_news_publication(): identity, then revision, then metadata.
AppendPublication(p) ==
  LET q == publish[p].request
      bound == PublishedAs(q.client)
      written(verdict) ==
        publish' = [publish EXCEPT ![p].pc = "confirm", ![p].verdict = verdict]
  IN  /\ Publishing(p, "append")
      /\ \/ /\ bound # {}
            /\ IF \E i \in bound : Answers(i, q)
               THEN written("existing") ELSE Conclude(p, "conflict")
            /\ UNCHANGED <<publications, heads>>
         \/ bound = {} /\ RevisionOf(q.edition) # q.expected /\ Refusal(p, "revision")
         \/ /\ bound = {} /\ RevisionOf(q.edition) = q.expected
            /\ \E h \in HeadsOf(q.edition) : h.date # q.date
            /\ Refusal(p, "conflict")
         \/ /\ bound = {} /\ RevisionOf(q.edition) = q.expected
            /\ \A h \in HeadsOf(q.edition) : h.date = q.date
            /\ Store(q) /\ written("created")
      /\ UNCHANGED <<objects, reader>>

\* The publication is read back by its identity.
Confirm(p) ==
  /\ Publishing(p, "confirm")
  /\ IF PublishedAs(publish[p].request.client) # {}
     THEN Conclude(p, publish[p].verdict) ELSE Conclude(p, "failed")
  /\ UNCHANGED <<publications, heads, objects, reader>>

\* The answer arrives or is lost, or the process died where that leaves a trace.
EndPublish(p) ==
  /\ publish[p].pc \in {"append", "confirm", "replied"}
  /\ publish' = [publish EXCEPT ![p] = NoCall]
  /\ UNCHANGED <<publications, heads, objects, reader>>

-----------------------------------------------------------------------------
\* news.list.  A cursor is the order key of the last edition of a page, and only
\* good for the scope it was made for.

InScope(h, scope) == scope.from <= h.date /\ h.date <= scope.to

\* Editions after the cursor, when dates are taken to be unique.
AfterDate(scope, cursor) ==
  {h \in heads : InScope(h, scope) /\ \A k \in cursor : h.date < k.date}
After(scope, cursor) ==
  {h \in heads : InScope(h, scope) /\ \A k \in cursor : Before(k, h)}

Quiet == [pc |-> "idle", scope |-> {}, cursor |-> {}, owed |-> {}, seen |-> <<>>,
          floor |-> {}, target |-> 0, view |-> {}]

\* owed: the editions that are there when the listing begins.
BeginListing(r) ==
  /\ reader[r].pc = "idle"
  /\ \E scope \in Scope :
       reader' = [reader EXCEPT ![r] =
         [Quiet EXCEPT !.pc = "paging", !.scope = scope,
            !.owed = {h.edition : h \in {g \in heads : InScope(g, scope)}}]]
  /\ UNCHANGED <<publications, heads, objects, publish>>

\* One page, of which one edition too many tells that there is another.  A page
\* whose answer is lost is asked for again.
ListPage(r) ==
  LET s == reader[r]
      rows == After(s.scope, s.cursor)
      visible == {h \in rows : Rank(h, rows) <= Limit}
      page == [k \in 1..Cardinality(visible) |-> CHOOSE h \in visible : Rank(h, rows) = k]
      more == Cardinality(rows) > Limit
      last == page[Len(page)]
  IN  /\ s.pc = "paging"
      /\ reader' = [reader EXCEPT ![r] =
           [s EXCEPT !.seen = @ \o [k \in DOMAIN page |-> page[k].edition],
                     !.cursor = IF more THEN {[edition |-> last.edition, date |-> last.date]}
                                ELSE {},
                     !.pc = IF more THEN "paging" ELSE "done"]]
      /\ UNCHANGED <<publications, heads, objects, publish>>

EndListing(r) ==
  /\ reader[r].pc = "done"
  /\ reader' = [reader EXCEPT ![r] = Quiet]
  /\ UNCHANGED <<publications, heads, objects, publish>>

-----------------------------------------------------------------------------
\* news.read without an edition: which one is the newest, then its head revision.

\* The edition published last, whatever its date.
NewestByArrival(S) ==
  {h \in S : h.edition = publications[Len(publications)].edition}
NewestOf(S) == {h \in S : \A g \in S : ~Before(g, h)}

\* floor: the newest edition when the call begins.
BeginRead(r) ==
  /\ reader[r].pc = "idle"
  /\ reader' = [reader EXCEPT ![r] =
       [Quiet EXCEPT !.pc = "newest", !.floor = {h \in heads : \A g \in heads : ~Before(g, h)}]]
  /\ UNCHANGED <<publications, heads, objects, publish>>

PickEdition(r) ==
  /\ reader[r].pc = "newest"
  /\ reader' = [reader EXCEPT ![r] =
       IF heads = {} THEN Quiet
       ELSE [@ EXCEPT !.pc = "pointer",
                      !.target = (CHOOSE h \in NewestOf(heads) : TRUE).edition]]
  /\ UNCHANGED <<publications, heads, objects, publish>>

\* The publication the head joins; its object is the edition that is shown.
ReadPointer(r) ==
  LET s == reader[r]
      shown == {i \in DOMAIN publications :
                  /\ publications[i].edition = s.target
                  /\ publications[i].revision = RevisionOf(s.target)
                  /\ Object(publications[i]) \in objects}
  IN  /\ s.pc = "pointer"
      /\ reader' = [reader EXCEPT ![r] =
           IF shown = {} THEN Quiet
           ELSE [s EXCEPT !.pc = "replied", !.view = {publications[i] : i \in shown}]]
      /\ UNCHANGED <<publications, heads, objects, publish>>

EndRead(r) ==
  /\ reader[r].pc = "replied"
  /\ reader' = [reader EXCEPT ![r] = Quiet]
  /\ UNCHANGED <<publications, heads, objects, publish>>

-----------------------------------------------------------------------------
Init ==
  /\ publications = <<>> /\ heads = {} /\ objects = {}
  /\ publish = [p \in Publisher |-> NoCall]
  /\ reader = [r \in Reader |-> Quiet]

Next ==
  \/ \E p \in Publisher :
       \/ Publish(p) \/ PutEdition(p) \/ AppendPublication(p)
       \/ Confirm(p) \/ EndPublish(p)
  \/ \E r \in Reader :
       \/ BeginListing(r) \/ ListPage(r) \/ EndListing(r)
       \/ BeginRead(r) \/ PickEdition(r) \/ ReadPointer(r) \/ EndRead(r)

Spec == Init /\ [][Next]_vars

-----------------------------------------------------------------------------
\* The Doctor's check of the News tables holds between any two transactions
\* (validate_news_invariants): the revisions of an edition are numbered from 1
\* without a gap, each publication replaced the revision before it under the
\* date of the edition, the head is the last of them, and its object is stored.
HistoryIsSound ==
  /\ \A i, j \in DOMAIN publications :
       LET x == publications[i]
           y == publications[j]
       IN  x.edition = y.edition => x.date = y.date /\ (i < j => x.revision < y.revision)
  /\ \A h \in heads : \A n \in 1..h.revision :
       \E i \in DOMAIN publications :
         publications[i].edition = h.edition /\ publications[i].revision = n
  /\ \A i \in DOMAIN publications :
       LET x == publications[i] IN
       /\ Object(x) \in objects
       /\ x.revision = x.expected + 1
       /\ \E h \in heads :
            /\ h.edition = x.edition /\ h.date = x.date /\ x.revision <= h.revision
            /\ x.revision = h.revision => h.content = x.content

\* A publication that was made is never refused when it is repeated, although
\* the edition has moved on since (OPERATIONS.md: "exact replay identity").
RepeatIsRecognised ==
  \A p \in Publisher :
    publish[p].pc = "replied" /\ publish[p].known => publish[p].verdict = "existing"

\* A listing shows every edition of its scope that was there when it began, once,
\* newest first, whatever is published while its pages are read.
ListingIsComplete ==
  \A r \in Reader :
    LET s == reader[r]
        date(e) == (CHOOSE h \in HeadsOf(e) : TRUE).date
        key(k) == [edition |-> s.seen[k], date |-> date(s.seen[k])]
    IN  /\ \A j, k \in DOMAIN s.seen : j < k => Before(key(j), key(k))
        /\ s.pc = "done" => s.owed \subseteq {s.seen[k] : k \in DOMAIN s.seen}

\* A read of the newest edition, two reads in the code, shows a publication that
\* is not older than what was newest when the call began: not an edition before
\* it, and not an earlier revision of it.
NewestIsNotStale ==
  \A r \in Reader :
    LET s == reader[r] IN
    s.pc = "replied" =>
      /\ Cardinality(s.view) = 1
      /\ \A f \in s.floor : \A v \in s.view :
           ~Before(f, v) /\ (v.edition = f.edition => v.revision >= f.revision)
=============================================================================
