------------------------------- MODULE News_proofs -------------------------------
(***************************************************************************)
(* Why the News tables are sound whoever publishes, why a publication that *)
(* is repeated is recognised, why two reads show an edition that is not    *)
(* stale, and why a listing is complete: publications only ever            *)
(* accumulate, the head of an edition keeps its date and never goes back,  *)
(* so an edition behind a cursor stays behind it.                          *)
(***************************************************************************)
EXTENDS News, FiniteSetTheorems, SequenceTheorems, TLAPS

Made == {Publication(q) : q \in Request}
Edition == [edition: Nat, date: Nat \ {0}, revision: Nat \ {0},
         content: {q.content : q \in Request}]
Verdict == {"none", "created", "existing", "conflict", "revision", "failed"}
Call == [pc: {"idle", "put", "append", "confirm", "replied"},
         request: Request \cup {NoRequest}, known: BOOLEAN, verdict: Verdict]
Local == {"pc", "scope", "cursor", "owed", "seen", "floor", "target", "view"}

OneHead == \A g, h \in heads : g.edition = h.edition => g = h

\* An edition that no other is before, or there is none.
SomeNewest == heads = {} \/ \E m \in heads : \A g \in heads : ~Before(g, m)

TableInv ==
  /\ publications \in Seq(Made)
  /\ heads \subseteq Edition
  /\ OneHead
  /\ SomeNewest
  /\ HistoryIsSound

\* The request of a call that is under way, and what is known of it.
CallInv(c) ==
  /\ c.pc \in {"put", "append", "confirm"} => c.request \in Request
  /\ c.pc = "append" => Object(c.request) \in objects
  /\ c.known /\ c.pc \in {"put", "append", "confirm"} =>
       \E i \in DOMAIN publications : Answers(i, c.request)
  /\ c.known /\ c.pc \in {"confirm", "replied"} => c.verdict = "existing"

PublishInv == publish \in [Publisher -> Call] /\ \A p \in Publisher : CallInv(publish[p])

\* The edition of f is still there, under its date, at its revision or later.
Kept(f) == /\ f \in Edition
           /\ \E h \in heads : h.edition = f.edition /\ h.date = f.date
                               /\ h.revision >= f.revision

\* v is not an edition before f, nor an earlier revision of it.
NotStale(v, f) == ~Before(f, v) /\ (v.edition = f.edition => v.revision >= f.revision)

ReadInv(s) ==
  /\ Local \subseteq DOMAIN s
  /\ s.pc \in {"newest", "pointer"} => \A f \in s.floor : Kept(f)
  /\ s.pc = "pointer" =>
       \E t \in heads : t.edition = s.target /\ \A f \in s.floor : ~Before(f, t)
  /\ s.pc = "replied" =>
       /\ Cardinality(s.view) = 1
       /\ \A f \in s.floor : \A v \in s.view : NotStale(v, f)

ReaderInv == DOMAIN reader = Reader /\ \A r \in Reader : ReadInv(reader[r])

NewsInv == TableInv /\ PublishInv /\ ReaderInv

-----------------------------------------------------------------------------
\* The tables

LEMMA RevisionOfHead ==
  ASSUME TableInv, NEW h \in heads
  PROVE  HeadsOf(h.edition) = {h} /\ RevisionOf(h.edition) = h.revision
  <1>1. HeadsOf(h.edition) = {h} BY DEF TableInv, OneHead, HeadsOf
  <1> QED BY <1>1 DEF RevisionOf

LEMMA RequestTypes ==
  ASSUME NEW q \in Request
  PROVE  /\ Publication(q) \in Made /\ Object(Publication(q)) = Object(q)
         /\ q.edition \in Nat /\ q.date \in Nat \ {0} /\ q.expected \in Nat
  BY NewsAssumption DEF Made, Publication, Object

LEMMA MadeTypes ==
  ASSUME NEW x \in Made
  PROVE  /\ x.edition \in Nat /\ x.date \in Nat \ {0} /\ x.expected \in Nat
         /\ x.revision = x.expected + 1
         /\ x.content \in {q.content : q \in Request}
  BY NewsAssumption DEF Made, Publication

\* What is there of the edition that q revises, when the fence lets q through.
LEMMA BeforeStore ==
  ASSUME TableInv, NEW q \in Request, RevisionOf(q.edition) = q.expected,
         \A h \in HeadsOf(q.edition) : h.date = q.date
  PROVE  /\ \A i \in DOMAIN publications : publications[i].edition = q.edition =>
              publications[i].date = q.date /\ publications[i].revision <= q.expected
         /\ \A n \in 1..q.expected : \E i \in DOMAIN publications :
              publications[i].edition = q.edition /\ publications[i].revision = n
  <1>1. ASSUME NEW i \in DOMAIN publications, publications[i].edition = q.edition
        PROVE  publications[i].date = q.date /\ publications[i].revision <= q.expected
    <2>1. PICK h \in heads : /\ h.edition = publications[i].edition
                             /\ h.date = publications[i].date
                             /\ publications[i].revision <= h.revision
      BY DEF TableInv, HistoryIsSound
    <2> QED BY <1>1, <2>1, RevisionOfHead DEF HeadsOf
  <1>2. ASSUME NEW n \in 1..q.expected
        PROVE  \E i \in DOMAIN publications :
                 publications[i].edition = q.edition /\ publications[i].revision = n
    <2>1. HeadsOf(q.edition) # {}
      BY RequestTypes DEF RevisionOf
    <2>2. PICK h \in heads : h.edition = q.edition BY <2>1 DEF HeadsOf
    <2>3. h.revision = q.expected BY <2>2, RevisionOfHead
    <2> QED BY <2>2, <2>3 DEF TableInv, HistoryIsSound
  <1> QED BY <1>1, <1>2

LEMMA StoreKeepsTables ==
  ASSUME TableInv, NEW q \in Request, Object(q) \in objects, objects' = objects,
         RevisionOf(q.edition) = q.expected,
         \A h \in HeadsOf(q.edition) : h.date = q.date,
         Store(q)
  PROVE  TableInv'
  <1> DEFINE x == Publication(q)
             n == [edition |-> q.edition, date |-> q.date,
                   revision |-> q.expected + 1, content |-> q.content]
             last == Len(publications) + 1
  <1>1. publications' = Append(publications, x) BY DEF Store
  <1>2. heads' = (heads \ HeadsOf(q.edition)) \cup {n} BY DEF Store
  <1>3. /\ q.edition \in Nat /\ q.date \in Nat \ {0} /\ q.expected \in Nat
        /\ x \in Made /\ Object(x) = Object(q)
    BY RequestTypes
  <1>4. /\ x.edition = q.edition /\ x.date = q.date /\ x.expected = q.expected
        /\ x.revision = q.expected + 1 /\ x.content = q.content /\ x.client = q.client
    BY DEF Publication
  <1>5. /\ n \in Edition /\ n.edition = q.edition /\ n.date = q.date
        /\ n.revision = q.expected + 1 /\ n.content = q.content
    BY <1>3 DEF Edition
  <1>6. publications \in Seq(Made) /\ heads \subseteq Edition BY DEF TableInv
  <1>7. /\ publications' \in Seq(Made)
        /\ DOMAIN publications = 1..Len(publications)
        /\ DOMAIN publications' = 1..last
        /\ Len(publications) \in Nat
        /\ \A i \in DOMAIN publications : publications'[i] = publications[i]
        /\ publications'[last] = x
    BY <1>1, <1>3, <1>6
  <1>8. \A i \in DOMAIN publications' : i \in DOMAIN publications \/ i = last
    BY <1>7
  <1>9. /\ \A i \in DOMAIN publications : publications[i].edition = q.edition =>
             publications[i].date = q.date /\ publications[i].revision <= q.expected
        /\ \A k \in 1..q.expected : \E i \in DOMAIN publications :
             publications[i].edition = q.edition /\ publications[i].revision = k
    BY BeforeStore
  <1>10. \A i \in DOMAIN publications : publications[i] \in Made
    BY <1>6
  <1>a. heads' \subseteq Edition BY <1>2, <1>5, <1>6
  <1>b. OneHead'
    BY <1>2, <1>5 DEF OneHead, HeadsOf, TableInv
  <1>c. SomeNewest'
    <2>1. CASE heads \subseteq HeadsOf(q.edition)
      <3>1. heads' = {n} BY <2>1, <1>2
      <3> QED BY <3>1, <1>3, <1>5 DEF SomeNewest, Before
    <2>2. CASE heads # {}
      <3>1. PICK m \in heads : \A g \in heads : ~Before(g, m)
        BY <2>2 DEF TableInv, SomeNewest
      <3>2. m \in Edition /\ \A g \in heads : g \in Edition BY <1>6
      <3>3. CASE m.edition = q.edition
        <4>1. m.date = q.date BY <3>1, <3>3 DEF HeadsOf
        <4>2. \A g \in heads' : ~Before(g, n)
          BY <4>1, <3>1, <3>2, <3>3, <1>2, <1>3, <1>5 DEF Before, Edition
        <4> QED BY <4>2, <1>2 DEF SomeNewest
      <3>4. CASE m.edition # q.edition /\ Before(n, m)
        <4>1. \A g \in heads' : ~Before(g, n)
          BY <3>1, <3>2, <3>4, <1>2, <1>3, <1>5 DEF Before, Edition
        <4> QED BY <4>1, <1>2 DEF SomeNewest
      <3>5. CASE m.edition # q.edition /\ ~Before(n, m)
        <4>1. m \in heads' BY <3>1, <3>5, <1>2 DEF HeadsOf
        <4>2. \A g \in heads' : ~Before(g, m) BY <3>1, <3>5, <1>2
        <4> QED BY <4>1, <4>2 DEF SomeNewest
      <3> QED BY <3>3, <3>4, <3>5
    <2> QED BY <2>1, <2>2
  <1>d. HistoryIsSound'
    <2>1. ASSUME NEW i \in DOMAIN publications', NEW j \in DOMAIN publications',
                 publications'[i].edition = publications'[j].edition
          PROVE  /\ publications'[i].date = publications'[j].date
                 /\ i < j => publications'[i].revision < publications'[j].revision
      <3>1. CASE i \in DOMAIN publications /\ j \in DOMAIN publications
        BY <2>1, <3>1, <1>7 DEF TableInv, HistoryIsSound
      <3>2. CASE i \in DOMAIN publications /\ j = last
        <4>1. publications'[i] = publications[i] /\ publications'[j] = x
          BY <3>2, <1>7
        <4>2. publications[i].edition = q.edition
          BY <2>1, <4>1, <1>4
        <4>3. publications[i].date = q.date /\ publications[i].revision <= q.expected
          BY <3>2, <4>2, <1>9
        <4>4. publications[i].revision \in Int
          BY <3>2, <1>10, MadeTypes
        <4> QED BY <4>1, <4>3, <4>4, <1>3, <1>4
      <3>3. CASE i = last
        BY <2>1, <3>3, <1>3, <1>4, <1>7, <1>8, <1>9, <1>10, MadeTypes
      <3> QED BY <3>1, <3>2, <3>3, <1>8
    <2>2. ASSUME NEW h \in heads', NEW k \in 1..h.revision
          PROVE  \E i \in DOMAIN publications' :
                   publications'[i].edition = h.edition /\ publications'[i].revision = k
      <3>1. CASE h \in heads
        <4>1. PICK i \in DOMAIN publications :
                publications[i].edition = h.edition /\ publications[i].revision = k
          BY <3>1 DEF TableInv, HistoryIsSound
        <4> QED BY <4>1, <1>7
      <3>2. CASE h = n /\ k <= q.expected
        <4>1. PICK i \in DOMAIN publications :
                publications[i].edition = q.edition /\ publications[i].revision = k
          BY <3>2, <1>9, <1>3, <1>5
        <4> QED BY <4>1, <3>2, <1>5, <1>7
      <3>3. CASE h = n /\ k = q.expected + 1
        BY <3>3, <1>4, <1>5, <1>7
      <3> QED BY <3>1, <3>2, <3>3, <1>2, <1>3, <1>5
    <2>3. ASSUME NEW i \in DOMAIN publications'
          PROVE  /\ Object(publications'[i]) \in objects'
                 /\ publications'[i].revision = publications'[i].expected + 1
                 /\ \E h \in heads' :
                      /\ h.edition = publications'[i].edition
                      /\ h.date = publications'[i].date
                      /\ publications'[i].revision <= h.revision
                      /\ publications'[i].revision = h.revision
                           => h.content = publications'[i].content
      <3>1. CASE i = last
        BY <3>1, <1>2, <1>3, <1>4, <1>5, <1>7
      <3>2. CASE i \in DOMAIN publications /\ publications[i].edition = q.edition
        <4>1. /\ publications'[i] = publications[i] /\ publications[i] \in Made
              /\ publications[i].date = q.date /\ publications[i].revision <= q.expected
          BY <3>2, <1>7, <1>9, <1>10
        <4>2. n \in heads' BY <1>2
        <4>3. publications[i].revision \in Nat /\ publications[i].revision # n.revision
          BY <4>1, <1>3, <1>5, MadeTypes
        <4>4. Object(publications[i]) \in objects
          BY <3>2 DEF TableInv, HistoryIsSound
        <4>5. publications[i].revision = publications[i].expected + 1
          BY <4>1, MadeTypes
        <4> QED BY <3>2, <4>1, <4>2, <4>3, <4>4, <4>5, <1>3, <1>5
      <3>3. CASE i \in DOMAIN publications /\ publications[i].edition # q.edition
        <4>1. PICK h \in heads :
                /\ h.edition = publications[i].edition /\ h.date = publications[i].date
                /\ publications[i].revision <= h.revision
                /\ publications[i].revision = h.revision => h.content = publications[i].content
          BY <3>3 DEF TableInv, HistoryIsSound
        <4>2. h \in heads' BY <4>1, <3>3, <1>2 DEF HeadsOf
        <4>3. /\ Object(publications[i]) \in objects
              /\ publications[i].revision = publications[i].expected + 1
          BY <3>3 DEF TableInv, HistoryIsSound
        <4> QED BY <3>3, <4>1, <4>2, <4>3, <1>7
      <3> QED BY <3>1, <3>2, <3>3, <1>8
    <2> QED BY <2>1, <2>2, <2>3 DEF HistoryIsSound
  <1> QED BY <1>7, <1>a, <1>b, <1>c, <1>d DEF TableInv

-----------------------------------------------------------------------------
\* What a step leaves true for a call that does not take it.

\* A publication that is there stays there.
LEMMA AnswersStay ==
  ASSUME TableInv, TableInv',
         \/ publications' = publications
         \/ \E q \in Request : publications' = Append(publications, Publication(q))
  PROVE  /\ DOMAIN publications \subseteq DOMAIN publications'
         /\ \A i \in DOMAIN publications : publications'[i] = publications[i]
  <1>1. CASE publications' = publications BY <1>1
  <1>2. ASSUME NEW q \in Request, publications' = Append(publications, Publication(q))
        PROVE  /\ DOMAIN publications \subseteq DOMAIN publications'
               /\ \A i \in DOMAIN publications : publications'[i] = publications[i]
    <2>1. publications \in Seq(Made) /\ Publication(q) \in Made
      BY RequestTypes DEF TableInv
    <2> QED BY <2>1, <1>2
  <1> QED BY <1>1, <1>2

\* An edition stays where it is, or moves on under its date.
HeadsMove == \A h \in heads : \E g \in heads' :
               g.edition = h.edition /\ g.date = h.date /\ g.revision >= h.revision

LEMMA StoreMovesHeads ==
  ASSUME TableInv, NEW q \in Request, RevisionOf(q.edition) = q.expected,
         \A h \in HeadsOf(q.edition) : h.date = q.date, Store(q)
  PROVE  HeadsMove
  <1>1. ASSUME NEW h \in heads
        PROVE  \E g \in heads' :
                 g.edition = h.edition /\ g.date = h.date /\ g.revision >= h.revision
    <2>0. h \in Edition BY DEF TableInv
    <2>1. CASE h.edition = q.edition
      <3>1. h.date = q.date BY <2>1 DEF HeadsOf
      <3>2. h.revision = q.expected BY <2>1, RevisionOfHead
      <3> DEFINE g == [edition |-> q.edition, date |-> q.date,
                       revision |-> q.expected + 1, content |-> q.content]
      <3>3. g \in heads' BY DEF Store
      <3>4. g.revision >= h.revision BY <3>2, <2>0 DEF Edition
      <3> QED BY <2>1, <3>1, <3>3, <3>4
    <2>2. CASE h.edition # q.edition
      <3>1. h \in heads' BY <2>2 DEF Store, HeadsOf
      <3> QED BY <3>1, <2>0 DEF Edition
    <2> QED BY <2>1, <2>2
  <1> QED BY <1>1 DEF HeadsMove

LEMMA ReadersKeep ==
  ASSUME NEW s, ReadInv(s), TableInv, TableInv', HeadsMove
  PROVE  ReadInv(s)'
  <1>1. heads \subseteq Edition /\ heads' \subseteq Edition BY DEF TableInv
  <1>2. ASSUME NEW f, Kept(f) PROVE Kept(f)'
    <2>1. PICK h \in heads : h.edition = f.edition /\ h.date = f.date
                             /\ h.revision >= f.revision
      BY <1>2 DEF Kept
    <2>2. PICK g \in heads' : g.edition = h.edition /\ g.date = h.date
                              /\ g.revision >= h.revision
      BY DEF HeadsMove
    <2>3. f \in Edition BY <1>2 DEF Kept
    <2>4. g.revision >= f.revision
      BY <2>1, <2>2, <2>3, <1>1 DEF Edition
    <2> QED BY <2>1, <2>2, <2>3, <2>4 DEF Kept
  <1>3. ASSUME s.pc = "pointer"
        PROVE  \E t \in heads' : t.edition = s.target /\ \A f \in s.floor : ~Before(f, t)
    <2>1. PICK h \in heads : h.edition = s.target /\ \A f \in s.floor : ~Before(f, h)
      BY <1>3 DEF ReadInv
    <2>2. PICK g \in heads' : g.edition = h.edition /\ g.date = h.date
      BY DEF HeadsMove
    <2> QED BY <2>1, <2>2 DEF Before
  <1> QED BY <1>2, <1>3 DEF ReadInv, NotStale

-----------------------------------------------------------------------------
\* The steps

\* A step of publisher p: the tables hold, its own call holds, the rest follows.
LEMMA PublisherKeeps ==
  ASSUME NewsInv, NEW p \in Publisher, NEW c \in Call, TableInv',
         publish' = [publish EXCEPT ![p] = c], reader' = reader,
         objects \subseteq objects', HeadsMove, CallInv(c)',
         \/ publications' = publications
         \/ \E q \in Request : publications' = Append(publications, Publication(q))
  PROVE  NewsInv'
  <1>1. /\ DOMAIN publications \subseteq DOMAIN publications'
        /\ \A i \in DOMAIN publications : publications'[i] = publications[i]
    BY AnswersStay DEF NewsInv
  <1>2. publish' \in [Publisher -> Call]
    BY DEF NewsInv, PublishInv
  <1>3. ASSUME NEW o \in Publisher PROVE CallInv(publish[o])'
    <2>1. CASE o = p
      <3>1. publish'[o] = c BY <2>1 DEF NewsInv, PublishInv
      <3> QED BY <3>1 DEF CallInv
    <2>2. CASE o # p
      <3>1. publish'[o] = publish[o] BY <2>2 DEF NewsInv, PublishInv
      <3>2. CallInv(publish[o]) BY DEF NewsInv, PublishInv
      <3> QED BY <3>1, <3>2, <1>1 DEF CallInv, Answers
    <2> QED BY <2>1, <2>2
  <1>4. ASSUME NEW r \in Reader PROVE ReadInv(reader[r])'
    <2>1. ReadInv(reader[r]) BY DEF NewsInv, ReaderInv
    <2>2. TableInv BY DEF NewsInv
    <2>3. ASSUME NEW s, s = reader[r] PROVE ReadInv(s)'
      BY <2>1, <2>2, <2>3, ReadersKeep
    <2> QED BY <2>3 DEF ReadInv
  <1> QED BY <1>2, <1>3, <1>4 DEF NewsInv, PublishInv, ReaderInv

LEMMA InitInv == Init => NewsInv
  <1> SUFFICES ASSUME Init PROVE NewsInv OBVIOUS
  <1>1. TableInv
    <2>1. publications \in Seq(Made) /\ DOMAIN publications = {} BY DEF Init
    <2> QED BY <2>1 DEF Init, TableInv, OneHead, SomeNewest, HistoryIsSound
  <1>2. PublishInv
    <2>1. NoCall \in Call BY DEF NoCall, Call, Verdict
    <2> QED BY <2>1 DEF Init, PublishInv, CallInv, NoCall
  <1>3. ReaderInv
    BY DEF Init, ReaderInv, ReadInv, Quiet, Local
  <1> QED BY <1>1, <1>2, <1>3 DEF NewsInv

\* Tables that do not change.
LEMMA TablesStay ==
  ASSUME TableInv, objects \subseteq objects', UNCHANGED <<publications, heads>>
  PROVE  TableInv' /\ HeadsMove
  <1>1. TableInv'
    BY DEF TableInv, OneHead, SomeNewest, HistoryIsSound, HeadsOf
  <1>2. HeadsMove
    <2>1. \A h \in heads : h \in Edition BY DEF TableInv
    <2> QED BY <2>1 DEF HeadsMove, Edition
  <1> QED BY <1>1, <1>2

LEMMA PublishKeeps ==
  ASSUME NewsInv, NEW p \in Publisher, Publish(p)
  PROVE  NewsInv'
  <1>1. PICK q \in Request :
          publish' = [publish EXCEPT ![p] =
            [pc |-> "put", request |-> q, verdict |-> "none",
             known |-> \E i \in DOMAIN publications : Answers(i, q)]]
    BY DEF Publish
  <1>2. TableInv' /\ HeadsMove BY TablesStay DEF Publish, NewsInv
  <1>3. ASSUME NEW c, c = [pc |-> "put", request |-> q, verdict |-> "none",
                           known |-> \E i \in DOMAIN publications : Answers(i, q)]
        PROVE  NewsInv'
    <2>1. /\ c.pc = "put" /\ c.request = q /\ c.verdict = "none"
          /\ c.known = \E i \in DOMAIN publications : Answers(i, q)
      BY <1>3
    <2>2. (\E i \in DOMAIN publications : Answers(i, q)) \in BOOLEAN OBVIOUS
    <2>3. c \in Call BY <1>3, <2>2 DEF Call, Verdict
    <2>4. CallInv(c)'
      BY <2>1 DEF CallInv, Publish, Answers
    <2> QED BY <1>1, <1>2, <1>3, <2>3, <2>4, PublisherKeeps DEF Publish
  <1> QED BY <1>3

LEMMA PutEditionKeeps ==
  ASSUME NewsInv, NEW p \in Publisher, PutEdition(p)
  PROVE  NewsInv'
  <1>1. TableInv' /\ HeadsMove BY TablesStay DEF PutEdition, NewsInv
  <1>2. publish[p] \in Call /\ CallInv(publish[p]) BY DEF NewsInv, PublishInv
  <1>3. ASSUME NEW c, c = [publish[p] EXCEPT !.pc = "append"]
        PROVE  NewsInv'
    <2>1. /\ c \in Call /\ c.pc = "append" /\ c.request = publish[p].request
          /\ c.known = publish[p].known
      BY <1>2, <1>3 DEF Call
    <2>2. publish' = [publish EXCEPT ![p] = c]
      BY <1>3 DEF PutEdition, Continue, NewsInv, PublishInv
    <2>3. publish[p].pc = "put" BY DEF PutEdition, Publishing
    <2>4. CallInv(c)'
      <3>1. Object(c.request) \in objects' BY <2>1 DEF PutEdition
      <3>2. c.request \in Request BY <1>2, <2>1, <2>3 DEF CallInv
      <3>3. c.known => \E i \in DOMAIN publications : Answers(i, c.request)
        BY <1>2, <2>1, <2>3 DEF CallInv
      <3> QED BY <2>1, <3>1, <3>2, <3>3 DEF CallInv, PutEdition, Answers
    <2> QED BY <1>1, <2>1, <2>2, <2>4, PublisherKeeps DEF PutEdition
  <1> QED BY <1>3

\* A call that ends with a verdict: if its publication was known, it says so.
LEMMA ConcludeKeeps ==
  ASSUME NewsInv, NEW p \in Publisher, NEW v \in Verdict, Conclude(p, v),
         publish[p].known => v = "existing",
         UNCHANGED <<publications, heads, objects, reader>>
  PROVE  NewsInv'
  <1>1. TableInv' /\ HeadsMove BY TablesStay DEF NewsInv
  <1>2. publish[p] \in Call BY DEF NewsInv, PublishInv
  <1>3. ASSUME NEW c, c = [NoCall EXCEPT !.pc = "replied", !.known = publish[p].known,
                                         !.verdict = v]
        PROVE  NewsInv'
    <2>1. /\ c \in Call /\ c.pc = "replied" /\ c.verdict = v
          /\ c.known = publish[p].known
      BY <1>2, <1>3 DEF NoCall, Call
    <2>2. CallInv(c)' BY <2>1 DEF CallInv
    <2> QED BY <1>1, <1>3, <2>1, <2>2, PublisherKeeps DEF Conclude
  <1> QED BY <1>3

\* A call that goes on to confirm what its transaction found or wrote.
LEMMA WrittenKeeps ==
  ASSUME NewsInv, NEW p \in Publisher, NEW v \in Verdict, Publishing(p, "append"),
         publish' = [publish EXCEPT ![p].pc = "confirm", ![p].verdict = v],
         UNCHANGED <<objects, reader>>, TableInv', HeadsMove,
         \/ publications' = publications
         \/ publications' = Append(publications, Publication(publish[p].request)),
         publish[p].known => v = "existing"
  PROVE  NewsInv'
  <1>1. publish[p] \in Call /\ CallInv(publish[p]) BY DEF NewsInv, PublishInv
  <1>2. publish[p].request \in Request BY <1>1 DEF CallInv, Publishing
  <1>3. /\ DOMAIN publications \subseteq DOMAIN publications'
        /\ \A i \in DOMAIN publications : publications'[i] = publications[i]
    BY <1>2, AnswersStay DEF NewsInv
  <1>4. ASSUME NEW c, c = [publish[p] EXCEPT !.pc = "confirm", !.verdict = v]
        PROVE  NewsInv'
    <2>1. /\ c \in Call /\ c.pc = "confirm" /\ c.request = publish[p].request
          /\ c.known = publish[p].known /\ c.verdict = v
      BY <1>1, <1>4 DEF Call
    <2>2. publish' = [publish EXCEPT ![p] = c]
      BY <1>4 DEF NewsInv, PublishInv
    <2>3. CallInv(c)'
      <3>1. c.known => \E i \in DOMAIN publications : Answers(i, c.request)
        BY <1>1, <2>1 DEF CallInv, Publishing
      <3>2. c.known => \E i \in DOMAIN publications' : Answers(i, c.request)'
        BY <3>1, <1>3 DEF Answers
      <3> QED BY <1>2, <2>1, <3>2 DEF CallInv
    <2> QED BY <1>2, <2>1, <2>2, <2>3, PublisherKeeps
  <1> QED BY <1>4

LEMMA AppendKeeps ==
  ASSUME NewsInv, NEW p \in Publisher, AppendPublication(p)
  PROVE  NewsInv'
  <1> DEFINE q == publish[p].request
             bound == PublishedAs(q.client)
             written(verdict) ==
               publish' = [publish EXCEPT ![p].pc = "confirm", ![p].verdict = verdict]
  <1>1. publish[p] \in Call /\ CallInv(publish[p]) /\ publish[p].pc = "append"
    BY DEF NewsInv, PublishInv, AppendPublication, Publishing
  <1>2. q \in Request /\ Object(q) \in objects BY <1>1 DEF CallInv
  <1>3. publish[p].known => \E i \in bound : Answers(i, q)
    BY <1>1 DEF CallInv, PublishedAs, Answers
  <1>4. UNCHANGED <<objects, reader>> /\ TableInv BY DEF AppendPublication, NewsInv
  <1>5. CASE \E i \in bound : Answers(i, q)
    <2>1. written("existing") /\ UNCHANGED <<publications, heads>>
      BY <1>5 DEF AppendPublication
    <2>2. TableInv' /\ HeadsMove BY <2>1, <1>4, TablesStay
    <2> QED BY <1>1, <1>4, <2>1, <2>2, WrittenKeeps DEF Verdict, Publishing
  <1>6. CASE ~(\E i \in bound : Answers(i, q)) /\ UNCHANGED <<publications, heads>>
    <2>1. \/ Conclude(p, "conflict") \/ Conclude(p, "revision")
          \/ Store(q)
      BY <1>6 DEF AppendPublication, Refusal
    <2>2. ~Store(q) BY <1>2, <1>4, <1>6, RequestTypes DEF Store, TableInv
    <2> QED BY <1>3, <1>4, <1>6, <2>1, <2>2, ConcludeKeeps DEF Verdict
  <1>7. CASE /\ bound = {} /\ RevisionOf(q.edition) = q.expected
             /\ \A h \in HeadsOf(q.edition) : h.date = q.date
             /\ Store(q) /\ written("created")
    <2>1. TableInv' BY <1>2, <1>4, <1>7, StoreKeepsTables
    <2>2. HeadsMove BY <1>2, <1>4, <1>7, StoreMovesHeads
    <2>3. publications' = Append(publications, Publication(q)) BY <1>7 DEF Store
    <2> QED BY <1>1, <1>3, <1>4, <1>7, <2>1, <2>2, <2>3, WrittenKeeps DEF Verdict, Publishing
  <1> QED BY <1>5, <1>6, <1>7 DEF AppendPublication, Refusal

LEMMA ConfirmKeeps ==
  ASSUME NewsInv, NEW p \in Publisher, Confirm(p)
  PROVE  NewsInv'
  <1>1. publish[p] \in Call /\ CallInv(publish[p]) /\ publish[p].pc = "confirm"
    BY DEF NewsInv, PublishInv, Confirm, Publishing
  <1>2. publish[p].known => publish[p].verdict = "existing"
                            /\ PublishedAs(publish[p].request.client) # {}
    BY <1>1 DEF CallInv, PublishedAs, Answers
  <1>3. publish[p].verdict \in Verdict BY <1>1 DEF Call
  <1> QED BY <1>2, <1>3, ConcludeKeeps DEF Confirm, Verdict

LEMMA EndPublishKeeps ==
  ASSUME NewsInv, NEW p \in Publisher, EndPublish(p)
  PROVE  NewsInv'
  <1>1. TableInv' /\ HeadsMove BY TablesStay DEF NewsInv, EndPublish
  <1>2. NoCall \in Call BY DEF NoCall, Call, Verdict
  <1>3. CallInv(NoCall)' BY DEF CallInv, NoCall
  <1> QED BY <1>1, <1>2, <1>3, PublisherKeeps DEF EndPublish

\* A step of reader r changes what r knows.
LEMMA ReaderKeeps ==
  ASSUME NewsInv, NEW r \in Reader, NEW s, reader' = [reader EXCEPT ![r] = s],
         ReadInv(s), UNCHANGED <<publications, heads, objects, publish>>
  PROVE  NewsInv'
  <1>1. TableInv' BY TablesStay DEF NewsInv
  <1>2. PublishInv' BY DEF NewsInv, PublishInv, CallInv, Answers
  <1>3. ASSUME NEW o \in Reader PROVE ReadInv(reader[o])'
    <2>1. DOMAIN reader = Reader /\ ReadInv(reader[o]) BY DEF NewsInv, ReaderInv
    <2>2. reader'[o] = IF o = r THEN s ELSE reader[o] BY <2>1
    <2> QED BY <2>1, <2>2 DEF ReadInv, Kept
  <1>4. DOMAIN reader' = Reader BY DEF NewsInv, ReaderInv
  <1> QED BY <1>1, <1>2, <1>3, <1>4 DEF NewsInv, ReaderInv

\* Nothing is known of a reader that lists, or that has nothing to say.
LEMMA QuietReader ==
  ASSUME NEW s, Local \subseteq DOMAIN s, s.pc \notin {"newest", "pointer", "replied"}
  PROVE  ReadInv(s)
  BY DEF ReadInv

LEMMA ListingKeeps ==
  ASSUME NewsInv, NEW r \in Reader,
         BeginListing(r) \/ ListPage(r) \/ EndListing(r) \/ EndRead(r)
  PROVE  NewsInv'
  <1>1. DOMAIN reader = Reader /\ ReadInv(reader[r]) BY DEF NewsInv, ReaderInv
  <1>2. UNCHANGED <<publications, heads, objects, publish>>
    BY DEF BeginListing, ListPage, EndListing, EndRead
  <1>3. CASE EndListing(r) \/ EndRead(r)
    <2>1. reader' = [reader EXCEPT ![r] = Quiet] BY <1>3 DEF EndListing, EndRead
    <2>2. ReadInv(Quiet) BY DEF ReadInv, Quiet, Local
    <2> QED BY <1>2, <2>1, <2>2, ReaderKeeps
  <1>4. CASE BeginListing(r)
    <2>1. PICK scope \in Scope :
            reader' = [reader EXCEPT ![r] =
              [Quiet EXCEPT !.pc = "paging", !.scope = scope,
                 !.owed = {h.edition : h \in {g \in heads : InScope(g, scope)}}]]
      BY <1>4 DEF BeginListing
    <2>2. ASSUME NEW s, s = reader'[r] PROVE ReadInv(s)
      <3>1. s.pc = "paging" /\ Local \subseteq DOMAIN s
        BY <1>1, <2>1, <2>2 DEF Quiet, Local
      <3> QED BY <3>1, QuietReader
    <2>3. ASSUME NEW s, s = reader'[r] PROVE NewsInv'
      <3>1. reader' = [reader EXCEPT ![r] = s] BY <1>1, <2>1, <2>3
      <3> QED BY <3>1, <2>2, <2>3, <1>2, ReaderKeeps
    <2> QED BY <2>3
  <1>5. CASE ListPage(r)
    <2>1. PICK seen, cursor, pc :
            /\ pc \in {"paging", "done"}
            /\ reader' = [reader EXCEPT ![r] =
                 [reader[r] EXCEPT !.seen = seen, !.cursor = cursor, !.pc = pc]]
      BY <1>5 DEF ListPage
    <2>2. ASSUME NEW s, s = [reader[r] EXCEPT !.seen = seen, !.cursor = cursor, !.pc = pc]
          PROVE NewsInv'
      <3>1. s.pc = pc /\ Local \subseteq DOMAIN s
        BY <1>1, <2>2 DEF ReadInv, Local
      <3>2. ReadInv(s) BY <2>1, <3>1, QuietReader
      <3> QED BY <2>1, <2>2, <3>2, <1>2, ReaderKeeps
    <2> QED BY <2>2
  <1> QED BY <1>3, <1>4, <1>5

LEMMA BeginReadKeeps ==
  ASSUME NewsInv, NEW r \in Reader, BeginRead(r)
  PROVE  NewsInv'
  <1>1. ASSUME NEW s, s = [Quiet EXCEPT !.pc = "newest",
                 !.floor = {h \in heads : \A g \in heads : ~Before(g, h)}]
        PROVE  NewsInv'
    <2>1. /\ s.pc = "newest" /\ Local \subseteq DOMAIN s
          /\ s.floor = {h \in heads : \A g \in heads : ~Before(g, h)}
      BY <1>1 DEF Quiet, Local
    <2>2. ASSUME NEW f \in heads PROVE Kept(f)
      <3>1. f \in Edition BY DEF NewsInv, TableInv
      <3> QED BY <3>1 DEF Kept, Edition
    <2>3. ReadInv(s) BY <2>1, <2>2 DEF ReadInv
    <2> QED BY <1>1, <2>3, ReaderKeeps DEF BeginRead
  <1> QED BY <1>1

LEMMA PickEditionKeeps ==
  ASSUME NewsInv, NEW r \in Reader, PickEdition(r)
  PROVE  NewsInv'
  <1>1. DOMAIN reader = Reader /\ ReadInv(reader[r]) BY DEF NewsInv, ReaderInv
  <1>2. CASE heads = {}
    <2>1. reader' = [reader EXCEPT ![r] = Quiet] BY <1>2 DEF PickEdition
    <2>2. ReadInv(Quiet) BY DEF ReadInv, Quiet, Local
    <2> QED BY <2>1, <2>2, ReaderKeeps DEF PickEdition
  <1>3. CASE heads # {}
    <2> DEFINE t == CHOOSE h \in NewestOf(heads) : TRUE
    <2>1. \E h \in NewestOf(heads) : TRUE
      BY <1>3 DEF NewsInv, TableInv, SomeNewest, NewestOf
    <2>2. t \in heads /\ \A g \in heads : ~Before(g, t)
      BY <2>1 DEF NewestOf
    <2>3. ASSUME NEW s, s = [reader[r] EXCEPT !.pc = "pointer", !.target = t.edition]
          PROVE  NewsInv'
      <3>1. /\ s.pc = "pointer" /\ s.target = t.edition /\ s.floor = reader[r].floor
            /\ Local \subseteq DOMAIN s
        BY <1>1, <2>3 DEF ReadInv, Local
      <3>2. ASSUME NEW f \in s.floor PROVE Kept(f) /\ ~Before(f, t)
        <4>1. Kept(f) BY <1>1, <3>1 DEF ReadInv, PickEdition
        <4>2. PICK h \in heads : h.edition = f.edition /\ h.date = f.date
          BY <4>1 DEF Kept
        <4>3. ~Before(h, t) BY <2>2
        <4> QED BY <4>1, <4>2, <4>3 DEF Before
      <3>3. ReadInv(s) BY <2>2, <3>1, <3>2 DEF ReadInv
      <3>4. reader' = [reader EXCEPT ![r] = s] BY <1>1, <1>3, <2>3 DEF PickEdition
      <3> QED BY <3>3, <3>4, ReaderKeeps DEF PickEdition
    <2> QED BY <2>3
  <1> QED BY <1>2, <1>3

LEMMA ReadPointerKeeps ==
  ASSUME NewsInv, NEW r \in Reader, ReadPointer(r)
  PROVE  NewsInv'
  <1> DEFINE target == reader[r].target
             shown == {i \in DOMAIN publications :
                         /\ publications[i].edition = target
                         /\ publications[i].revision = RevisionOf(target)
                         /\ Object(publications[i]) \in objects}
             view == {publications[i] : i \in shown}
  <1>1. DOMAIN reader = Reader /\ ReadInv(reader[r]) /\ TableInv
    BY DEF NewsInv, ReaderInv
  <1>2. CASE shown = {}
    <2>1. reader' = [reader EXCEPT ![r] = Quiet] BY <1>2 DEF ReadPointer
    <2>2. ReadInv(Quiet) BY DEF ReadInv, Quiet, Local
    <2> QED BY <2>1, <2>2, ReaderKeeps DEF ReadPointer
  <1>3. CASE shown # {}
    <2>1. PICK t \in heads : t.edition = target /\ \A f \in reader[r].floor : ~Before(f, t)
      BY <1>1 DEF ReadInv, ReadPointer
    <2>2. RevisionOf(target) = t.revision /\ t \in Edition
      BY <1>1, <2>1, RevisionOfHead DEF TableInv
    <2>3. PICK k \in shown : TRUE BY <1>3
    <2>4. publications \in Seq(Made) BY <1>1 DEF TableInv
    <2>5. ASSUME NEW i \in shown PROVE i = k
      <3>1. publications[i].edition = publications[k].edition
        BY <2>3, <2>5
      <3>2. publications[i].revision = publications[k].revision
        BY <2>3, <2>5
      <3>3. i \in Int /\ k \in Int /\ publications[i] \in Made /\ publications[k] \in Made
        BY <2>3, <2>4, <2>5
      <3>4. publications[i].revision \in Int BY <3>3, MadeTypes
      <3>5. /\ i < k => publications[i].revision < publications[k].revision
            /\ k < i => publications[k].revision < publications[i].revision
        BY <1>1, <2>3, <3>1 DEF TableInv, HistoryIsSound
      <3> QED BY <3>2, <3>3, <3>4, <3>5
    <2>6. view = {publications[k]} BY <2>3, <2>5
    <2>7. Cardinality(view) = 1 BY <2>6, FS_Singleton
    <2>8. publications[k].edition = t.edition /\ publications[k].date = t.date
          /\ publications[k].revision = t.revision
      <3>1. PICK h \in heads : h.edition = publications[k].edition
                               /\ h.date = publications[k].date
        BY <1>1, <2>3 DEF TableInv, HistoryIsSound
      <3>2. h = t BY <1>1, <2>1, <2>3, <3>1 DEF TableInv, OneHead
      <3> QED BY <2>1, <2>2, <2>3, <3>1, <3>2
    <2>9. ASSUME NEW f \in reader[r].floor PROVE NotStale(publications[k], f)
      <3>1. Kept(f) BY <1>1 DEF ReadInv, ReadPointer
      <3>2. PICK h \in heads : h.edition = f.edition /\ h.date = f.date
                               /\ h.revision >= f.revision
        BY <3>1 DEF Kept
      <3>3. f.edition = t.edition => h = t BY <1>1, <3>2 DEF TableInv, OneHead
      <3>4. ~Before(f, publications[k]) BY <2>1, <2>8 DEF Before
      <3> QED BY <2>8, <3>2, <3>3, <3>4 DEF NotStale
    <2>10. ASSUME NEW s, s = [reader[r] EXCEPT !.pc = "replied", !.view = view]
           PROVE  NewsInv'
      <3>1. /\ s.pc = "replied" /\ s.view = view /\ s.floor = reader[r].floor
            /\ Local \subseteq DOMAIN s
        BY <1>1, <2>10 DEF ReadInv, Local
      <3>2. ReadInv(s)
        <4>1. \A f \in s.floor : \A v \in s.view : NotStale(v, f)
          BY <2>6, <2>9, <3>1
        <4> QED BY <2>7, <3>1, <4>1 DEF ReadInv
      <3>3. reader' = [reader EXCEPT ![r] = s] BY <1>1, <1>3, <2>10 DEF ReadPointer
      <3> QED BY <3>2, <3>3, ReaderKeeps DEF ReadPointer
    <2> QED BY <2>10
  <1> QED BY <1>2, <1>3

LEMMA StepKeeps == NewsInv /\ [Next]_vars => NewsInv'
  <1> SUFFICES ASSUME NewsInv, [Next]_vars PROVE NewsInv' OBVIOUS
  <1>1. ASSUME NEW p \in Publisher,
               \/ Publish(p) \/ PutEdition(p) \/ AppendPublication(p)
               \/ Confirm(p) \/ EndPublish(p)
        PROVE  NewsInv'
    BY <1>1, PublishKeeps, PutEditionKeeps, AppendKeeps, ConfirmKeeps, EndPublishKeeps
  <1>2. ASSUME NEW r \in Reader,
               \/ BeginListing(r) \/ ListPage(r) \/ EndListing(r)
               \/ BeginRead(r) \/ PickEdition(r) \/ ReadPointer(r) \/ EndRead(r)
        PROVE  NewsInv'
    BY <1>2, ListingKeeps, BeginReadKeeps, PickEditionKeeps, ReadPointerKeeps
  <1>3. CASE UNCHANGED vars
    BY <1>3 DEF vars, NewsInv, TableInv, OneHead, SomeNewest, HistoryIsSound, HeadsOf,
                PublishInv, CallInv, Answers, ReaderInv, ReadInv, Kept
  <1> QED BY <1>1, <1>2, <1>3 DEF Next

LEMMA NewsInvariant == Spec => []NewsInv
  BY InitInv, StepKeeps, PTL DEF Spec

-----------------------------------------------------------------------------
\* The tables satisfy the Doctor's check between any two transactions
\* (journal/sqlite.py append_news_publication, validate_news_invariants).
THEOREM HistoriesAreSound == Spec => []HistoryIsSound
  <1>1. NewsInv => HistoryIsSound BY DEF NewsInv, TableInv
  <1> QED BY <1>1, NewsInvariant, PTL

\* A publication that was there before the call is answered "existing", however
\* many revisions followed it: the transaction looks at the identity first
\* (journal/sqlite.py append_news_publication).
THEOREM RepeatsAreRecognised == Spec => []RepeatIsRecognised
  <1>1. NewsInv => RepeatIsRecognised
    BY DEF NewsInv, PublishInv, CallInv, RepeatIsRecognised
  <1> QED BY <1>1, NewsInvariant, PTL

\* The two reads of news.read without an edition show one publication, not older
\* than what was newest when the call began (news.py read).
THEOREM ReadsAreNotStale == Spec => []NewestIsNotStale
  <1>1. NewsInv => NewestIsNotStale
    BY DEF NewsInv, ReaderInv, ReadInv, NotStale, NewestIsNotStale
  <1> QED BY <1>1, NewsInvariant, PTL

-----------------------------------------------------------------------------
\* The order of the editions

\* Editions whose order keys are not the same are before one another one way.
LEMMA BeforeIsOrder ==
  ASSUME NEW a \in Edition, NEW b \in Edition, NEW c \in Edition
  PROVE  /\ ~Before(a, a)
         /\ Before(a, b) => ~Before(b, a)
         /\ Before(a, b) /\ Before(b, c) => Before(a, c)
         /\ a.edition # b.edition => Before(a, b) \/ Before(b, a)
  <1>1. /\ a.edition \in Nat /\ a.date \in Nat /\ b.edition \in Nat /\ b.date \in Nat
        /\ c.edition \in Nat /\ c.date \in Nat
    BY DEF Edition
  <1> QED BY <1>1 DEF Before

\* Rows of the table: at most one for each edition.
Rows(S) == /\ S \subseteq Edition /\ IsFiniteSet(S)
           /\ \A g, h \in S : g.edition = h.edition => g = h

Ahead(h, S) == {g \in S : Before(g, h)}

\* Every rank from the first to the last is that of one row, and rows are ranked in
\* their order.
LEMMA RanksAreNumbers ==
  ASSUME NEW S, Rows(S), NEW h \in S
  PROVE  /\ Rank(h, S) = Cardinality(Ahead(h, S)) + 1
         /\ IsFiniteSet(Ahead(h, S)) /\ Cardinality(Ahead(h, S)) \in Nat
         /\ Cardinality(S) \in Nat /\ Rank(h, S) \in 1..Cardinality(S)
  <1> DEFINE A == Ahead(h, S)
  <1>1. IsFiniteSet(S) /\ S \subseteq Edition BY DEF Rows
  <1>2. ~Before(h, h) BY <1>1, BeforeIsOrder
  <1>3. A \in SUBSET (S \ {h}) BY <1>2 DEF Ahead
  <1>4. IsFiniteSet(S \ {h}) /\ Cardinality(S \ {h}) = Cardinality(S) - 1
    BY <1>1, FS_RemoveElement
  <1>5. IsFiniteSet(A) /\ Cardinality(A) <= Cardinality(S) - 1
    BY <1>3, <1>4, FS_Subset
  <1>6. Cardinality(A) \in Nat /\ Cardinality(S) \in Nat BY <1>1, <1>5, FS_CardinalityType
  <1>7. Rank(h, S) = Cardinality(A) + 1 BY DEF Rank, Ahead
  <1> QED BY <1>5, <1>6, <1>7

LEMMA RanksFollowOrder ==
  ASSUME NEW S, Rows(S), NEW g \in S, NEW h \in S
  PROVE  /\ Before(g, h) <=> Rank(g, S) < Rank(h, S)
         /\ Rank(g, S) = Rank(h, S) => g = h
  <1>1. S \subseteq Edition BY DEF Rows
  <1>2. ASSUME NEW a \in S, NEW b \in S, Before(a, b) PROVE Rank(a, S) < Rank(b, S)
    <2> DEFINE A == Ahead(a, S)
               B == Ahead(b, S)
    <2>1. /\ Rank(a, S) = Cardinality(A) + 1 /\ Rank(b, S) = Cardinality(B) + 1
          /\ IsFiniteSet(B) /\ Cardinality(A) \in Nat /\ Cardinality(B) \in Nat
      BY RanksAreNumbers
    <2>2. \A c \in S : Before(c, a) => Before(c, b) /\ c # a
      BY <1>1, <1>2, BeforeIsOrder
    <2>3. A \in SUBSET (B \ {a}) /\ a \in B BY <1>2, <2>2 DEF Ahead
    <2> HIDE DEF A, B
    <2>4. IsFiniteSet(B \ {a}) /\ Cardinality(B \ {a}) = Cardinality(B) - 1
      BY <2>1, <2>3, FS_RemoveElement
    <2>5. Cardinality(A) <= Cardinality(B) - 1 BY <2>3, <2>4, FS_Subset
    <2> QED BY <2>1, <2>5
  <1>3. Rank(g, S) \in Nat /\ Rank(h, S) \in Nat BY RanksAreNumbers
  <1>4. g = h \/ Before(g, h) \/ Before(h, g)
    BY <1>1, BeforeIsOrder DEF Rows
  <1>5. /\ Before(g, h) => Rank(g, S) < Rank(h, S)
        /\ Before(h, g) => Rank(h, S) < Rank(g, S)
    BY <1>2
  <1>6. ~Before(g, g) BY <1>1, BeforeIsOrder
  <1> QED BY <1>3, <1>4, <1>5, <1>6

\* The first Limit rows, all of them if they are not more.
FirstOf(S) == {h \in S : Rank(h, S) <= Limit}

\* The rows of one page, in their order, are ranked 1, 2, 3 ...
LEMMA PageIsRanked ==
  ASSUME NEW S, Rows(S), NEW V, V = FirstOf(S), NEW m, m = Cardinality(V)
  PROVE  /\ m \in Nat /\ Cardinality(S) \in Nat
         /\ m = IF Cardinality(S) <= Limit THEN Cardinality(S) ELSE Limit
         /\ \A k \in 1..m : \E h \in V : Rank(h, S) = k
         /\ \A h \in V : Rank(h, S) \in 1..m
  <1> DEFINE n == Cardinality(S)
             l == IF n <= Limit THEN n ELSE Limit
             f == [h \in S |-> Rank(h, S)]
             g == [h \in V |-> Rank(h, S)]
  <1>1. IsFiniteSet(S) /\ n \in Nat /\ Limit \in Nat
    BY NewsAssumption, FS_CardinalityType DEF Rows
  <1>2. \A h \in S : Rank(h, S) \in 1..n BY RanksAreNumbers
  <1>3. \A a, b \in S : Rank(a, S) = Rank(b, S) => a = b BY RanksFollowOrder
  <1>4. IsFiniteSet(1..n) /\ Cardinality(1..n) = n BY <1>1, FS_Interval
  <1>5. f \in Injection(S, 1..n) BY <1>2, <1>3 DEF Injection, IsInjective
  <1>6. f \in Surjection(S, 1..n) BY <1>4, <1>5, FS_Injection
  <1>7. \A k \in 1..n : \E h \in S : Rank(h, S) = k
    BY <1>6 DEF Surjection
  <1>8. l \in Nat /\ l <= n /\ l <= Limit /\ 1..l \subseteq 1..n BY <1>1
  <1>9. V \subseteq S /\ \A h \in V : Rank(h, S) \in 1..l
    BY <1>1, <1>2 DEF FirstOf
  <1>10. \A k \in 1..l : \E h \in V : Rank(h, S) = k
    <2> TAKE k \in 1..l
    <2>1. PICK h \in S : Rank(h, S) = k BY <1>7, <1>8
    <2>2. k <= Limit BY <1>1, <1>8
    <2> QED BY <2>1, <2>2 DEF FirstOf
  <1>11. IsFiniteSet(1..l) /\ Cardinality(1..l) = l
    <2> HIDE DEF l
    <2>1. l \in Nat BY <1>8
    <2> QED BY <2>1, FS_Interval
  <1>12. g \in Injection(V, 1..l) BY <1>3, <1>9 DEF Injection, IsInjective
  <1>13. g \in Surjection(V, 1..l) BY <1>9, <1>10 DEF Surjection
  <1>14. m = l BY <1>11, <1>12, <1>13, FS_Injection
  <1> QED BY <1>1, <1>8, <1>9, <1>10, <1>14

-----------------------------------------------------------------------------
\* A listing under way

Shown(s) == {s.seen[k] : k \in DOMAIN s.seen}
Behind(s, h) == \A c \in s.cursor : Before(c, h)

\* What was shown is in order and is still there; what is owed and was not shown
\* is behind the cursor, which is the last edition shown.
Listed(s) ==
  /\ s.seen \in Seq(Nat)
  /\ \A k \in DOMAIN s.seen : \E h \in heads : h.edition = s.seen[k]
  /\ \A j, k \in DOMAIN s.seen : j < k =>
       \A g, h \in heads : g.edition = s.seen[j] /\ h.edition = s.seen[k] => Before(g, h)
  /\ s.pc = "paging" =>
       /\ s.seen = <<>> => s.cursor = {}
       /\ s.seen # <<>> => \E h \in heads :
            /\ h.edition = s.seen[Len(s.seen)]
            /\ s.cursor = {[edition |-> h.edition, date |-> h.date]}
       /\ \A e \in s.owed \ Shown(s) : \E h \in heads :
            h.edition = e /\ InScope(h, s.scope) /\ Behind(s, h)
  /\ s.pc = "done" => s.owed \subseteq Shown(s)

ListingInv ==
  /\ NewsInv
  /\ IsFiniteSet(heads)
  /\ \A r \in Reader : Listed(reader[r])

\* An edition keeps its date, so it keeps its place and its scope.
LEMMA PlacesStay ==
  ASSUME TableInv, TableInv', HeadsMove, NEW h \in heads, NEW g \in heads',
         g.edition = h.edition
  PROVE  g.date = h.date
  <1>1. PICK k \in heads' : k.edition = h.edition /\ k.date = h.date BY DEF HeadsMove
  <1>2. k = g BY <1>1 DEF TableInv, OneHead
  <1> QED BY <1>1, <1>2

LEMMA ListedStays ==
  ASSUME TableInv, TableInv', HeadsMove, NEW s, Listed(s)
  PROVE  Listed(s)'
  <1>1. ASSUME NEW e, \E h \in heads : h.edition = e
        PROVE  \E h \in heads' : h.edition = e
    BY <1>1 DEF HeadsMove
  <1>2. ASSUME NEW j \in DOMAIN s.seen, NEW k \in DOMAIN s.seen, j < k,
               NEW g \in heads', NEW h \in heads',
               g.edition = s.seen[j], h.edition = s.seen[k]
        PROVE  Before(g, h)
    <2>1. PICK a \in heads : a.edition = s.seen[j] BY DEF Listed
    <2>2. PICK b \in heads : b.edition = s.seen[k] BY DEF Listed
    <2>3. Before(a, b) BY <1>2, <2>1, <2>2 DEF Listed
    <2>4. a.date = g.date /\ b.date = h.date BY <1>2, <2>1, <2>2, PlacesStay
    <2> QED BY <1>2, <2>1, <2>2, <2>3, <2>4 DEF Before
  <1>3. ASSUME s.pc = "paging", s.seen # <<>>
        PROVE  \E h \in heads' :
                 /\ h.edition = s.seen[Len(s.seen)]
                 /\ s.cursor = {[edition |-> h.edition, date |-> h.date]}
    <2>1. PICK h \in heads : /\ h.edition = s.seen[Len(s.seen)]
                             /\ s.cursor = {[edition |-> h.edition, date |-> h.date]}
      BY <1>3 DEF Listed
    <2>2. PICK g \in heads' : g.edition = h.edition /\ g.date = h.date BY DEF HeadsMove
    <2> QED BY <2>1, <2>2
  <1>4. ASSUME s.pc = "paging", NEW e \in s.owed \ Shown(s)
        PROVE  \E h \in heads' : h.edition = e /\ InScope(h, s.scope) /\ Behind(s, h)
    <2>1. PICK h \in heads : h.edition = e /\ InScope(h, s.scope) /\ Behind(s, h)
      BY <1>4 DEF Listed
    <2>2. PICK g \in heads' : g.edition = h.edition /\ g.date = h.date BY DEF HeadsMove
    <2>3. InScope(g, s.scope) BY <2>1, <2>2 DEF InScope
    <2>4. Behind(s, g) BY <2>1, <2>2 DEF Behind, Before
    <2> QED BY <2>1, <2>2, <2>3, <2>4
  <1>5. s.seen \in Seq(Nat) /\ (s.pc = "done" => s.owed \subseteq Shown(s))
    BY DEF Listed
  <1>6. s.pc = "paging" => (s.seen = <<>> => s.cursor = {})
    BY DEF Listed
  <1>7. \A k \in DOMAIN s.seen : \E h \in heads' : h.edition = s.seen[k]
    BY <1>1 DEF Listed
  <1> HIDE DEF Shown, Behind, InScope, Before
  <1> QED BY <1>2, <1>3, <1>4, <1>5, <1>6, <1>7 DEF Listed

\* A listing that has shown nothing, and a reader that does not list.
LEMMA NothingListed ==
  ASSUME NEW s, s.seen = <<>>, s.pc \notin {"paging", "done"}
  PROVE  Listed(s)
  <1>1. s.seen \in Seq(Nat) /\ DOMAIN s.seen = {} OBVIOUS
  <1> QED BY <1>1 DEF Listed

LEMMA StillListed ==
  ASSUME NEW s, NEW t, Listed(s), t.seen = s.seen, t.pc \notin {"paging", "done"}
  PROVE  Listed(t)
  BY DEF Listed

\* The editions in scope behind the cursor are rows of the table.
LEMMA AfterIsRows ==
  ASSUME ListingInv, NEW scope, NEW cursor
  PROVE  Rows(After(scope, cursor))
  <1>1. After(scope, cursor) \in SUBSET heads BY DEF After
  <1>2. IsFiniteSet(After(scope, cursor)) BY <1>1, FS_Subset DEF ListingInv
  <1>3. heads \subseteq Edition /\ OneHead BY DEF ListingInv, NewsInv, TableInv
  <1> QED BY <1>1, <1>2, <1>3 DEF Rows, OneHead

\* What a sequence and a page after it show together.
Follows(a, b, c) ==
  /\ c \in Seq(Nat) /\ Len(c) = Len(a) + Len(b)
  /\ DOMAIN a = 1..Len(a) /\ DOMAIN b = 1..Len(b) /\ DOMAIN c = 1..Len(c)
  /\ Len(a) \in Nat /\ Len(b) \in Nat
  /\ \A i \in DOMAIN a : i \in DOMAIN c /\ c[i] = a[i]
  /\ \A i \in DOMAIN b : Len(a) + i \in DOMAIN c /\ c[Len(a) + i] = b[i]
  /\ \A i \in DOMAIN c : \/ i \in DOMAIN a
                         \/ \E k \in DOMAIN b : i = Len(a) + k

LEMMA PageFollows ==
  ASSUME NEW a \in Seq(Nat), NEW b \in Seq(Nat), NEW c, c = a \o b
  PROVE  Follows(a, b, c)
  <1>1. /\ c \in Seq(Nat) /\ Len(c) = Len(a) + Len(b)
        /\ \A i \in 1..(Len(a) + Len(b)) :
             c[i] = IF i <= Len(a) THEN a[i] ELSE b[i - Len(a)]
    BY ConcatProperties
  <1>2. /\ Len(a) \in Nat /\ Len(b) \in Nat
        /\ DOMAIN a = 1..Len(a) /\ DOMAIN b = 1..Len(b) /\ DOMAIN c = 1..Len(c)
    BY <1>1, LenProperties
  <1>3. \A i \in 1..Len(b) : ~(Len(a) + i <= Len(a)) /\ (Len(a) + i) - Len(a) = i
    BY <1>2
  <1>4. \A i \in DOMAIN a : i \in DOMAIN c /\ c[i] = a[i] BY <1>1, <1>2
  <1>5. \A i \in DOMAIN b : Len(a) + i \in DOMAIN c /\ c[Len(a) + i] = b[i]
    <2> TAKE i \in DOMAIN b
    <2>1. i \in 1..Len(b) /\ Len(a) + i \in 1..(Len(a) + Len(b)) BY <1>2
    <2>2. c[Len(a) + i] = b[(Len(a) + i) - Len(a)] BY <1>1, <1>3, <2>1
    <2> QED BY <1>1, <1>2, <1>3, <2>1, <2>2
  <1>6. \A i \in DOMAIN c : i \in DOMAIN a \/ \E k \in DOMAIN b : i = Len(a) + k
    <2> TAKE i \in DOMAIN c
    <2>1. i \in 1..(Len(a) + Len(b)) BY <1>1, <1>2
    <2>2. CASE i <= Len(a) BY <1>2, <2>1, <2>2
    <2>3. CASE i > Len(a)
      <3>1. i - Len(a) \in DOMAIN b /\ i = Len(a) + (i - Len(a)) BY <1>2, <2>1, <2>3
      <3> QED BY <3>1
    <2> QED BY <1>2, <2>1, <2>2, <2>3
  <1> QED BY <1>1, <1>2, <1>4, <1>5, <1>6 DEF Follows

\* A page holds the first rows in their order, and precedes every other row.
OrderedPage(S, V, m, page) ==
  /\ m \in Nat /\ Len(page) = m /\ DOMAIN page = 1..m
  /\ \A k \in 1..m : page[k] \in S
  /\ \A j, k \in 1..m : j < k => Before(page[j], page[k])
  /\ \A h \in V : \E k \in 1..m : page[k] = h
  /\ Cardinality(S) > Limit => m \in 1..m /\ \A h \in S \ V : Before(page[m], h)
  /\ ~(Cardinality(S) > Limit) => S \subseteq V

LEMMA PageInOrder ==
  ASSUME NEW S, Rows(S), NEW V, V = FirstOf(S), NEW m, m = Cardinality(V),
         NEW page, page = [k \in 1..m |-> CHOOSE h \in V : Rank(h, S) = k]
  PROVE  OrderedPage(S, V, m, page)
  <1>1. /\ m \in Nat /\ Cardinality(S) \in Nat
        /\ m = IF Cardinality(S) <= Limit THEN Cardinality(S) ELSE Limit
        /\ \A k \in 1..m : \E h \in V : Rank(h, S) = k
        /\ \A h \in V : Rank(h, S) \in 1..m
    BY PageIsRanked
  <1>2. Limit \in Nat \ {0} BY NewsAssumption
  <1>3. V \subseteq S /\ \A h \in S \ V : ~(Rank(h, S) <= Limit) BY DEF FirstOf
  <1>4. \A h \in S : Rank(h, S) \in 1..Cardinality(S) BY RanksAreNumbers
  <1>5. ASSUME NEW k \in 1..m PROVE page[k] \in V /\ Rank(page[k], S) = k
    <2>1. page[k] = CHOOSE h \in V : Rank(h, S) = k OBVIOUS
    <2> QED BY <1>1, <2>1
  <1>6. DOMAIN page = 1..m /\ Len(page) = m
    <2>1. DOMAIN page = 1..m OBVIOUS
    <2>2. page \in Seq(V) BY <1>1, <1>5, <2>1
    <2> QED BY <1>1, <2>1, <2>2
  <1>7. \A j, k \in 1..m : j < k => Before(page[j], page[k])
    <2> TAKE j, k \in 1..m
    <2> HAVE j < k
    <2>1. page[j] \in S /\ page[k] \in S /\ Rank(page[j], S) = j /\ Rank(page[k], S) = k
      BY <1>3, <1>5
    <2> QED BY <2>1, RanksFollowOrder
  <1>8. \A h \in V : \E k \in 1..m : page[k] = h
    <2> TAKE h \in V
    <2>1. Rank(h, S) \in 1..m /\ h \in S BY <1>1, <1>3
    <2>2. page[Rank(h, S)] \in S /\ Rank(page[Rank(h, S)], S) = Rank(h, S)
      BY <1>3, <1>5, <2>1
    <2>3. page[Rank(h, S)] = h BY <2>1, <2>2, RanksFollowOrder
    <2> QED BY <2>1, <2>3
  <1>9. ASSUME Cardinality(S) > Limit
        PROVE  m \in 1..m /\ \A h \in S \ V : Before(page[m], h)
    <2>1. m = Limit /\ m \in 1..m BY <1>1, <1>2, <1>9
    <2>2. ASSUME NEW h \in S \ V PROVE Before(page[m], h)
      <3>1. Rank(h, S) \in Nat /\ Rank(h, S) > m BY <1>1, <1>2, <1>3, <1>4, <2>1
      <3>2. page[m] \in S /\ Rank(page[m], S) = m BY <1>3, <1>5, <2>1
      <3> QED BY <3>1, <3>2, RanksFollowOrder
    <2> QED BY <2>1, <2>2
  <1>10. ASSUME ~(Cardinality(S) > Limit) PROVE S \subseteq V
    <2>1. ASSUME NEW h \in S PROVE Rank(h, S) <= Limit
      BY <1>1, <1>2, <1>4, <1>10
    <2> QED BY <2>1 DEF FirstOf
  <1> QED BY <1>1, <1>3, <1>5, <1>6, <1>7, <1>8, <1>9, <1>10 DEF OrderedPage

\* t has shown the page after s, and goes on if there are more rows.
Paged(s, t, S, page) ==
  /\ t.scope = s.scope /\ t.owed = s.owed
  /\ t.seen = s.seen \o [k \in DOMAIN page |-> page[k].edition]
  /\ IF Cardinality(S) > Limit
     THEN /\ t.pc = "paging"
          /\ t.cursor = {[edition |-> page[Len(page)].edition, date |-> page[Len(page)].date]}
     ELSE t.pc = "done"

\* The listing goes on after the page, or was complete with it.
LEMMA PageIsListed ==
  ASSUME ListingInv, NEW s, Listed(s), s.pc = "paging",
         NEW S, S = After(s.scope, s.cursor),
         NEW V, NEW m, NEW page, OrderedPage(S, V, m, page),
         NEW t, Paged(s, t, S, page)
  PROVE  Listed(t)
  <1> DEFINE a == s.seen
             b == [k \in DOMAIN page |-> page[k].edition]
  <1>3. /\ S \subseteq heads /\ heads \subseteq Edition /\ OneHead
        /\ \A h \in S : Behind(s, h)
        /\ \A h \in heads : InScope(h, s.scope) /\ Behind(s, h) => h \in S
    BY DEF ListingInv, NewsInv, TableInv, After, Behind
  <1>c. /\ t.scope = s.scope /\ t.owed = s.owed
        /\ t.seen = a \o b
        /\ IF Cardinality(S) > Limit
           THEN /\ t.pc = "paging"
                /\ t.cursor = {[edition |-> page[Len(page)].edition,
                                date |-> page[Len(page)].date]}
           ELSE t.pc = "done"
    BY DEF Paged
  <1>2. /\ m \in Nat /\ Len(page) = m /\ DOMAIN page = 1..m
        /\ \A k \in 1..m : page[k] \in S
        /\ \A j, k \in 1..m : j < k => Before(page[j], page[k])
        /\ \A h \in V : \E k \in 1..m : page[k] = h
        /\ Cardinality(S) > Limit => m \in 1..m /\ \A h \in S \ V : Before(page[m], h)
        /\ ~(Cardinality(S) > Limit) => S \subseteq V
    BY DEF OrderedPage
  <1>4. b \in Seq(Nat) /\ DOMAIN b = 1..m /\ \A k \in 1..m : b[k] = page[k].edition
    <2>1. \A k \in 1..m : page[k].edition \in Nat BY <1>2, <1>3 DEF Edition
    <2>a. DOMAIN page = 1..m BY <1>2
    <2>b. DOMAIN b = 1..m BY <2>a
    <2>2. DOMAIN b = 1..m /\ \A k \in 1..m : b[k] = page[k].edition BY <2>a, <2>b
    <2>c. b = [k \in 1..m |-> b[k]] BY <2>a
    <2> HIDE DEF b
    <2>4. b \in [1..m -> Nat] BY <2>1, <2>2, <2>c
    <2>5. b \in Seq(Nat) BY <1>2, <2>4
    <2> QED BY <2>2, <2>5
  <1>5. a \in Seq(Nat) BY DEF Listed, a
  <1> HIDE DEF b
  <1> HIDE DEF a
  <1>a. Follows(a, b, t.seen) BY <1>4, <1>5, <1>c, PageFollows
  <1>7. /\ t.seen \in Seq(Nat) /\ Len(t.seen) = Len(a) + Len(b)
        /\ DOMAIN a = 1..Len(a) /\ DOMAIN b = 1..Len(b) /\ DOMAIN t.seen = 1..Len(t.seen)
        /\ Len(a) \in Nat /\ Len(b) \in Nat
        /\ \A i \in DOMAIN a : i \in DOMAIN t.seen /\ t.seen[i] = a[i]
        /\ \A i \in DOMAIN b : Len(a) + i \in DOMAIN t.seen /\ t.seen[Len(a) + i] = b[i]
        /\ \A i \in DOMAIN t.seen : \/ i \in DOMAIN a
                                    \/ \E k \in DOMAIN b : i = Len(a) + k
    BY <1>a DEF Follows
  <1>8. Len(b) = m BY <1>2, <1>4, <1>7
  <1>9. \A k \in DOMAIN t.seen : \E h \in heads : h.edition = t.seen[k]
    <2> TAKE k \in DOMAIN t.seen
    <2>1. CASE k \in DOMAIN a BY <2>1, <1>7 DEF Listed, a
    <2>2. ASSUME NEW i \in DOMAIN b, k = Len(a) + i
          PROVE  \E h \in heads : h.edition = t.seen[k]
      <3>1. page[i] \in heads /\ t.seen[k] = page[i].edition BY <1>2, <1>3, <1>4, <1>7, <2>2
      <3> QED BY <3>1
    <2> QED BY <1>7, <2>1, <2>2
  \* What was shown before the page is before the page.
  <1>10. ASSUME NEW j \in DOMAIN a, NEW g \in heads, g.edition = a[j], NEW h \in S
         PROVE  Before(g, h)
    <2>1. a # <<>> BY <1>10, <1>7
    <2>2. PICK last \in heads :
            /\ last.edition = a[Len(a)]
            /\ s.cursor = {[edition |-> last.edition, date |-> last.date]}
      BY <2>1 DEF Listed, a
    <2>3. Before(last, h)
      <3>1. Behind(s, h) BY <1>3
      <3>2. Before([edition |-> last.edition, date |-> last.date], h)
        BY <2>2, <3>1 DEF Behind
      <3> QED BY <3>2 DEF Before
    <2>4. CASE j = Len(a)
      <3>1. g = last BY <1>3, <1>10, <2>2, <2>4 DEF OneHead
      <3> QED BY <2>3, <3>1
    <2>5. CASE j # Len(a)
      <3>1. j < Len(a) /\ Len(a) \in DOMAIN a BY <1>7, <1>10, <2>5
      <3>2. Before(g, last) BY <1>10, <2>2, <3>1 DEF Listed, a
      <3>3. g \in Edition /\ last \in Edition /\ h \in Edition BY <1>3
      <3> QED BY <2>3, <3>2, <3>3, BeforeIsOrder
    <2> QED BY <2>4, <2>5
  <1>11. ASSUME NEW j \in DOMAIN t.seen, NEW k \in DOMAIN t.seen, j < k,
                NEW g \in heads, NEW h \in heads,
                g.edition = t.seen[j], h.edition = t.seen[k]
         PROVE  Before(g, h)
    <2>1. CASE k \in DOMAIN a
      <3>1. j \in DOMAIN a
        <4>1. k \in 1..Len(a) BY <1>7, <2>1
        <4>2. \/ j \in DOMAIN a
              \/ \E i \in DOMAIN b : j = Len(a) + i
          BY <1>7
        <4>3. \A i \in DOMAIN b : ~(Len(a) + i < k) BY <1>7, <4>1
        <4> QED BY <1>11, <4>2, <4>3
      <3>2. t.seen[j] = a[j] /\ t.seen[k] = a[k] BY <1>7, <2>1, <3>1
      <3> QED BY <1>11, <2>1, <3>1, <3>2 DEF Listed, a
    <2>2. ASSUME NEW i \in DOMAIN b, k = Len(a) + i PROVE Before(g, h)
      <3>1. i \in 1..m /\ page[i] \in S /\ t.seen[k] = page[i].edition
        BY <1>2, <1>4, <1>7, <2>2
      <3>2. h = page[i] BY <1>3, <1>11, <3>1 DEF OneHead
      <3>3. CASE j \in DOMAIN a
        <4>1. g.edition = a[j] BY <1>7, <1>11, <3>3
        <4> QED BY <1>10, <3>1, <3>2, <3>3, <4>1
      <3>4. ASSUME NEW l \in DOMAIN b, j = Len(a) + l PROVE Before(g, h)
        <4>1. l \in 1..m /\ page[l] \in S /\ t.seen[j] = page[l].edition
          BY <1>2, <1>4, <1>7, <3>4
        <4>2. g = page[l] BY <1>3, <1>11, <4>1 DEF OneHead
        <4>3. l < i BY <1>7, <1>11, <2>2, <3>1, <3>4, <4>1
        <4> QED BY <1>2, <3>1, <3>2, <4>1, <4>2, <4>3
      <3> QED BY <1>7, <3>3, <3>4
    <2> QED BY <1>7, <2>1, <2>2
  <1>12. Shown(s) \subseteq Shown(t) BY <1>7 DEF Shown, a
  <1>13. \A h \in V : h.edition \in Shown(t)
    <2> TAKE h \in V
    <2>1. PICK k \in 1..m : page[k] = h BY <1>2
    <2>2. Len(a) + k \in DOMAIN t.seen /\ t.seen[Len(a) + k] = h.edition
      BY <1>4, <1>7, <2>1
    <2> QED BY <2>2 DEF Shown
  \* What is owed and was not shown is a row after the page.
  <1>14. ASSUME NEW e \in t.owed \ Shown(t)
         PROVE  \E h \in S \ V : h.edition = e /\ InScope(h, s.scope)
    <2>1. e \in s.owed \ Shown(s) BY <1>c, <1>12, <1>14
    <2>2. PICK h \in heads : h.edition = e /\ InScope(h, s.scope) /\ Behind(s, h)
      BY <2>1 DEF Listed
    <2>3. h \in S BY <1>3, <2>2
    <2>4. h \notin V BY <1>13, <1>14, <2>2
    <2> QED BY <2>2, <2>3, <2>4
  <1>b. /\ t.seen \in Seq(Nat)
        /\ \A j, k \in DOMAIN t.seen : j < k =>
             \A g, h \in heads : g.edition = t.seen[j] /\ h.edition = t.seen[k] => Before(g, h)
    BY <1>7, <1>11
  <1> HIDE DEF Before
  <1>15. CASE Cardinality(S) > Limit
    <2>1. /\ t.pc = "paging"
          /\ t.cursor = {[edition |-> page[m].edition, date |-> page[m].date]}
          /\ m \in 1..m /\ \A h \in S \ V : Before(page[m], h)
      BY <1>2, <1>15, <1>c
    <2>2. t.seen # <<>> /\ t.seen[Len(t.seen)] = page[m].edition
      <3>1. Len(t.seen) = Len(a) + m /\ Len(a) + m \in DOMAIN t.seen
        BY <1>4, <1>7, <1>8, <2>1
      <3>2. t.seen[Len(a) + m] = b[m] BY <1>4, <1>7, <2>1
      <3>3. b[m] = page[m].edition BY <1>4, <2>1
      <3>4. t.seen # <<>> BY <1>7, <3>1
      <3> QED BY <3>1, <3>2, <3>3, <3>4
    <2>3. page[m] \in heads BY <1>2, <1>3, <2>1
    <2>4. ASSUME NEW e \in t.owed \ Shown(t)
          PROVE  \E h \in heads : h.edition = e /\ InScope(h, t.scope) /\ Behind(t, h)
      <3>1. PICK h \in S \ V : h.edition = e /\ InScope(h, s.scope) BY <1>14, <2>4
      <3>2. Before(page[m], h) BY <2>1
      <3>3. Behind(t, h) BY <2>1, <3>2 DEF Behind, Before
      <3> QED BY <1>3, <1>c, <3>1, <3>3
    <2> HIDE DEF Shown, Behind, InScope
    <2>5. \E h \in heads : /\ h.edition = t.seen[Len(t.seen)]
                           /\ t.cursor = {[edition |-> h.edition, date |-> h.date]}
      BY <2>1, <2>2, <2>3
    <2>6. t.pc = "paging" /\ t.seen # <<>> BY <2>1, <2>2
    <2> QED BY <1>9, <1>b, <2>4, <2>5, <2>6 DEF Listed
  <1>16. CASE ~(Cardinality(S) > Limit)
    <2>1. t.pc = "done" /\ S \subseteq V BY <1>2, <1>16, <1>c
    <2>2. t.owed \subseteq Shown(t) BY <1>14, <2>1
    <2> QED BY <1>9, <1>b, <2>1, <2>2 DEF Listed
  <1> QED BY <1>15, <1>16

\* A step that leaves the tables alone leaves every other listing alone.
LEMMA ReaderLists ==
  ASSUME ListingInv, NewsInv', NEW r \in Reader, NEW s,
         reader' = [reader EXCEPT ![r] = s], Listed(s),
         UNCHANGED <<publications, heads, objects, publish>>
  PROVE  ListingInv'
  <1>1. TableInv /\ TableInv' /\ HeadsMove BY TablesStay DEF ListingInv, NewsInv
  <1>2. IsFiniteSet(heads') BY DEF ListingInv
  <1>3. ASSUME NEW o \in Reader PROVE Listed(reader[o])'
    <2>1. ASSUME NEW t, t = reader'[o] PROVE Listed(t)'
      <3>1. t = s \/ t = reader[o]
        BY <2>1 DEF ListingInv, NewsInv, ReaderInv
      <3>2. Listed(t) BY <3>1 DEF ListingInv
      <3> QED BY <1>1, <3>2, ListedStays
    <2>2. ASSUME NEW t, t = reader'[o] PROVE Listed(reader[o])'
      <3>1. Listed(t)' BY <2>1, <2>2
      <3> QED BY <2>2, <3>1 DEF Listed, Shown, Behind
    <2> QED BY <2>2
  <1> QED BY <1>2, <1>3 DEF ListingInv

\* A step that publishes moves the heads, and the listings go on.
LEMMA HeadsMoveLists ==
  ASSUME ListingInv, NewsInv', HeadsMove, IsFiniteSet(heads'), reader' = reader
  PROVE  ListingInv'
  <1>1. TableInv /\ TableInv' BY DEF ListingInv, NewsInv
  <1>2. ASSUME NEW o \in Reader PROVE Listed(reader[o])'
    <2>1. ASSUME NEW t, t = reader[o] PROVE Listed(reader[o])'
      <3>1. Listed(t) BY <2>1 DEF ListingInv
      <3>2. Listed(t)' BY <1>1, <3>1, ListedStays
      <3> QED BY <2>1, <3>2 DEF Listed, Shown, Behind
    <2> QED BY <2>1
  <1> QED BY <1>2 DEF ListingInv

LEMMA PublishersList ==
  ASSUME ListingInv, NewsInv', NEW p \in Publisher,
         \/ Publish(p) \/ PutEdition(p) \/ AppendPublication(p)
         \/ Confirm(p) \/ EndPublish(p)
  PROVE  ListingInv'
  <1> DEFINE q == publish[p].request
  <1>1. reader' = reader
    BY DEF Publish, PutEdition, AppendPublication, Confirm, EndPublish
  <1>2. IsFiniteSet(heads) /\ TableInv BY DEF ListingInv, NewsInv
  <1>3. CASE heads' = heads
    <2>1. HeadsMove
      <3>1. heads \subseteq Edition BY <1>2 DEF TableInv
      <3> QED BY <1>3, <3>1 DEF HeadsMove, Edition
    <2> QED BY <1>1, <1>2, <1>3, <2>1, HeadsMoveLists
  <1>4. CASE heads' # heads
    <2>1. AppendPublication(p)
      BY <1>4 DEF Publish, PutEdition, Confirm, EndPublish
    <2>2. /\ RevisionOf(q.edition) = q.expected
          /\ \A h \in HeadsOf(q.edition) : h.date = q.date
          /\ Store(q)
      BY <1>4, <2>1 DEF AppendPublication, Refusal
    <2>3. q \in Request
      <3>1. CallInv(publish[p]) BY DEF ListingInv, NewsInv, PublishInv
      <3>2. publish[p].pc = "append" BY <2>1 DEF AppendPublication, Publishing
      <3> QED BY <3>1, <3>2 DEF CallInv
    <2>4. HeadsMove BY <1>2, <2>2, <2>3, StoreMovesHeads
    <2>5. IsFiniteSet(heads')
      <3>1. IsFiniteSet(heads \ HeadsOf(q.edition)) BY <1>2, FS_Difference
      <3> QED BY <2>2, <3>1, FS_AddElement DEF Store
    <2> QED BY <1>1, <2>4, <2>5, HeadsMoveLists
  <1> QED BY <1>3, <1>4

LEMMA BeginListingLists ==
  ASSUME ListingInv, NewsInv', NEW r \in Reader, BeginListing(r)
  PROVE  ListingInv'
  <1>1. PICK scope \in Scope :
          reader' = [reader EXCEPT ![r] =
            [Quiet EXCEPT !.pc = "paging", !.scope = scope,
               !.owed = {h.edition : h \in {g \in heads : InScope(g, scope)}}]]
    BY DEF BeginListing
  <1>2. ASSUME NEW s, s = [Quiet EXCEPT !.pc = "paging", !.scope = scope,
                 !.owed = {h.edition : h \in {g \in heads : InScope(g, scope)}}]
        PROVE  ListingInv'
    <2>1. /\ s.pc = "paging" /\ s.scope = scope /\ s.seen = <<>> /\ s.cursor = {}
          /\ s.owed = {h.edition : h \in {g \in heads : InScope(g, scope)}}
      BY <1>2 DEF Quiet
    <2>2. s.seen \in Seq(Nat) /\ DOMAIN s.seen = {} BY <2>1
    <2>3. \A e \in s.owed : \E h \in heads :
            h.edition = e /\ InScope(h, s.scope) /\ Behind(s, h)
      BY <2>1 DEF Behind
    <2>4. Listed(s) BY <2>1, <2>2, <2>3 DEF Listed
    <2> QED BY <1>1, <1>2, <2>4, ReaderLists DEF BeginListing
  <1> QED BY <1>2

LEMMA ListPageLists ==
  ASSUME ListingInv, NewsInv', NEW r \in Reader, ListPage(r)
  PROVE  ListingInv'
  <1> DEFINE s == reader[r]
             S == After(s.scope, s.cursor)
             V == {h \in S : Rank(h, S) <= Limit}
             m == Cardinality(V)
             page == [k \in 1..m |-> CHOOSE h \in V : Rank(h, S) = k]
             more == Cardinality(S) > Limit
             seen == s.seen \o [k \in DOMAIN page |-> page[k].edition]
             cursor == IF more THEN {[edition |-> page[Len(page)].edition,
                                      date |-> page[Len(page)].date]}
                       ELSE {}
             pc == IF more THEN "paging" ELSE "done"
             t == [s EXCEPT !.seen = seen, !.cursor = cursor, !.pc = pc]
  <1>1. s.pc = "paging" /\ reader' = [reader EXCEPT ![r] = t] BY DEF ListPage
  <1>2. UNCHANGED <<publications, heads, objects, publish>> BY DEF ListPage
  <1>3. V = FirstOf(S) BY DEF FirstOf
  <1>4. Rows(S) BY AfterIsRows
  <1>5. Local \subseteq DOMAIN s BY DEF ListingInv, NewsInv, ReaderInv, ReadInv
  <1>6. Listed(s) BY DEF ListingInv
  <1>7. OrderedPage(S, V, m, page)
    <2> HIDE DEF S, V
    <2> QED BY <1>3, <1>4, PageInOrder
  <1> HIDE DEF s, page
  <1>8. Paged(s, t, S, page)
    <2>1. t.seen = seen /\ t.cursor = cursor /\ t.pc = pc BY <1>5 DEF Local
    <2>2. t.scope = s.scope /\ t.owed = s.owed BY <1>5 DEF Local
    <2> HIDE DEF t, S
    <2> QED BY <2>1, <2>2 DEF Paged
  <1>9. Listed(t)
    <2>1. S = After(s.scope, s.cursor) OBVIOUS
    <2> HIDE DEF t, S, V, m
    <2> QED BY <1>1, <1>6, <1>7, <1>8, <2>1, PageIsListed
  <1> HIDE DEF t
  <1> QED BY <1>1, <1>2, <1>9, ReaderLists

LEMMA ReadsList ==
  ASSUME ListingInv, NewsInv', NEW r \in Reader,
         EndListing(r) \/ BeginRead(r) \/ PickEdition(r) \/ ReadPointer(r) \/ EndRead(r)
  PROVE  ListingInv'
  <1>1. UNCHANGED <<publications, heads, objects, publish>>
    BY DEF EndListing, BeginRead, PickEdition, ReadPointer, EndRead
  <1>2. Listed(reader[r]) /\ Local \subseteq DOMAIN reader[r] /\ DOMAIN reader = Reader
    BY DEF ListingInv, NewsInv, ReaderInv, ReadInv
  <1>3. CASE reader' = [reader EXCEPT ![r] = Quiet]
    <2>1. Quiet.seen = <<>> /\ Quiet.pc \notin {"paging", "done"} BY DEF Quiet
    <2>2. Listed(Quiet) BY <2>1, NothingListed
    <2> QED BY <1>1, <1>3, <2>2, ReaderLists
  <1>4. CASE BeginRead(r)
    <2>1. ASSUME NEW s, s = [Quiet EXCEPT !.pc = "newest",
                   !.floor = {h \in heads : \A g \in heads : ~Before(g, h)}]
          PROVE  ListingInv'
      <3>1. s.seen = <<>> /\ s.pc \notin {"paging", "done"} BY <2>1 DEF Quiet
      <3>2. Listed(s) BY <3>1, NothingListed
      <3>3. reader' = [reader EXCEPT ![r] = s] BY <1>4, <2>1 DEF BeginRead
      <3> QED BY <1>1, <3>2, <3>3, ReaderLists
    <2> QED BY <2>1
  <1>5. CASE PickEdition(r) /\ heads # {}
    <2>1. ASSUME NEW s, s = [reader[r] EXCEPT !.pc = "pointer",
                   !.target = (CHOOSE h \in NewestOf(heads) : TRUE).edition]
          PROVE  ListingInv'
      <3>1. s.seen = reader[r].seen /\ s.pc = "pointer" BY <1>2, <2>1 DEF Local
      <3>2. Listed(s) BY <1>2, <3>1, StillListed
      <3>3. reader' = [reader EXCEPT ![r] = s] BY <1>5, <2>1 DEF PickEdition
      <3> QED BY <1>1, <3>2, <3>3, ReaderLists
    <2> QED BY <2>1
  <1>6. CASE ReadPointer(r) /\ reader' # [reader EXCEPT ![r] = Quiet]
    <2>1. PICK view : reader' = [reader EXCEPT ![r] =
                        [reader[r] EXCEPT !.pc = "replied", !.view = view]]
      BY <1>6 DEF ReadPointer
    <2>2. ASSUME NEW s, s = [reader[r] EXCEPT !.pc = "replied", !.view = view]
          PROVE  ListingInv'
      <3>1. s.seen = reader[r].seen /\ s.pc = "replied" BY <1>2, <2>2 DEF Local
      <3>2. Listed(s) BY <1>2, <3>1, StillListed
      <3>3. reader' = [reader EXCEPT ![r] = s] BY <2>1, <2>2
      <3> QED BY <1>1, <3>2, <3>3, ReaderLists
    <2> QED BY <2>2
  <1> QED BY <1>3, <1>4, <1>5, <1>6 DEF EndListing, EndRead, PickEdition

LEMMA ListingStep == ListingInv /\ [Next]_vars => ListingInv'
  <1> SUFFICES ASSUME ListingInv, [Next]_vars PROVE ListingInv' OBVIOUS
  <1>0. NewsInv' BY StepKeeps DEF ListingInv
  <1>1. ASSUME NEW p \in Publisher,
               \/ Publish(p) \/ PutEdition(p) \/ AppendPublication(p)
               \/ Confirm(p) \/ EndPublish(p)
        PROVE  ListingInv'
    BY <1>0, <1>1, PublishersList
  <1>2. ASSUME NEW r \in Reader,
               \/ BeginListing(r) \/ ListPage(r) \/ EndListing(r)
               \/ BeginRead(r) \/ PickEdition(r) \/ ReadPointer(r) \/ EndRead(r)
        PROVE  ListingInv'
    BY <1>0, <1>2, BeginListingLists, ListPageLists, ReadsList
  <1>3. CASE UNCHANGED vars
    BY <1>0, <1>3 DEF vars, ListingInv, Listed, Shown, Behind
  <1> QED BY <1>1, <1>2, <1>3 DEF Next

LEMMA ListingInit == Init => ListingInv
  <1> SUFFICES ASSUME Init PROVE ListingInv OBVIOUS
  <1>1. NewsInv BY InitInv
  <1>2. IsFiniteSet(heads) BY FS_EmptySet DEF Init
  <1>3. ASSUME NEW r \in Reader PROVE Listed(reader[r])
    <2>1. reader[r] = Quiet BY DEF Init
    <2>2. reader[r].seen = <<>> /\ reader[r].pc \notin {"paging", "done"}
      BY <2>1 DEF Quiet
    <2> QED BY <2>2, NothingListed
  <1> QED BY <1>1, <1>2, <1>3 DEF ListingInv

\* What was listed is there, so the order of the heads is that of the keys shown.
LEMMA ListedIsComplete == ListingInv => ListingIsComplete
  <1> SUFFICES ASSUME ListingInv, NEW r \in Reader, NEW s, s = reader[r]
      PROVE  LET date(e) == (CHOOSE h \in HeadsOf(e) : TRUE).date
                 key(k) == [edition |-> s.seen[k], date |-> date(s.seen[k])]
             IN  /\ \A j, k \in DOMAIN s.seen : j < k => Before(key(j), key(k))
                 /\ s.pc = "done" => s.owed \subseteq {s.seen[k] : k \in DOMAIN s.seen}
    BY DEF ListingIsComplete
  <1> DEFINE date(e) == (CHOOSE h \in HeadsOf(e) : TRUE).date
             key(k) == [edition |-> s.seen[k], date |-> date(s.seen[k])]
  <1>1. Listed(s) /\ TableInv BY DEF ListingInv, NewsInv
  <1>2. ASSUME NEW h \in heads PROVE date(h.edition) = h.date
    BY <1>1, RevisionOfHead
  <1>3. ASSUME NEW j \in DOMAIN s.seen, NEW k \in DOMAIN s.seen, j < k
        PROVE  Before(key(j), key(k))
    <2>1. PICK g \in heads : g.edition = s.seen[j] BY <1>1 DEF Listed
    <2>2. PICK h \in heads : h.edition = s.seen[k] BY <1>1 DEF Listed
    <2>3. Before(g, h) BY <1>1, <1>3, <2>1, <2>2 DEF Listed
    <2>4. date(s.seen[j]) = g.date /\ date(s.seen[k]) = h.date BY <1>2, <2>1, <2>2
    <2> HIDE DEF date
    <2>5. /\ key(j).edition = g.edition /\ key(j).date = g.date
          /\ key(k).edition = h.edition /\ key(k).date = h.date
      BY <2>1, <2>2, <2>4
    <2> HIDE DEF key
    <2> QED BY <2>3, <2>5 DEF Before
  <1>4. s.pc = "done" => s.owed \subseteq {s.seen[k] : k \in DOMAIN s.seen}
    BY <1>1 DEF Listed, Shown
  <1> QED BY <1>3, <1>4

\* A listing is complete, in order and shows an edition once, although its pages
\* are read while editions are published and revised, for every page size and any
\* number of clients (news.py list, journal/sqlite.py list_news_editions).
THEOREM ListingsAreComplete == Spec => []ListingIsComplete
  <1>1. Spec => []ListingInv BY ListingInit, ListingStep, PTL DEF Spec
  <1> QED BY <1>1, ListedIsComplete, PTL
=============================================================================
