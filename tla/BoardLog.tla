------------------------------- MODULE BoardLog -------------------------------
(***************************************************************************)
(* What the Message Board promises, without reads, cuts, pages or objects: *)
(* a log that only grows; a message identity that enters it once, and is   *)
(* answered "created" once; a reply that follows its target; and followers *)
(* that hear an interval of the log at a time, none of it twice and none   *)
(* of what they follow left out.                                           *)
(***************************************************************************)
EXTENDS Naturals, Sequences, Selection

CONSTANTS Message, NoMessage, Poster, Reader, Query

VARIABLES
  log,      \* the messages, in sequence order
  posts,    \* posts[p]: the message p posts, and the verdict on it
  follows   \* follows[r]: what r follows, up to where, and what it heard

boardLogVars == <<log, posts, follows>>

NoPost == [message |-> NoMessage, verdict |-> "none"]
Verdict(p) == posts[p].verdict
Asked(p) == posts[p].message

Bound(id) == \E i \in DOMAIN log : log[i].id = id
Held(m) == \E i \in DOMAIN log : log[i] = m

\* What a follower of q hears of the messages after a and up to b.
Interval(q, a, b) ==
  InOrder({i \in a + 1..b : /\ q.topic = {} \/ log[i].topic = q.topic
                            /\ q.reply = {} \/ log[i].reply = q.reply}, b)

-----------------------------------------------------------------------------
Ask(p) ==
  /\ posts[p] = NoPost
  /\ \E m \in Message :
       posts' = [posts EXCEPT ![p] = [message |-> m, verdict |-> "asked"]]
  /\ UNCHANGED <<log, follows>>

Judge(p, verdict) ==
  /\ Verdict(p) = "asked"
  /\ posts' = [posts EXCEPT ![p] = [NoPost EXCEPT !.verdict = verdict]]
  /\ UNCHANGED follows

Create(p) ==
  /\ Judge(p, "created")
  /\ ~Bound(Asked(p).id)
  /\ \A target \in Asked(p).reply : target # Asked(p).id /\ Bound(target)
  /\ log' = Append(log, Asked(p))

Find(p) ==
  /\ Judge(p, "existing")
  /\ Held(Asked(p))
  /\ UNCHANGED log

\* A refusal is true of the log, or gives no reason.
Refuse(p) ==
  /\ \/ Judge(p, "conflict") /\ Bound(Asked(p).id) /\ ~Held(Asked(p))
     \/ Judge(p, "no target") /\ \E target \in Asked(p).reply : ~Bound(target)
     \/ Judge(p, "invalid") /\ Asked(p).id \in Asked(p).reply
     \/ Judge(p, "failed")
  /\ UNCHANGED log

\* The answer is taken, or nobody waits for it any more.
Take(p) ==
  /\ Verdict(p) # "none"
  /\ posts' = [posts EXCEPT ![p] = NoPost]
  /\ UNCHANGED <<log, follows>>

\* A follower may start at the end of the log, with a window before it.
Follow(r) ==
  LET f == follows[r] IN
  /\ f.to = 0 /\ f.heard = <<>>
  /\ \E from, to \in 0..Len(log) :
       /\ from <= to
       /\ follows' = [follows EXCEPT ![r] =
            [f EXCEPT !.to = to, !.heard = Interval(f.query, from, to)]]
  /\ UNCHANGED <<log, posts>>

Hear(r) ==
  LET f == follows[r] IN
  /\ \E to \in f.to..Len(log) :
       follows' = [follows EXCEPT ![r] =
         [f EXCEPT !.to = to, !.heard = @ \o Interval(f.query, f.to, to)]]
  /\ UNCHANGED <<log, posts>>

Init ==
  /\ log = <<>>
  /\ posts = [p \in Poster |-> NoPost]
  /\ follows \in [Reader -> [query: Query, to: {0}, heard: {<<>>}]]

Next ==
  \/ \E p \in Poster : Ask(p) \/ Create(p) \/ Find(p) \/ Refuse(p) \/ Take(p)
  \/ \E r \in Reader : Follow(r) \/ Hear(r)

Spec == Init /\ [][Next]_boardLogVars
=============================================================================
