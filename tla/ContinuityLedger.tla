--------------------------- MODULE ContinuityLedger ---------------------------
(***************************************************************************)
(* What external continuity promises its clients, without leases, clocks,  *)
(* objects, transactions or exceptions: a Task is a ledger of checkpoints  *)
(* that only grows, one entry at a time, at the revision its writer named, *)
(* and never after a terminal entry; an "ok" answer is about an entry that *)
(* is in the ledger; and a request may be refused at any time.             *)
(***************************************************************************)
EXTENDS Integers, Sequences

CONSTANTS Task, Goal, Content, NoContent, Worker, LegacyTask, Call, NoCall

VARIABLES
  ledger,       \* ledger[t]: the entries of Task t
  request,      \* request[w]: the call client slot w waits for, or NoCall
  answer        \* answer[w]: what it was told

ledgerVars == <<ledger, request, answer>>

Entry(goal, content, state) == [goal |-> goal, content |-> content, state |-> state]
Pending == [verdict |-> "pending", revision |-> 0, content |-> NoContent]
Refused == [verdict |-> "refused", revision |-> 0, content |-> NoContent]

Open(h) == h # <<>> /\ h[Len(h)].state = "READY"

\* The checkpoint a Task was adopted with: its first entry, or its second when
\* the first carries none.
Adopted(h) ==
  IF h[1].content # NoContent THEN h[1].content
  ELSE IF Len(h) >= 2 THEN h[2].content ELSE NoContent

\* Revision r of h is what call c asked for.
Grants(c, h, r) ==
  CASE c.op = "checkpoint" ->
         /\ r = c.expected + 1
         /\ h[r].content = c.content
         /\ h[r].state = c.state
    [] c.op = "adopt" ->
         /\ r = Len(h) /\ r >= 2
         /\ h[1].goal = c.goal
         /\ Adopted(h) = c.content
    [] OTHER -> r = Len(h) /\ c.expected \in {0, r}

-----------------------------------------------------------------------------
Ask(w) ==
  /\ request[w] = NoCall
  /\ \E c \in Call : request' = [request EXCEPT ![w] = c]
  /\ UNCHANGED <<ledger, answer>>

\* Adoption creates the Task.
Establish(w) ==
  LET c == request[w] IN
  /\ c # NoCall /\ c.op = "adopt" /\ answer[w] = Pending
  /\ ledger[c.task] = <<>>
  /\ ledger' = [ledger EXCEPT ![c.task] = <<Entry(c.goal, c.content, "READY")>>]
  /\ UNCHANGED <<request, answer>>

\* One entry is added after the revision the caller expects to be the last.
\* Adoption only ever adds the content the Task was created with, if it has one.
Advance(w) ==
  LET c == request[w]
      h == ledger[c.task]
  IN  /\ c # NoCall /\ c.op \in {"adopt", "checkpoint"} /\ answer[w] = Pending
      /\ Open(h) /\ Len(h) = c.expected
      /\ c.op = "adopt" => h[1].goal = c.goal /\ h[1].content \in {NoContent, c.content}
      /\ ledger' = [ledger EXCEPT
                      ![c.task] = Append(@, Entry(h[1].goal, c.content, c.state))]
      /\ UNCHANGED <<request, answer>>

Confirm(w) ==
  LET c == request[w]
      h == ledger[c.task]
  IN  /\ c # NoCall /\ answer[w] = Pending
      /\ \E r \in DOMAIN h :
           /\ Grants(c, h, r)
           /\ answer' = [answer EXCEPT ![w] = [verdict |-> "ok", revision |-> r,
                                               content |-> h[r].content]]
      /\ UNCHANGED <<ledger, request>>

Refuse(w) ==
  /\ request[w] # NoCall /\ answer[w] = Pending
  /\ answer' = [answer EXCEPT ![w] = Refused]
  /\ UNCHANGED <<ledger, request>>

\* The client repeats a refused request.
AskAgain(w) ==
  /\ answer[w] = Refused
  /\ answer' = [answer EXCEPT ![w] = Pending]
  /\ UNCHANGED <<ledger, request>>

\* The client has its answer, or gave up, or the answer was lost.
Leave(w) ==
  /\ request' = [request EXCEPT ![w] = NoCall]
  /\ answer' = [answer EXCEPT ![w] = Pending]
  /\ UNCHANGED ledger

-----------------------------------------------------------------------------
LedgerInit ==
  /\ \E g \in Goal, old \in SUBSET LegacyTask :
       ledger = [t \in Task |-> IF t \in old THEN <<Entry(g, NoContent, "READY")>> ELSE <<>>]
  /\ request = [w \in Worker |-> NoCall]
  /\ answer = [w \in Worker |-> Pending]

LedgerNext ==
  \E w \in Worker : \/ Ask(w) \/ Establish(w) \/ Advance(w) \/ Confirm(w)
                    \/ Refuse(w) \/ AskAgain(w) \/ Leave(w)

LedgerSpec == LedgerInit /\ [][LedgerNext]_ledgerVars
=============================================================================
