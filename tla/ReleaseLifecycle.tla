--------------------------- MODULE ReleaseLifecycle ---------------------------
(***************************************************************************)
(* scripts/ordivon-host-deploy: status, gc-plan and gc-apply, beside the   *)
(* commands of Deployment.                                                 *)
(*                                                                         *)
(* A plan is computed from the receipts and the directories, and its       *)
(* digest is the whole of it.  Applying it writes the plan down, renames   *)
(* each collectible directory to a tombstone, records that, removes the    *)
(* tombstones and records the end; each of these is a step, and the        *)
(* command may die between two and be run again with the same digest.      *)
(***************************************************************************)
EXTENDS Deployment

CONSTANT MaxPlans \* bound: collections
ASSUME LifecycleAssumption == MaxPlans \in Nat

VARIABLES
  plans,        \* the lifecycle receipts: plans and how far each was applied
  tombstones,   \* directories that are retired and not yet removed
  collection,   \* what the collection that has the lock still has to do
  memory        \* what the properties remember

lifecycle == <<plans, tombstones, collection, memory>>
allVars == <<vars, lifecycle>>

ReleaseObject(r) == [kind |-> "release", id |-> r, build |-> 0]
CandidateObject(r) == [kind |-> "candidate", id |-> r, build |-> candidates[r]]
Present(o) == IF o.kind = "release" THEN o.id \in releases ELSE candidates[o.id] # 0
Unchanged(o) == o.kind = "release" \/ candidates[o.id] = o.build

-----------------------------------------------------------------------------
\* The event a release is in force by.

\* <<i, 1>> is the result of receipt i and <<i, 2>> its rollback.
Events ==
  {<<i, 1>> : i \in {j \in DOMAIN receipts : receipts[j].result = "deployed"}} \cup
  {<<i, 2>> : i \in {j \in DOMAIN receipts : receipts[j].rollback.status = "restored_previous"}}
EventRelease(e) == IF e[2] = 1 THEN receipts[e[1]].candidate ELSE receipts[e[1]].previous
Matching == {e \in Events : EventRelease(e) = current}
LastEvent == CHOOSE e \in Matching : \A d \in Matching : 2 * d[1] + d[2] <= 2 * e[1] + e[2]
Healthy == Matching # {} /\ journal.schema = Schema[current]

-----------------------------------------------------------------------------
\* The plan.

Frontier(peer, candidate, build) == [peer |-> peer, candidate |-> candidate, build |-> build]
Alone == Frontier(NoRelease, NoRelease, 0)
Reversible(i) == Frontier(receipts[i].previous, receipts[i].candidate, receipts[i].build)
DeploymentsOf(r) ==
  {i \in DOMAIN receipts : receipts[i].result = "deployed" /\ receipts[i].candidate = r}
Latest(indices) == CHOOSE i \in indices : \A j \in indices : j <= i

Transition ==
  LET receipt == receipts[LastEvent[1]] IN
  IF LastEvent[2] = 1
  THEN IF receipt.migration THEN Alone ELSE Reversible(LastEvent[1])
  ELSE IF ~receipt.rollback.automatic
  THEN Frontier(receipt.rollback.displaced, receipt.candidate, receipt.build)
  ELSE IF DeploymentsOf(current) = {} THEN Alone
  ELSE Reversible(Latest(DeploymentsOf(current)))

Explicit == LastEvent[2] = 2 /\ ~receipts[LastEvent[1]].rollback.automatic
Eligible ==
  /\ \A i \in DOMAIN receipts : receipts[i].result # "none"
  /\ Healthy
  /\ Explicit => Transition.candidate = Transition.peer
  /\ Transition.peer \in releases \cup {NoRelease}
  /\ Transition.candidate # NoRelease =>
       candidates[Transition.candidate] = Transition.build

Terminal == {receipts[i].candidate : i \in {j \in DOMAIN receipts : receipts[j].result # "none"}}
\* One that keeps what is in force alone:
CollectibleButCurrent ==
  {ReleaseObject(r) : r \in releases \ {current}} \cup
  {CandidateObject(r) : r \in {c \in Terminal \ {Transition.candidate} : candidates[c] # 0}}

Collectible ==
  {ReleaseObject(r) : r \in releases \ {current, Transition.peer}} \cup
  {CandidateObject(r) : r \in {c \in Terminal \ {Transition.candidate} : candidates[c] # 0}}
Plan == [current |-> current, event |-> LastEvent, delete |-> Collectible,
         inventory |-> <<receipts, releases, candidates>>]

\* What is compared again before a plan is applied: not the transition's peer.
Guard(plan) == current = plan.current /\ Healthy /\ LastEvent = plan.event

-----------------------------------------------------------------------------
\* gc-apply.

NoCollection == [entry |-> 0, todo |-> {}, clean |-> TRUE]
Entry == plans[collection.entry]
Tombstone(o, whole) == [entry |-> collection.entry, object |-> o, whole |-> whole]
Buried(o) == \E whole \in BOOLEAN : Tombstone(o, whole) \in tombstones
Collecting(pc) == command' = [NoCommand EXCEPT !.kind = "collect", !.pc = pc]
Todo(objects) == collection' = [collection EXCEPT !.todo = objects]

\* Releases before candidates, each in the order of their names.
NextTarget ==
  LET first == {o \in collection.todo : o.kind = "release"}
  IN  CHOOSE o \in IF first # {} THEN first ELSE collection.todo : TRUE

Begun(i) == /\ Collecting("retire")
            /\ collection' = [entry |-> i, todo |-> plans'[i].plan.delete, clean |-> TRUE]

\* The directory of a collection and the plan in it appear in one step.
BeginCollection ==
  /\ command = NoCommand /\ Eligible /\ Len(plans) < MaxPlans
  /\ \A i \in DOMAIN plans : plans[i].plan # Plan
  /\ plans' = Append(plans, [plan |-> Plan, status |-> "planned"])
  /\ Begun(Len(plans) + 1)
  /\ UNCHANGED <<journal, service, disk, past, tombstones, memory>>

ResumeCollection(i) ==
  /\ command = NoCommand
  /\ plans[i].status # "pruned" /\ Guard(plans[i].plan)
  /\ UNCHANGED plans
  /\ Begun(i)
  /\ UNCHANGED <<journal, service, disk, past, tombstones, memory>>

Retire(o) ==
  /\ At("retire") /\ o \in collection.todo
  /\ Present(o) /\ Unchanged(o) /\ ~Buried(o)
  /\ releases' = IF o.kind = "release" THEN releases \ {o.id} ELSE releases
  /\ candidates' = IF o.kind = "candidate" THEN [candidates EXCEPT ![o.id] = 0] ELSE candidates
  /\ tombstones' = tombstones \cup {Tombstone(o, TRUE)}
  /\ Todo(collection.todo \ {o})
  /\ UNCHANGED <<journal, service, current, receipts, command, past, plans, memory>>

\* A target that an earlier attempt retired.
Gone(o) == /\ ~Present(o)
           /\ Buried(o) => Tombstone(o, TRUE) \in tombstones
           /\ Buried(o) \/ Entry.status = "retired"
FindRetired(o) ==
  /\ At("retire") /\ o \in collection.todo /\ Gone(o)
  /\ Todo(collection.todo \ {o})
  /\ UNCHANGED <<vars, plans, tombstones, memory>>

\* A target that changed, collides with a tombstone, or is nowhere.
RetireFails ==
  /\ At("retire")
  /\ collection.todo # {}
  /\ ~(Present(NextTarget) /\ Unchanged(NextTarget) /\ ~Buried(NextTarget)) /\ ~Gone(NextTarget)
  /\ command' = NoCommand /\ collection' = NoCollection
  /\ UNCHANGED <<journal, service, disk, past, plans, tombstones, memory>>

\* One that removes before it records:
RetireUnrecorded ==
  /\ At("retire") /\ collection.todo = {}
  /\ Collecting("erase") /\ Todo({o \in Entry.plan.delete : Buried(o)})
  /\ UNCHANGED <<journal, service, disk, past, plans, tombstones, memory>>

RecordRetirement ==
  /\ At("retire") /\ collection.todo = {}
  /\ plans' = [plans EXCEPT ![collection.entry].status = "retired"]
  /\ Collecting("erase") /\ Todo({o \in Entry.plan.delete : Buried(o)})
  /\ UNCHANGED <<journal, service, disk, past, tombstones, memory>>

\* A directory is removed file by file.
BeginErase(o) ==
  /\ At("erase") /\ o \in collection.todo /\ Tombstone(o, TRUE) \in tombstones
  /\ tombstones' = (tombstones \ {Tombstone(o, TRUE)}) \cup {Tombstone(o, FALSE)}
  /\ UNCHANGED <<vars, plans, collection, memory>>
EndErase(o) ==
  /\ At("erase") /\ o \in collection.todo /\ Tombstone(o, FALSE) \in tombstones
  /\ tombstones' = tombstones \ {Tombstone(o, FALSE)}
  /\ Todo(collection.todo \ {o})
  /\ UNCHANGED <<vars, plans, memory>>
EraseFails(o) ==
  /\ At("erase") /\ o \in collection.todo /\ Fault
  /\ collection' = [collection EXCEPT !.todo = @ \ {o}, !.clean = FALSE]
  /\ UNCHANGED <<journal, service, disk, command, plans, tombstones, memory>>

RecordResult ==
  /\ At("erase") /\ collection.todo = {}
  /\ plans' = [plans EXCEPT ![collection.entry].status = IF collection.clean THEN "pruned" ELSE @]
  /\ command' = NoCommand /\ collection' = NoCollection
  /\ UNCHANGED <<journal, service, disk, past, tombstones, memory>>

-----------------------------------------------------------------------------
\* What the documentation says is retained after an event: the releases and the
\* candidate, named when the event was recorded.
Retained(release, others, candidate, build) ==
  [release |-> release, releases |-> {release} \cup others, candidate |-> candidate,
   build |-> build, moved |-> TRUE]
Only(release) == Retained(release, {}, NoRelease, 0)
ReversibleBy(r) == IF r.migration THEN Only(r.candidate)
                   ELSE Retained(r.candidate, {r.previous}, r.candidate, r.build)
\* "When available, recover the last successful deployment authority for the restored
\* current release" (docs/OPERATIONS.md).
Recovered(release) ==
  IF DeploymentsOf(release) = {} THEN Only(release)
  ELSE ReversibleBy(receipts[Latest(DeploymentsOf(release))])
Promised ==
  LET r == receipts'[command.receipt]
  IN  IF Activating
      THEN CASE r.result = "deployed"    -> ReversibleBy(r)
             [] r.result = "rolled_back" -> Recovered(r.previous)
             [] OTHER                    -> memory.promise
      ELSE IF r.rollback.status = "restored_previous"
      THEN IF r.candidate = r.rollback.displaced /\ candidates[r.candidate] = r.build
           THEN [Retained(r.previous, {r.candidate}, r.candidate, r.build) EXCEPT
               !.moved = r.previous # r.candidate]
           ELSE Retained(r.previous, {r.rollback.displaced}, NoRelease, 0)
      ELSE Only(current)

DeploymentStep ==
  /\ \/ /\ Begin \/ Forward \/ Backward \/ Die \/ Service
        /\ memory' = [memory EXCEPT !.installed = @ \cup releases']
     \/ End /\ memory' = [memory EXCEPT !.promise = Promised]
  /\ collection' = IF command' = NoCommand THEN NoCollection ELSE collection
  /\ UNCHANGED <<plans, tombstones>>

LifecycleInit ==
  /\ Init
  /\ plans = <<>> /\ tombstones = {} /\ collection = NoCollection
  /\ memory = [promise |-> Retained(First, {}, NoRelease, 0), installed |-> releases]

Collection ==
  \/ BeginCollection \/ RetireFails \/ RecordRetirement \/ RecordResult
  \/ \E i \in DOMAIN plans : ResumeCollection(i)
  \/ \E o \in collection.todo :
       o = NextTarget /\ (\/ Retire(o) \/ FindRetired(o)
                          \/ BeginErase(o) \/ EndErase(o) \/ EraseFails(o))

LifecycleNext == DeploymentStep \/ Collection
LifecycleSpec == LifecycleInit /\ [][LifecycleNext]_allVars

-----------------------------------------------------------------------------
\* Properties.

\* The release that the link names stays installed, whether a plan is computed anew or
\* applied again after a death, and so does what the last event left reversible
\* (validate_lifecycle_guard): "after a successful same-schema deployment, retain the
\* current release, the previous release ... and the current candidate; after an explicit
\* rollback, retain the restored current release, the displaced release, and the displaced
\* release's candidate" (docs/OPERATIONS.md); after an automatic rollback, what the last
\* deployment of the restored release left reversible.  Excepted is the candidate of a rollback that
\* moved nothing: the release it displaced is the one it restored.
InForce == current = memory.promise.release
CandidateStays ==
  LET c == memory.promise.candidate IN
  c # NoRelease /\ candidates[c] = memory.promise.build => candidates'[c] = candidates[c]
FrontierIsRetained ==
  [][/\ current' \in releases'
     /\ InForce =>
          /\ memory.promise.releases \cap releases \subseteq releases'
          /\ memory.promise.moved => CandidateStays]_allVars

\* The same candidate without the exception.  Does not hold: the guard of a plan that is
\* applied again compares the name of the receipt and of its event, and the rollback of a
\* deployment that was rolled back automatically replaces the event under the same name.
\* "Receipt drift between planning and application invalidates the plan"
\* (docs/OPERATIONS.md).
CandidateIsRetained == [][InForce => CandidateStays]_allVars

\* No release disappears without evidence: a tombstone, or a recorded retirement
\* (order of rename, record and removal in apply_lifecycle_plan).
RemovalIsRecorded ==
  \A r \in memory.installed \ releases :
    \E i \in DOMAIN plans :
      /\ ReleaseObject(r) \in plans[i].plan.delete
      /\ \/ plans[i].status # "planned"
         \/ [entry |-> i, object |-> ReleaseObject(r), whole |-> TRUE] \in tombstones

\* Does not hold of a tombstone that a death left half removed:
\* "a retry with the same plan digest can reconcile an existing tombstone or an
\* already-collected object" (docs/OPERATIONS.md).
Retryable(i, o) ==
  LET Stone(whole) == [entry |-> i, object |-> o, whole |-> whole] \in tombstones IN
  \/ Present(o) /\ Unchanged(o) /\ ~Stone(TRUE) /\ ~Stone(FALSE)
  \/ ~Present(o) /\ Stone(TRUE)
  \/ ~Present(o) /\ ~Stone(FALSE) /\ plans[i].status = "retired"
RetryReconciles ==
  \A i \in DOMAIN plans :
    command = NoCommand /\ plans[i].status # "pruned" /\ Guard(plans[i].plan) =>
      \A o \in plans[i].plan.delete : Retryable(i, o)
=============================================================================
