------------------------------ MODULE Deployment ------------------------------
(***************************************************************************)
(* scripts/ordivon-host-deploy: apply and rollback, against the service    *)
(* that systemd runs and the clients that commit facts through it.         *)
(*                                                                         *)
(* Commands are serialized by a lock that a dying process releases, and a  *)
(* command may die between any two steps.  The service starts the release  *)
(* that the current link names then, opens the Journal, advances its       *)
(* schema, and refuses a schema that is newer than its own; a service that *)
(* fails is started again by itself.  The identity of a release binds its  *)
(* bytes, so a release is its identity; a candidate has a build as well,   *)
(* since its manifest names the time it was built at.                      *)
(***************************************************************************)
EXTENDS Naturals, Sequences, FiniteSets

CONSTANTS
  Release,      \* releases that are built from some commit
  First,        \* the release that was installed by hand
  Schema,       \* Schema[r]: the schema version of the Journal that r opens
  NoRelease,    \* the absence of a release
  Fact,         \* what clients commit
  AnyReceipt,   \* may the operator roll back with a receipt before the last?
  MaxReceipts,  \* bound: deployments
  MaxPrepared,  \* bound: candidates that wait for their first deployment
  MaxFaults     \* bound: deaths, failing steps and failing services

ASSUME DeploymentAssumption ==
  /\ First \in Release /\ NoRelease \notin Release
  /\ Schema \in [Release -> Nat]
  /\ AnyReceipt \in BOOLEAN
  /\ {MaxReceipts, MaxPrepared, MaxFaults} \subseteq Nat

VARIABLES
  journal,      \* the schema and the facts of the live Journal
  service,      \* what systemd says of the service, and the release it runs
  releases,     \* the directories under releases/
  candidates,   \* candidates[r]: the build of the candidate directory, or 0
  current,      \* the release that the link names
  receipts,     \* the receipt directories, in the order of their names
  command,      \* the command that has the lock, or NoCommand
  past          \* what the properties remember

vars == <<journal, service, releases, candidates, current, receipts, command, past>>
disk == <<releases, candidates, current, receipts>>

NoCommand == [kind |-> "none", pc |-> "idle", receipt |-> 0, target |-> NoRelease,
              origin |-> NoRelease, switched |-> FALSE]
NoSnapshot == [taken |-> FALSE, schema |-> 0, facts |-> {}]
NoRollback == [status |-> "none", displaced |-> NoRelease, automatic |-> FALSE]

At(pc) == command.pc = pc
Goto(pc) == command' = [command EXCEPT !.pc = pc]
Receipt == receipts[command.receipt]
Record(field, value) ==
  receipts' = [receipts EXCEPT ![command.receipt] = [@ EXCEPT ![field] = value]]
Activating == command.kind = "apply"
Migrating == Activating /\ Receipt.migration

FaultAllowed == past.faults < MaxFaults
Fault == FaultAllowed /\ past' = [past EXCEPT !.faults = @ + 1]
\* Nothing restores an earlier Journal once the command is over: what is there by
\* then has been accepted.
Accept == past' = [past EXCEPT !.acknowledged = @ \cup journal.facts]

-----------------------------------------------------------------------------
\* The service.

Opens(r) == Schema[r] >= journal.schema
Run(r) ==
  /\ Opens(r)
  /\ journal' = [journal EXCEPT !.schema = Schema[r]]
  /\ service' = [state |-> "up", release |-> r]
\* A start that fails may have advanced the schema first, by any number of versions.
FailsToRun(r) ==
  /\ IF Opens(r) THEN \E v \in journal.schema .. Schema[r] : journal' = [journal EXCEPT !.schema = v]
                 ELSE UNCHANGED journal
  /\ service' = [state |-> "waiting", release |-> NoRelease]
IsActive == service.state = "up"

\* The service failed, and is started again in a while.
Crash ==
  /\ IsActive /\ Fault
  /\ service' = [state |-> "waiting", release |-> NoRelease]
  /\ UNCHANGED <<journal, disk, command>>

\* A command that is rolling an activation back found the service not active, so it
\* did not stop it; the link still names the candidate.
Unguarded == Migrating /\ command.pc \in {"restore", "putback"} /\ current # Receipt.previous

\* Such a start is remembered until the release that the link names then starts.
AutoRestart ==
  /\ service.state = "waiting"
  /\ \/ Run(current) /\ past' = [past EXCEPT !.revived = Unguarded]
     \/ /\ Opens(current) /\ FailsToRun(current) /\ FaultAllowed
        /\ past' = [past EXCEPT !.revived = @ \/ Unguarded, !.faults = @ + 1]
  /\ UNCHANGED <<disk, command>>

Started == past' = [past EXCEPT !.revived = FALSE]

\* The operator starts a service that a command left stopped.
StartByHand ==
  /\ command = NoCommand /\ service.state = "down"
  /\ \/ Run(current) /\ Started
     \/ /\ FailsToRun(current) /\ (Opens(current) => FaultAllowed)
        /\ past' = [past EXCEPT !.faults = IF Opens(current) THEN @ + 1 ELSE @]
  /\ UNCHANGED <<disk, command>>

\* A client's call commits a fact: the call opens the Journal as the start does.
\* What is committed through the candidate of a migrating activation is provisional.
Provisional == Migrating /\ service.release # Receipt.previous
Commit(f) ==
  /\ IsActive /\ Opens(service.release)
  /\ f \notin past.acknowledged \cup past.provisional
  /\ journal' = [schema |-> Schema[service.release], facts |-> journal.facts \cup {f}]
  /\ past' = IF Provisional THEN [past EXCEPT !.provisional = @ \cup {f}]
                            ELSE [past EXCEPT !.acknowledged = @ \cup {f}]
  /\ UNCHANGED <<service, disk, command>>

-----------------------------------------------------------------------------
\* prepare, and the start of the two commands.

\* The candidate directory appears under the lock; builds are numbered.
Consumed(r) == \E i \in DOMAIN receipts :
                 receipts[i].candidate = r /\ receipts[i].build = candidates[r]
Waiting == {r \in Release : candidates[r] # 0 /\ ~Consumed(r)}
Prepare(r) ==
  /\ command = NoCommand /\ candidates[r] = 0
  /\ Cardinality(Waiting) < MaxPrepared
  /\ candidates' = [candidates EXCEPT ![r] = past.builds + 1]
  /\ past' = [past EXCEPT !.builds = @ + 1]
  /\ UNCHANGED <<journal, service, releases, current, receipts, command>>

\* apply with its plan; the receipt has its plan and its manifest at once.  The plan
\* reads the link and not what runs, which a dead command may have left astray.
Apply(r) ==
  /\ command = NoCommand /\ Len(receipts) < MaxReceipts
  /\ candidates[r] # 0 /\ IsActive
  /\ Schema[current] = journal.schema /\ Opens(r)
  /\ receipts' = Append(receipts,
       [candidate |-> r, build |-> candidates[r], previous |-> current,
        migration |-> Schema[r] > journal.schema, snapshot |-> NoSnapshot,
        result |-> "none", rollback |-> NoRollback])
  /\ command' = [kind |-> "apply", pc |-> "copy", receipt |-> Len(receipts) + 1,
                 target |-> r, origin |-> current, switched |-> FALSE]
  /\ past' = [past EXCEPT !.astray = service.release # current]
  /\ UNCHANGED <<journal, service, releases, candidates, current>>

\* One that does not ask whether the deployment migrated:
RollbackAny(i) ==
  /\ command = NoCommand
  /\ AnyReceipt \/ i = Len(receipts)
  /\ receipts[i].previous \in releases
  /\ command' = [kind |-> "rollback", pc |-> "switch", receipt |-> i,
                 target |-> receipts[i].previous, origin |-> current, switched |-> FALSE]
  /\ UNCHANGED <<journal, service, disk, past>>

\* rollback with a receipt, whatever became of its activation.
Rollback(i) ==
  /\ command = NoCommand
  /\ AnyReceipt \/ i = Len(receipts)
  /\ ~receipts[i].migration
  /\ receipts[i].previous \in releases
  /\ command' = [kind |-> "rollback", pc |-> "switch", receipt |-> i,
                 target |-> receipts[i].previous, origin |-> current, switched |-> FALSE]
  /\ UNCHANGED <<journal, service, disk, past>>

-----------------------------------------------------------------------------
\* The way forward.  An activation that migrates stops the service and keeps a
\* snapshot before the switch, and starts the candidate after it.

CopyRelease ==
  /\ At("copy")
  /\ releases' = releases \cup {command.target}
  /\ Goto(IF Migrating THEN "stop" ELSE "switch")
  /\ UNCHANGED <<journal, service, candidates, current, receipts, past>>

\* Where a command that fails goes on.
Undo ==
  IF Migrating THEN "check"
  ELSE IF command.switched THEN "putback"
  ELSE IF Activating THEN "reprobe" ELSE "failed"

\* One that keeps the snapshot of a running service:
StopNothing ==
  /\ At("stop")
  /\ Goto("snapshot")
  /\ UNCHANGED <<journal, service, disk, past>>

StopService ==
  /\ At("stop")
  /\ service' = [state |-> "down", release |-> NoRelease]
  /\ Goto("snapshot")
  /\ UNCHANGED <<journal, disk, past>>

Snapshot ==
  /\ At("snapshot")
  /\ Record("snapshot", [taken |-> TRUE, schema |-> journal.schema, facts |-> journal.facts])
  /\ Goto(IF journal.schema = Schema[Receipt.previous] THEN "switch" ELSE Undo)
  /\ UNCHANGED <<journal, service, releases, candidates, current, past>>

SwitchCurrent ==
  /\ At("switch")
  /\ current' = command.target
  /\ command' = [command EXCEPT !.pc = IF Migrating THEN "start" ELSE "restart",
                                !.switched = TRUE]
  /\ UNCHANGED <<journal, service, releases, candidates, receipts, past>>

\* systemctl start leaves an active service alone, systemctl restart does not.
Start(next) ==
  /\ IF IsActive THEN UNCHANGED <<journal, service, past>> ELSE Run(current) /\ Started
  /\ Goto(next)
  /\ UNCHANGED disk
Restart(next) ==
  /\ Run(current) /\ Started
  /\ Goto(next)
  /\ UNCHANGED disk

\* One that starts where it should restart:
ActivateByStart ==
  \/ At("start") /\ Start("probe")
  \/ At("restart") /\ Start("probe")

Activate == \/ At("start") /\ Start("probe")
            \/ At("restart") /\ Restart("probe")

\* Whichever release runs, it answers with the same tools.
Probe ==
  /\ At("probe") /\ IsActive
  /\ Goto("result")
  /\ UNCHANGED <<journal, service, disk, past>>

\* What is compared after the probe.
AsTargeted == current = command.target /\ (Activating => journal.schema = Schema[command.target])

Deployed ==
  /\ At("result") /\ Activating /\ AsTargeted
  /\ Record("result", "deployed")
  /\ command' = NoCommand /\ Accept
  /\ UNCHANGED <<journal, service, releases, candidates, current>>

Restored ==
  /\ At("result") /\ ~Activating /\ AsTargeted
  /\ Record("rollback", [status |-> "restored_previous", displaced |-> command.origin,
                         automatic |-> FALSE])
  /\ command' = NoCommand /\ Accept
  /\ UNCHANGED <<journal, service, releases, candidates, current>>

-----------------------------------------------------------------------------
\* The way back.

\* A step fails, and is done or not: a link may be in place and its directory not
\* synchronized.
StepFails ==
  /\ \/ /\ command.pc \in {"stop", "snapshot", "switch", "start", "restart", "probe", "result"}
        /\ Fault
        /\ current' \in IF At("switch") THEN {current, command.target} ELSE {current}
        /\ UNCHANGED <<journal, service>>
     \/ /\ command.pc \in {"start", "restart"} /\ FailsToRun(current) /\ UNCHANGED current
        /\ IF Opens(current) THEN Fault ELSE UNCHANGED past
     \/ /\ At("probe") /\ ~IsActive
        /\ UNCHANGED <<journal, service, current, past>>
     \/ /\ At("result") /\ ~AsTargeted
        /\ UNCHANGED <<journal, service, current, past>>
  /\ Goto(Undo)
  /\ UNCHANGED <<releases, candidates, receipts>>

\* A candidate that is active is stopped.
StopCandidate ==
  /\ At("check")
  /\ service' = IF IsActive THEN [state |-> "down", release |-> NoRelease] ELSE service
  /\ Goto("restore")
  /\ UNCHANGED <<journal, disk, past>>

\* One that puts the link back alone:
RestoreNothing ==
  /\ At("restore")
  /\ Goto(IF command.switched THEN "putback" ELSE "startback")
  /\ UNCHANGED <<journal, service, disk, past>>

\* The snapshot's bytes replace the Journal's; without one the schema must be as planned.
\* Removing the log beside the database and putting the copy in its place are one step.
RestoreJournal ==
  /\ At("restore")
  /\ IF Receipt.snapshot.taken
     THEN journal' = [schema |-> Receipt.snapshot.schema, facts |-> Receipt.snapshot.facts]
     ELSE journal.schema = Schema[Receipt.previous] /\ UNCHANGED journal
  /\ Goto(IF command.switched THEN "putback" ELSE "startback")
  /\ UNCHANGED <<service, disk, past>>

PutBack ==
  /\ At("putback")
  /\ current' = command.origin
  /\ Goto(IF Migrating THEN "startback" ELSE "restartback")
  /\ UNCHANGED <<journal, service, releases, candidates, receipts, past>>

Reactivate == \/ At("startback") /\ Start("reprobe")
              \/ At("restartback") /\ Restart("reprobe")

Reprobe ==
  /\ At("reprobe") /\ IsActive
  /\ Goto(IF Activating THEN "answer" ELSE "failed")
  /\ UNCHANGED <<journal, service, disk, past>>

AsBefore == current = Receipt.previous /\ journal.schema = Schema[Receipt.previous]

\* Two files: the result of the activation, and the event of its rollback.
RolledBack ==
  /\ At("answer") /\ AsBefore
  /\ Record("result", "rolled_back")
  /\ Goto("event")
  /\ UNCHANGED <<journal, service, releases, candidates, current, past>>

RecordEvent ==
  /\ At("event")
  /\ Record("rollback", [status |-> "restored_previous", displaced |-> NoRelease,
                         automatic |-> TRUE])
  /\ command' = NoCommand /\ Accept
  /\ UNCHANGED <<journal, service, releases, candidates, current>>

UndoFails ==
  /\ \/ /\ command.pc \in {"check", "restore", "putback", "startback", "restartback", "reprobe"}
        /\ Fault /\ UNCHANGED <<journal, service>>
     \/ /\ command.pc \in {"startback", "restartback"} /\ FailsToRun(current)
        /\ IF Opens(current) THEN Fault ELSE UNCHANGED past
     \/ /\ \/ At("restore") /\ ~Receipt.snapshot.taken /\ journal.schema # Schema[Receipt.previous]
           \/ At("reprobe") /\ ~IsActive
           \/ At("answer") /\ ~AsBefore
        /\ UNCHANGED <<journal, service, past>>
  /\ Goto("failed")
  /\ UNCHANGED disk

Failed ==
  /\ At("failed")
  /\ IF Activating THEN Record("result", "failed")
     ELSE Record("rollback", [status |-> "rollback_failed", displaced |-> NoRelease,
                              automatic |-> FALSE])
  /\ command' = NoCommand /\ Accept
  /\ UNCHANGED <<journal, service, releases, candidates, current>>

\* The process that runs a command dies, and the kernel releases its lock.
Die ==
  /\ command # NoCommand /\ FaultAllowed
  /\ command' = NoCommand
  /\ past' = [past EXCEPT !.faults = @ + 1, !.acknowledged = @ \cup journal.facts]
  /\ UNCHANGED <<journal, service, disk>>

-----------------------------------------------------------------------------
Init ==
  /\ journal = [schema |-> Schema[First], facts |-> {}]
  /\ service = [state |-> "up", release |-> First]
  /\ releases = {First}
  /\ candidates = [r \in Release |-> 0]
  /\ current = First
  /\ receipts = <<>>
  /\ command = NoCommand
  /\ past = [builds |-> 0, faults |-> 0, acknowledged |-> {}, provisional |-> {}, 
             revived |-> FALSE, astray |-> FALSE]

Forward == CopyRelease \/ StopService \/ Snapshot \/ SwitchCurrent \/ Activate \/ Probe
Backward ==
  \/ StepFails \/ StopCandidate \/ RestoreJournal \/ PutBack \/ Reactivate \/ Reprobe
  \/ RolledBack \/ UndoFails
End == Deployed \/ Restored \/ RecordEvent \/ Failed
Service == Crash \/ AutoRestart \/ StartByHand \/ \E f \in Fact : Commit(f)
Begin ==
  \/ \E r \in Release : Prepare(r) \/ Apply(r)
  \/ \E i \in DOMAIN receipts : Rollback(i)

Next == Begin \/ Forward \/ Backward \/ End \/ Die \/ Service

Spec == Init /\ [][Next]_vars

\* A command that runs goes on, and systemd starts a failed service again.  Nothing
\* makes the operator start a service that a command left stopped.
Fairness ==
  /\ WF_vars(Forward \/ Backward \/ End)
  /\ WF_vars(AutoRestart)
FairSpec == Spec /\ Fairness

-----------------------------------------------------------------------------
\* Properties.

Result == {"none", "deployed", "rolled_back", "failed"}
ReceiptRecord ==
  [candidate : Release, build : Nat, previous : Release, migration : BOOLEAN,
   snapshot : [taken : BOOLEAN, schema : Nat, facts : SUBSET Fact], result : Result,
   rollback : [status : {"none", "restored_previous", "rollback_failed"},
               displaced : Release \cup {NoRelease}, automatic : BOOLEAN]]
Label ==
  {"copy", "stop", "snapshot", "switch", "start", "restart", "probe", "result", "check",
   "restore", "putback", "startback", "restartback", "reprobe", "answer", "event", "failed"}
Commands ==
  [kind : {"apply", "rollback"}, pc : Label, receipt : DOMAIN receipts,
   target : Release, origin : Release, switched : BOOLEAN]

TypeOK ==
  /\ journal \in [schema : Nat, facts : SUBSET Fact]
  /\ \/ service \in [state : {"up"}, release : Release]
     \/ service \in [state : {"waiting", "down"}, release : {NoRelease}]
  /\ releases \subseteq Release /\ current \in Release
  /\ candidates \in [Release -> Nat]
  /\ receipts \in Seq(ReceiptRecord)
  /\ command \in Commands \cup {NoCommand}
  /\ past \in [builds : Nat, faults : Nat, acknowledged : SUBSET Fact,
                provisional : SUBSET Fact, revived : BOOLEAN, astray : BOOLEAN]

\* What a client was told is committed stays in the Journal, whatever fails and dies,
\* unless it was committed while an activation that migrates ran another release than the
\* previous one, its candidate or one left astray, and that activation was then rolled back
\* (docs/OPERATIONS.md; apply_deployment).
FactsAreKept == past.acknowledged \subseteq journal.facts

\* Whatever fails and dies, the release that the link names can open the Journal, so a
\* service that stops there can start (order of restore and switch in apply_deployment; the
\* guard of rollback_deployment).  Excepted is what follows when systemd starts a candidate
\* in the middle of its own rollback, until the release under the link starts; and
\* rollbacks name the last receipt only (AnyReceipt).
CurrentCanOpen == past.revived \/ Opens(current)

\* The same without the exception.  Does not hold: the candidate that failed is not active
\* and so is not stopped, systemd starts it again, it advances the schema of the Journal
\* that was just restored, and then the link is put back to a release that refuses it.
LinkAlwaysOpens == Opens(current)

\* The release a report is about is the one that runs, unless the service just failed
\* (restart and stop in apply_deployment and rollback_deployment).  Two reports of an
\* automatic rollback are excepted: one of a candidate that systemd started in the middle
\* of it (revived), and one of an activation that began while another release than the
\* link's was running (astray): rolled back before its switch, it starts nothing and
\* reports what it found.
Runs(r) == service.release \in {r, NoRelease}
Reports(i, field, value) == receipts'[i][field] = value /\ receipts[i][field] # value
ReportsAreTrue ==
  [][\A i \in DOMAIN receipts :
       /\ Reports(i, "result", "deployed") => Runs(receipts[i].candidate)
       /\ Reports(i, "result", "rolled_back") =>
            Runs(receipts[i].previous) \/ past.revived \/ past.astray
       /\ command.kind = "rollback" /\ receipts'[i].rollback # receipts[i].rollback
          /\ receipts'[i].rollback.status = "restored_previous" => Runs(receipts[i].previous)]_vars

\* "switches back to the previous release, starts and probes it" (docs/OPERATIONS.md):
\* an activation that reports its rollback runs the previous release.  Does not hold of a
\* candidate that systemd starts again before the link is put back.
RollbackRestoresService ==
  [][\A i \in DOMAIN receipts :
       Reports(i, "result", "rolled_back") => Runs(receipts[i].previous)]_vars

\* Whatever fails and dies, the service runs again and again, started by the commands and
\* by systemd alone, with two exceptions: an activation that migrates died or failed and
\* left it stopped, or a candidate that systemd started in the middle of its own rollback
\* left a Journal that the release under the link refuses.
LeftStopped ==
  /\ command = NoCommand /\ service.state = "down"
  /\ receipts # <<>>
  /\ LET last == receipts[Len(receipts)] IN last.migration /\ last.result \in {"none", "failed"}
ServiceComesBack ==
  []<>IsActive \/ <>[]LeftStopped \/ <>[](past.revived /\ ~Opens(current))
=============================================================================
