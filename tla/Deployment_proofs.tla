-------------------------- MODULE Deployment_proofs --------------------------
EXTENDS ReleaseLifecycle, TLAPS, WellFoundedInduction

(***************************************************************************)
(* The inductive invariant of the deployment commands and its proof: what  *)
(* the receipt of the command in progress holds at each of its steps, what *)
(* the service can be running there, and which schema the journal has.     *)
(* First the lemmas about one receipt, one start of the service and one    *)
(* fault, then one lemma for each action, then the theorems.  The second   *)
(* half does the same for the lifecycle: what each step does to the disk,  *)
(* what is installed, what a plan may delete, and what the last event left *)
(* reversible.                                                             *)
(***************************************************************************)

\* Where the snapshot that was taken may still be put back, and where it is being put back.
Restorable == {"switch", "start", "probe", "result", "check", "restore"}
Reversing == {"restore", "putback"}

\* What the command knows of its receipt and of the link, by the step it is at.
CommandInv ==
  /\ Activating =>
       /\ Receipt.candidate = command.target /\ Receipt.previous = command.origin
       /\ command.pc \in {"copy", "stop", "snapshot"} => ~Receipt.snapshot.taken
       /\ At("snapshot") => service.state = "down"
       /\ ~Receipt.migration =>
            command.pc \notin {"stop", "snapshot", "start", "check", "restore", "startback"}
  /\ Migrating =>
       /\ Schema[command.origin] < Schema[command.target]
       /\ current \in {command.origin, command.target}
       /\ command.pc \notin {"restart", "restartback"}
       /\ command.pc \in {"switch", "start"} => Receipt.snapshot.taken
       /\ command.pc \in {"copy", "stop", "snapshot"} => current = command.origin
  /\ command.kind = "rollback" =>
       /\ Receipt.previous = command.target /\ ~Receipt.migration
       /\ command.pc \in {"switch", "restart", "probe", "result", "putback", "restartback",
                          "reprobe", "failed"}
  /\ command.pc \in {"start", "restart", "probe", "result"} =>
       command.switched /\ current = command.target

\* While the snapshot may still be put back, nothing acknowledged is missing from it, a
\* service that answers is the candidate that was switched to after it was taken, and its
\* schema is that of the origin, unless that was just found not to be so.
SnapshotInv ==
  Migrating /\ Receipt.snapshot.taken /\ command.pc \in Restorable =>
    /\ past.acknowledged \subseteq Receipt.snapshot.facts
    /\ service.state = "down" \/ current = command.target
    /\ IsActive => service.release = command.target
    /\ \/ Receipt.snapshot.schema = Schema[command.origin]
       \/ /\ command.pc \in {"check", "restore"} /\ service.state = "down"
          /\ journal.schema = Receipt.snapshot.schema /\ current = command.origin

\* Which release answers: the target once the probe begins, and the origin on the way back
\* unless the supervisor or an operator started another one meanwhile.
RunsInv ==
  /\ command.pc \in {"probe", "result"} => Runs(command.target)
  /\ Migrating /\ command.pc \in Reversing \cup {"startback"} /\ ~past.revived =>
       (IsActive => service.release = current)
  /\ Migrating /\ command.pc \in Reversing /\ ~past.revived =>
       (IsActive => current = command.origin)
  /\ Activating /\ command.pc \in {"reprobe", "answer"} /\ ~past.revived /\ ~past.astray
     /\ current = command.origin => Runs(command.origin)
  /\ Activating /\ ~Receipt.migration /\ command.pc \in {"copy", "switch"} /\ ~past.astray =>
       current = command.origin /\ Runs(command.origin)

SameSchema(r) == Schema[r] = Schema[current]
Last == receipts[Len(receipts)]

\* Unless such a start is remembered, the release under the link opens the journal; and
\* releases of a receipt without migration always share its schema.
OpenInv ==
  ~AnyReceipt =>
    /\ ~past.revived =>
         /\ Opens(current)
         /\ IsActive => Schema[service.release] <= Schema[current]
         /\ Migrating /\ At("putback") => journal.schema <= Schema[command.origin]
    /\ receipts # <<>> /\ ~Last.migration =>
         SameSchema(Last.previous) /\ SameSchema(Last.candidate)
    /\ command # NoCommand =>
         /\ command.receipt = Len(receipts)
         /\ ~Receipt.migration => SameSchema(command.target) /\ SameSchema(command.origin)

DeploymentInv == TypeOK /\ FactsAreKept /\ CommandInv /\ SnapshotInv /\ RunsInv /\ OpenInv


USE DeploymentAssumption

\* What the outcome of a rollback looks like in a receipt.
Recovery == [status : {"none", "restored_previous", "rollback_failed"},
             displaced : Release \cup {NoRelease}, automatic : BOOLEAN]

\* The fields that Prepare writes once, and that no later step of any command changes.
Static(i) == /\ receipts'[i].candidate = receipts[i].candidate
             /\ receipts'[i].build = receipts[i].build
             /\ receipts'[i].previous = receipts[i].previous
             /\ receipts'[i].migration = receipts[i].migration
SameReceipts == /\ Len(receipts') = Len(receipts) /\ DOMAIN receipts' = DOMAIN receipts
                /\ \A i \in DOMAIN receipts : Static(i)

\* Record changes one field of one receipt: a lemma for each of the three fields.
LEMMA SnapshotIsRecorded ==
  ASSUME receipts \in Seq(ReceiptRecord), command \in Commands,
         NEW v \in [taken : BOOLEAN, schema : Nat, facts : SUBSET Fact],
         Record("snapshot", v)
  PROVE  /\ receipts' \in Seq(ReceiptRecord)
         /\ SameReceipts
         /\ receipts'[command.receipt].snapshot = v
         /\ \A i \in DOMAIN receipts : /\ receipts'[i].result = receipts[i].result
                                       /\ receipts'[i].rollback = receipts[i].rollback
<1>1. receipts \in Seq(ReceiptRecord) /\ command.receipt \in DOMAIN receipts
  BY DEF Commands
<1>2. receipts' = [receipts EXCEPT ![command.receipt] =
                                       [receipts[command.receipt] EXCEPT !["snapshot"] = v]]
  BY DEF Record
<1>4. receipts[command.receipt] \in ReceiptRecord
  BY <1>1
<1>3. [receipts[command.receipt] EXCEPT !["snapshot"] = v] \in ReceiptRecord
  BY <1>4 DEF ReceiptRecord
<1>5. /\ receipts' \in Seq(ReceiptRecord) /\ Len(receipts') = Len(receipts)
      /\ DOMAIN receipts' = DOMAIN receipts
  BY <1>1, <1>2, <1>3
<1>6. receipts'[command.receipt] = [receipts[command.receipt] EXCEPT !["snapshot"] = v]
  BY <1>1, <1>2
<1>7. /\ Static(command.receipt) /\ receipts'[command.receipt].snapshot = v
      /\ receipts'[command.receipt].result = receipts[command.receipt].result
      /\ receipts'[command.receipt].rollback = receipts[command.receipt].rollback
  BY <1>6, <1>4 DEF Static, ReceiptRecord
<1>8. \A i \in DOMAIN receipts \ {command.receipt} : receipts'[i] = receipts[i]
  BY <1>1, <1>2
<1>9. QED BY <1>5, <1>7, <1>8 DEF SameReceipts, Static


LEMMA ResultIsRecorded ==
  ASSUME receipts \in Seq(ReceiptRecord), command \in Commands, NEW v \in Result, Record("result", v)
  PROVE  /\ receipts' \in Seq(ReceiptRecord)
         /\ SameReceipts
         /\ \A i \in DOMAIN receipts : receipts'[i].snapshot = receipts[i].snapshot
         /\ receipts'[command.receipt].result = v
         /\ \A i \in DOMAIN receipts : receipts'[i].rollback = receipts[i].rollback
         /\ \A i \in DOMAIN receipts \ {command.receipt} : receipts'[i] = receipts[i]
<1>1. receipts \in Seq(ReceiptRecord) /\ command.receipt \in DOMAIN receipts
  BY DEF Commands
<1>2. receipts' = [receipts EXCEPT ![command.receipt] =
                                       [receipts[command.receipt] EXCEPT !["result"] = v]]
  BY DEF Record
<1>4. receipts[command.receipt] \in ReceiptRecord
  BY <1>1
<1>3. [receipts[command.receipt] EXCEPT !["result"] = v] \in ReceiptRecord
  BY <1>4 DEF ReceiptRecord
<1>5. /\ receipts' \in Seq(ReceiptRecord) /\ Len(receipts') = Len(receipts)
      /\ DOMAIN receipts' = DOMAIN receipts
  BY <1>1, <1>2, <1>3
<1>6. receipts'[command.receipt] = [receipts[command.receipt] EXCEPT !["result"] = v]
  BY <1>1, <1>2
<1>7. /\ Static(command.receipt) /\ receipts'[command.receipt].result = v
      /\ receipts'[command.receipt].snapshot = receipts[command.receipt].snapshot
      /\ receipts'[command.receipt].rollback = receipts[command.receipt].rollback
  BY <1>6, <1>4 DEF Static, ReceiptRecord
<1>8. \A i \in DOMAIN receipts \ {command.receipt} : receipts'[i] = receipts[i]
  BY <1>1, <1>2
<1>9. QED BY <1>5, <1>7, <1>8 DEF SameReceipts, Static


LEMMA RollbackIsRecorded ==
  ASSUME receipts \in Seq(ReceiptRecord), command \in Commands, NEW v \in Recovery, Record("rollback", v)
  PROVE  /\ receipts' \in Seq(ReceiptRecord)
         /\ SameReceipts
         /\ \A i \in DOMAIN receipts : receipts'[i].snapshot = receipts[i].snapshot
         /\ receipts'[command.receipt].rollback = v
         /\ \A i \in DOMAIN receipts : receipts'[i].result = receipts[i].result
         /\ \A i \in DOMAIN receipts \ {command.receipt} : receipts'[i] = receipts[i]
<1>1. receipts \in Seq(ReceiptRecord) /\ command.receipt \in DOMAIN receipts
  BY DEF Commands
<1>2. receipts' = [receipts EXCEPT ![command.receipt] =
                                       [receipts[command.receipt] EXCEPT !["rollback"] = v]]
  BY DEF Record
<1>4. receipts[command.receipt] \in ReceiptRecord
  BY <1>1
<1>3. [receipts[command.receipt] EXCEPT !["rollback"] = v] \in ReceiptRecord
  BY <1>4 DEF ReceiptRecord, Recovery
<1>5. /\ receipts' \in Seq(ReceiptRecord) /\ Len(receipts') = Len(receipts)
      /\ DOMAIN receipts' = DOMAIN receipts
  BY <1>1, <1>2, <1>3
<1>6. receipts'[command.receipt] = [receipts[command.receipt] EXCEPT !["rollback"] = v]
  BY <1>1, <1>2
<1>7. /\ Static(command.receipt) /\ receipts'[command.receipt].rollback = v
      /\ receipts'[command.receipt].snapshot = receipts[command.receipt].snapshot
      /\ receipts'[command.receipt].result = receipts[command.receipt].result
  BY <1>6, <1>4 DEF Static, ReceiptRecord
<1>8. \A i \in DOMAIN receipts \ {command.receipt} : receipts'[i] = receipts[i]
  BY <1>1, <1>2
<1>9. QED BY <1>5, <1>7, <1>8 DEF SameReceipts, Static

\* The history variable, and the two ways a start of the service may end.
PastRecord == [builds : Nat, faults : Nat, acknowledged : SUBSET Fact,
               provisional : SUBSET Fact, revived : BOOLEAN, astray : BOOLEAN]
UpNow == /\ journal' \in [schema : Nat, facts : SUBSET Fact] /\ journal'.facts = journal.facts
         /\ Opens(current) /\ journal'.schema = Schema[current]
         /\ service' \in [state : {"up"}, release : Release]
         /\ service'.state = "up" /\ service'.release = current
WaitingNow == /\ journal' \in [schema : Nat, facts : SUBSET Fact] /\ journal'.facts = journal.facts
              /\ journal' = journal \/ (Opens(current) /\ journal'.schema <= Schema[current])
              /\ service' \in [state : {"waiting", "down"}, release : {NoRelease}]
              /\ service'.state = "waiting" /\ service'.release = NoRelease

\* A start that succeeds, one that does not, and what a fault leaves of the service.
LEMMA RunLemma == ASSUME TypeOK, Run(current) PROVE UpNow
  BY DEF TypeOK, Run, UpNow

LEMMA FailsLemma == ASSUME TypeOK, FailsToRun(current) PROVE WaitingNow
<1>1. CASE Opens(current)
  <2>1. PICK v \in journal.schema .. Schema[current] : journal' = [journal EXCEPT !.schema = v]
    BY <1>1 DEF FailsToRun
  <2>2. v \in Nat /\ v <= Schema[current]
    BY <2>1 DEF TypeOK
  <2>3. service' = [state |-> "waiting", release |-> NoRelease]
    BY DEF FailsToRun
  <2>4. /\ journal' \in [schema : Nat, facts : SUBSET Fact] /\ journal'.facts = journal.facts
        /\ journal'.schema <= Schema[current]
    BY <2>1, <2>2 DEF TypeOK
  <2>5. QED BY <1>1, <2>4, <2>3 DEF WaitingNow
<1>2. CASE ~Opens(current)
  <2>1. journal' = journal /\ service' = [state |-> "waiting", release |-> NoRelease]
    BY <1>2 DEF FailsToRun
  <2>2. QED BY <2>1 DEF TypeOK, WaitingNow
<1>3. QED BY <1>1, <1>2

LEMMA FaultLemma ==
  ASSUME TypeOK, Fault
  PROVE  /\ past' \in PastRecord
         /\ past'.acknowledged = past.acknowledged /\ past'.provisional = past.provisional
         /\ past'.revived = past.revived /\ past'.astray = past.astray
<1>1. past \in PastRecord
  BY DEF TypeOK, PastRecord
<1>2. past' = [past EXCEPT !.faults = past.faults + 1]
  BY DEF Fault
<1>3. past.faults + 1 \in Nat
  BY <1>1 DEF PastRecord
<1>4. past' \in PastRecord
  BY <1>1, <1>2, <1>3 DEF PastRecord
<1>5. past'.acknowledged = past.acknowledged /\ past'.provisional = past.provisional
  BY <1>1, <1>2
<1>6. past'.revived = past.revived /\ past'.astray = past.astray
  BY <1>1, <1>2
<1>7. QED BY <1>4, <1>5, <1>6

LEMMA StartedLemma ==
  ASSUME TypeOK, Started
  PROVE  /\ past' \in PastRecord
         /\ past'.acknowledged = past.acknowledged /\ past'.provisional = past.provisional
         /\ ~past'.revived /\ past'.astray = past.astray
  BY DEF TypeOK, Started, PastRecord

\* The service and its clients: each action of theirs keeps the invariant.
LEMMA CrashStep == ASSUME DeploymentInv, Crash PROVE DeploymentInv'
<1> USE DEF At, Receipt, Activating, Migrating, disk, IsActive, Opens
<1>0. command \in Commands \cup {NoCommand} /\ NoCommand.kind = "none" /\ NoCommand.pc = "idle"
  BY DEF DeploymentInv, TypeOK, NoCommand
<1>a. /\ service' = [state |-> "waiting", release |-> NoRelease]
      /\ UNCHANGED <<journal, disk, command>> /\ service.state = "up"
  BY DEF Crash
<1>b. /\ past' \in PastRecord
      /\ past'.acknowledged = past.acknowledged /\ past'.provisional = past.provisional
      /\ past'.revived = past.revived /\ past'.astray = past.astray
  BY FaultLemma DEF Crash, DeploymentInv
<1> USE <1>a, <1>b
<1>1. TypeOK'
  BY <1>0 DEF DeploymentInv, TypeOK, PastRecord, Commands
<1> USE <1>0 DEF Commands
<1>2. FactsAreKept'
  BY DEF DeploymentInv, FactsAreKept
<1>3. CommandInv'
  BY DEF DeploymentInv, CommandInv
<1>4. SnapshotInv'
  BY DEF DeploymentInv, SnapshotInv
<1>5. RunsInv'
  BY DEF DeploymentInv, RunsInv, Runs
<1>6. OpenInv'
  BY DEF DeploymentInv, OpenInv, Last, SameSchema
<1>7. QED BY <1>1, <1>2, <1>3, <1>4, <1>5, <1>6 DEF DeploymentInv

LEMMA AutoRestartStep == ASSUME DeploymentInv, AutoRestart PROVE DeploymentInv'
<1> USE DEF At, Receipt, Activating, Migrating, disk, IsActive, Opens
<1>0. command \in Commands \cup {NoCommand} /\ NoCommand.kind = "none" /\ NoCommand.pc = "idle"
  BY DEF DeploymentInv, TypeOK, NoCommand
<1>a. UpNow \/ WaitingNow
  BY RunLemma, FailsLemma DEF AutoRestart, DeploymentInv
<1>b. /\ past' \in PastRecord
      /\ past'.acknowledged = past.acknowledged /\ past'.provisional = past.provisional
      /\ \/ UpNow /\ past'.revived = Unguarded
         \/ WaitingNow /\ past'.revived = (past.revived \/ Unguarded)
      /\ past'.astray = past.astray
  <2>1. past \in PastRecord
    BY DEF DeploymentInv, TypeOK, PastRecord
  <2>2. Unguarded \in BOOLEAN
    BY DEF Unguarded
  <2>3. (past.revived \/ Unguarded) \in BOOLEAN
    OBVIOUS
  <2>4. CASE Run(current) /\ past' = [past EXCEPT !.revived = Unguarded]
    BY <2>1, <2>2, <2>4, RunLemma DEF DeploymentInv, PastRecord
  <2>5. CASE /\ FailsToRun(current)
             /\ past' = [past EXCEPT !.revived = past.revived \/ Unguarded, !.faults = past.faults + 1]
    <3>1. past.faults + 1 \in Nat
      BY <2>1 DEF PastRecord
    <3>2. WaitingNow
      BY <2>5, FailsLemma DEF DeploymentInv
    <3>3. QED BY <2>1, <2>3, <2>5, <3>1, <3>2 DEF PastRecord
  <2>6. QED BY <2>4, <2>5 DEF AutoRestart
<1>c. service.state = "waiting" /\ UNCHANGED <<disk, command>>
  BY DEF AutoRestart
<1>d. ~past'.revived => ~Unguarded /\ (UpNow \/ ~past.revived)
  BY <1>a, <1>b
<1> USE <1>a, <1>b, <1>c, <1>d DEF UpNow, WaitingNow, Unguarded
<1>1. TypeOK'
  BY <1>0 DEF DeploymentInv, TypeOK, PastRecord, Commands
<1> USE <1>0 DEF Commands
<1>2. FactsAreKept'
  BY DEF DeploymentInv, FactsAreKept
<1>3. CommandInv'
  BY DEF DeploymentInv, CommandInv
<1>4. SnapshotInv'
  BY DEF DeploymentInv, SnapshotInv
<1>5. RunsInv'
  BY DEF DeploymentInv, CommandInv, RunsInv, Reversing, Runs
<1>6. OpenInv'
  BY DEF DeploymentInv, CommandInv, OpenInv, Last, SameSchema, RunsInv, Reversing
<1>7. QED BY <1>1, <1>2, <1>3, <1>4, <1>5, <1>6 DEF DeploymentInv

LEMMA StartByHandStep == ASSUME DeploymentInv, StartByHand PROVE DeploymentInv'
<1> USE DEF Activating, Migrating, disk, IsActive, Opens
<1>0. command \in Commands \cup {NoCommand} /\ NoCommand.kind = "none" /\ NoCommand.pc = "idle"
  BY DEF DeploymentInv, TypeOK, NoCommand
<1>a. UpNow \/ WaitingNow
  BY RunLemma, FailsLemma DEF StartByHand, DeploymentInv
<1>b. /\ past' \in PastRecord
      /\ past'.acknowledged = past.acknowledged /\ past'.provisional = past.provisional
      /\ past'.revived = past.revived \/ (~past'.revived /\ UpNow)
      /\ past'.astray = past.astray
  <2>1. past \in PastRecord
    BY DEF DeploymentInv, TypeOK, PastRecord
  <2>2. CASE Run(current) /\ Started
    BY <2>2, RunLemma, StartedLemma DEF DeploymentInv
  <2>3. CASE past' = [past EXCEPT !.faults = past.faults + 1]
    <3>1. past.faults + 1 \in Nat
      BY <2>1 DEF PastRecord
    <3>2. QED BY <2>1, <2>3, <3>1 DEF PastRecord
  <2>4. CASE past' = [past EXCEPT !.faults = past.faults]
    BY <2>1, <2>4 DEF PastRecord
  <2>5. QED BY <2>2, <2>3, <2>4 DEF StartByHand
<1>c. command = NoCommand /\ UNCHANGED <<disk, command>>
  BY DEF StartByHand
<1> USE <1>a, <1>b, <1>c DEF UpNow, WaitingNow
<1>1. TypeOK'
  BY <1>0 DEF DeploymentInv, TypeOK, PastRecord
<1> USE <1>0 DEF Commands
<1>2. FactsAreKept'
  BY DEF DeploymentInv, FactsAreKept
<1>3. CommandInv'
  BY DEF CommandInv
<1>4. SnapshotInv'
  BY DEF SnapshotInv
<1>5. RunsInv'
  BY DEF RunsInv
<1>6. OpenInv'
  BY DEF DeploymentInv, OpenInv, Last, SameSchema
<1>7. QED BY <1>1, <1>2, <1>3, <1>4, <1>5, <1>6 DEF DeploymentInv

LEMMA CommitStep == ASSUME DeploymentInv, NEW f \in Fact, Commit(f) PROVE DeploymentInv'
<1> USE DEF At, Receipt, Activating, Migrating, disk, IsActive, Opens, Commit, Provisional
<1>0. command \in Commands \cup {NoCommand} /\ NoCommand.kind = "none" /\ NoCommand.pc = "idle"
  BY DEF DeploymentInv, TypeOK, NoCommand
<1>1. TypeOK'
  BY <1>0 DEF DeploymentInv, TypeOK, Commands
<1> USE <1>0 DEF Commands
<1>2. FactsAreKept'
  BY DEF DeploymentInv, FactsAreKept
<1>3. CommandInv'
  BY DEF DeploymentInv, CommandInv
<1>4. SnapshotInv'
  BY DEF DeploymentInv, CommandInv, SnapshotInv, NoCommand
<1>5. RunsInv'
  BY DEF DeploymentInv, RunsInv, Runs
<1>6. OpenInv'
  BY DEF DeploymentInv, OpenInv, Last, SameSchema, RunsInv, Reversing
<1>7. QED BY <1>1, <1>2, <1>3, <1>4, <1>5, <1>6 DEF DeploymentInv

\* The commands, step by step, as long as nothing fails.
LEMMA PrepareStep == ASSUME DeploymentInv, NEW r \in Release, Prepare(r) PROVE DeploymentInv'
<1> USE DEF At, Goto, Receipt, Activating, Migrating, disk, IsActive, Opens
<1>0. command \in Commands \cup {NoCommand} /\ NoCommand.kind = "none" /\ NoCommand.pc = "idle"
  BY DEF DeploymentInv, TypeOK, NoCommand
<1>a. /\ command = NoCommand /\ candidates' = [candidates EXCEPT ![r] = past.builds + 1]
      /\ UNCHANGED <<journal, service, releases, current, receipts, command>>
  BY DEF Prepare
<1>b. /\ past' \in PastRecord
      /\ past'.acknowledged = past.acknowledged /\ past'.provisional = past.provisional
      /\ past'.revived = past.revived /\ past'.astray = past.astray
  <2>1. past \in PastRecord
    BY DEF DeploymentInv, TypeOK, PastRecord
  <2>2. past.builds + 1 \in Nat
    BY <2>1 DEF PastRecord
  <2>3. QED BY <2>1, <2>2 DEF PastRecord, Prepare
<1>c. candidates' \in [Release -> Nat]
  BY <1>a DEF DeploymentInv, TypeOK
<1> USE <1>a, <1>b, <1>c
<1>1. TypeOK'
  BY <1>0 DEF DeploymentInv, TypeOK, PastRecord
<1> USE <1>0 DEF Commands
<1>2. FactsAreKept'
  BY DEF DeploymentInv, FactsAreKept
<1>3. CommandInv'
  BY DEF CommandInv
<1>4. SnapshotInv'
  BY DEF SnapshotInv
<1>5. RunsInv'
  BY DEF RunsInv
<1>6. OpenInv'
  BY DEF DeploymentInv, OpenInv, Last, SameSchema
<1>7. QED BY <1>1, <1>2, <1>3, <1>4, <1>5, <1>6 DEF DeploymentInv

LEMMA ApplyStep == ASSUME DeploymentInv, NEW r \in Release, Apply(r) PROVE DeploymentInv'
<1> USE DEF At, Goto, Receipt, Activating, Migrating, disk, IsActive, Opens
<1> DEFINE new == [candidate |-> r, build |-> candidates[r], previous |-> current,
                   migration |-> Schema[r] > journal.schema, snapshot |-> NoSnapshot,
                   result |-> "none", rollback |-> NoRollback]
           n == Len(receipts) + 1
<1>a. /\ command = NoCommand /\ service.state = "up"
      /\ Schema[current] = journal.schema /\ Schema[r] >= journal.schema
      /\ receipts' = Append(receipts, new)
      /\ command' = [kind |-> "apply", pc |-> "copy", receipt |-> n,
                     target |-> r, origin |-> current, switched |-> FALSE]
      /\ UNCHANGED <<journal, service, releases, candidates, current>>
  BY DEF Apply
<1>b. /\ past' \in PastRecord
      /\ past'.acknowledged = past.acknowledged /\ past'.provisional = past.provisional
      /\ past'.revived = past.revived /\ past'.astray = (service.release # current)
  <2>1. past \in PastRecord
    BY DEF DeploymentInv, TypeOK, PastRecord
  <2>2. past' = [past EXCEPT !.astray = service.release # current]
    BY DEF Apply
  <2>3. (service.release # current) \in BOOLEAN
    OBVIOUS
  <2>4. QED BY <2>1, <2>2, <2>3 DEF PastRecord
<1>c. /\ new \in ReceiptRecord /\ new.candidate = r /\ new.previous = current
      /\ new.migration = (Schema[r] > journal.schema) /\ ~new.snapshot.taken
  <2>1. (Schema[r] > journal.schema) \in BOOLEAN
    OBVIOUS
  <2>2. NoSnapshot \in [taken : BOOLEAN, schema : Nat, facts : SUBSET Fact] /\ ~NoSnapshot.taken
    BY DEF NoSnapshot
  <2>3. NoRollback \in [status : {"none", "restored_previous", "rollback_failed"},
                        displaced : Release \cup {NoRelease}, automatic : BOOLEAN]
    BY DEF NoRollback
  <2>4. current \in Release /\ candidates[r] \in Nat
    BY DEF DeploymentInv, TypeOK
  <2>5. QED BY <2>1, <2>2, <2>3, <2>4 DEF ReceiptRecord, Result
<1> HIDE DEF new
<1>d. /\ receipts' \in Seq(ReceiptRecord) /\ Len(receipts') = n /\ receipts'[n] = new
      /\ n \in DOMAIN receipts' /\ receipts' # <<>> /\ Last' = new
  BY <1>a, <1>c DEF DeploymentInv, TypeOK, Last
<1>e. command'.kind = "apply" /\ command' # NoCommand /\ Receipt' = new
  BY <1>a, <1>d DEF NoCommand
<1>f. command' \in Commands'
  BY <1>a, <1>d DEF DeploymentInv, TypeOK, Commands, Label
<1>1. TypeOK'
  BY <1>a, <1>b, <1>d, <1>f DEF DeploymentInv, TypeOK, PastRecord
<1>2. FactsAreKept'
  BY <1>a, <1>b DEF DeploymentInv, FactsAreKept
<1>g. current \in Release /\ journal.schema \in Nat
  BY DEF DeploymentInv, TypeOK
<1>3. CommandInv'
  BY <1>a, <1>c, <1>e, <1>g DEF CommandInv
<1>4. SnapshotInv'
  BY <1>a, <1>e DEF SnapshotInv, Restorable
<1>5. RunsInv'
  BY <1>a, <1>b, <1>e DEF RunsInv, Reversing, Runs
<1>6. OpenInv'
  <2>1. SUFFICES ASSUME ~AnyReceipt
                 PROVE  /\ Schema[current] >= journal.schema
                        /\ ~past.revived => Schema[service.release] <= Schema[current]
                        /\ ~new.migration => Schema[r] = Schema[current]
    BY <1>a, <1>b, <1>c, <1>d, <1>e DEF OpenInv, SameSchema
  <2>2. Schema[r] \in Nat /\ Schema[current] \in Nat
    BY <1>g
  <2>3. ~past.revived => Schema[service.release] <= Schema[current]
    BY <1>a, <2>1 DEF DeploymentInv, OpenInv
  <2>4. ~new.migration => Schema[r] = Schema[current]
    <3>1. ASSUME ~new.migration PROVE ~(Schema[r] > journal.schema)
      BY <1>c, <3>1
    <3>2. \A a, b \in Nat : a >= b /\ ~(a > b) => a = b
      OBVIOUS
    <3>3. QED BY <1>a, <1>g, <2>2, <3>1, <3>2
  <2>5. QED BY <1>a, <1>g, <2>2, <2>3, <2>4
<1>7. QED BY <1>1, <1>2, <1>3, <1>4, <1>5, <1>6 DEF DeploymentInv

LEMMA RollbackStep == ASSUME DeploymentInv,
                       NEW i \in DOMAIN receipts, Rollback(i) PROVE DeploymentInv'
<1> USE DEF Receipt, Activating, Migrating, disk, IsActive, Opens, Rollback
<1>0. command \in Commands \cup {NoCommand} /\ NoCommand.kind = "none" /\ NoCommand.pc = "idle"
  BY DEF NoCommand
<1>1. TypeOK'
  BY <1>0 DEF DeploymentInv, TypeOK, Commands, Label
<1> USE <1>0 DEF Commands
<1>2. FactsAreKept'
  BY DEF DeploymentInv, FactsAreKept
<1>3. CommandInv'
  BY DEF CommandInv
<1>4. SnapshotInv'
  BY DEF SnapshotInv
<1>5. RunsInv'
  BY DEF RunsInv
<1>6. OpenInv'
  BY DEF DeploymentInv, OpenInv, Last, SameSchema
<1>7. QED BY <1>1, <1>2, <1>3, <1>4, <1>5, <1>6 DEF DeploymentInv

LEMMA CopyReleaseStep == ASSUME DeploymentInv, CopyRelease PROVE DeploymentInv'
<1> USE DEF At, Goto, Receipt, Activating, Migrating, IsActive, Opens, CopyRelease
<1>0. command \in Commands /\ command # NoCommand /\ command.receipt \in DOMAIN receipts
  BY DEF DeploymentInv, TypeOK, NoCommand, Commands
<1>1. TypeOK'
  BY <1>0 DEF DeploymentInv, TypeOK, Commands, Label
<1> USE <1>0 DEF Commands
<1>2. FactsAreKept'
  BY DEF DeploymentInv, FactsAreKept
<1>3. CommandInv'
  BY DEF DeploymentInv, CommandInv
<1>4. SnapshotInv'
  BY DEF DeploymentInv, CommandInv, SnapshotInv
<1>5. RunsInv'
  BY DEF DeploymentInv, RunsInv, Reversing, Runs
<1>6. OpenInv'
  BY DEF DeploymentInv, OpenInv, Last, SameSchema
<1>7. QED BY <1>1, <1>2, <1>3, <1>4, <1>5, <1>6 DEF DeploymentInv

LEMMA StopServiceStep == ASSUME DeploymentInv, StopService PROVE DeploymentInv'
<1> USE DEF At, Goto, Receipt, Activating, Migrating, disk, IsActive, Opens, StopService
<1>0. command \in Commands /\ command # NoCommand /\ command.receipt \in DOMAIN receipts
  BY DEF DeploymentInv, TypeOK, NoCommand, Commands
<1>1. TypeOK'
  BY <1>0 DEF DeploymentInv, TypeOK, Commands, Label
<1> USE <1>0 DEF Commands
<1>2. FactsAreKept'
  BY DEF DeploymentInv, FactsAreKept
<1>3. CommandInv'
  BY DEF DeploymentInv, CommandInv
<1>4. SnapshotInv'
  BY DEF DeploymentInv, CommandInv, SnapshotInv
<1>5. RunsInv'
  BY DEF RunsInv
<1>6. OpenInv'
  BY DEF DeploymentInv, CommandInv, OpenInv, Last
<1>7. QED BY <1>1, <1>2, <1>3, <1>4, <1>5, <1>6 DEF DeploymentInv

LEMMA SnapshotStep == ASSUME DeploymentInv, Snapshot PROVE DeploymentInv'
<1> USE DEF At, Goto, Receipt, Activating, Migrating, IsActive, Opens, Snapshot
<1>0. command \in Commands /\ command # NoCommand /\ command.receipt \in DOMAIN receipts
  BY DEF DeploymentInv, TypeOK, NoCommand, Commands
<1>a. /\ receipts' \in Seq(ReceiptRecord) /\ SameReceipts
      /\ receipts'[command.receipt].snapshot =
           [taken |-> TRUE, schema |-> journal.schema, facts |-> journal.facts]
  BY <1>0, SnapshotIsRecorded DEF DeploymentInv, TypeOK
<1>b. /\ command' = [command EXCEPT !.pc = command'.pc]
      /\ Migrating /\ Receipt.previous = command.origin
      /\ \/ command'.pc = "switch" /\ journal.schema = Schema[command.origin]
         \/ command'.pc = "check"
  BY <1>0 DEF DeploymentInv, CommandInv, Undo, Commands
<1> USE <1>a, <1>b
<1>1. TypeOK'
  BY <1>0 DEF DeploymentInv, TypeOK, Commands, Label, SameReceipts
<1> USE <1>0 DEF Commands
<1>2. FactsAreKept'
  BY DEF DeploymentInv, FactsAreKept
<1>3. CommandInv'
  BY DEF DeploymentInv, CommandInv, SameReceipts, Static, NoCommand
<1>4. SnapshotInv'
  BY DEF DeploymentInv, CommandInv, SnapshotInv, Restorable, FactsAreKept, SameReceipts, Static, NoCommand
<1>5. RunsInv'
  BY DEF DeploymentInv, CommandInv, RunsInv, SameReceipts, Static
<1>6. OpenInv'
  BY DEF DeploymentInv, CommandInv, OpenInv, Last, SameReceipts, Static
<1>7. QED BY <1>1, <1>2, <1>3, <1>4, <1>5, <1>6 DEF DeploymentInv

LEMMA SwitchCurrentStep == ASSUME DeploymentInv, SwitchCurrent PROVE DeploymentInv'
<1> USE DEF At, Receipt, Activating, Migrating, IsActive, Opens, SwitchCurrent
<1>0. command \in Commands /\ command # NoCommand /\ command.receipt \in DOMAIN receipts
  BY DEF DeploymentInv, TypeOK, NoCommand, Commands
<1>1. TypeOK'
  BY <1>0 DEF DeploymentInv, TypeOK, Commands, Label
<1> USE <1>0 DEF Commands
<1>2. FactsAreKept'
  BY DEF DeploymentInv, FactsAreKept
<1>3. CommandInv'
  BY DEF DeploymentInv, CommandInv
<1>4. SnapshotInv'
  BY DEF DeploymentInv, SnapshotInv, Restorable
<1>5. RunsInv'
  BY DEF RunsInv, Reversing
<1>6. OpenInv'
  <2>1. CASE Migrating
    <3>1. /\ command'.pc = "start" /\ command'.receipt = command.receipt
          /\ UNCHANGED <<journal, service, receipts, past>> /\ current' = command.target
      BY <2>1
    <3>2. SUFFICES ASSUME ~AnyReceipt
                   PROVE  /\ ~past.revived =>
                               /\ Schema[current'] >= journal.schema
                               /\ IsActive => Schema[service.release] <= Schema[current']
                          /\ Last.migration
                          /\ command.receipt = Len(receipts)
      BY <2>1, <3>1 DEF OpenInv, Last
    <3>3. /\ ~past.revived =>
               /\ Schema[current] >= journal.schema
               /\ IsActive => Schema[service.release] <= Schema[current]
          /\ command.receipt = Len(receipts)
      BY <3>2 DEF DeploymentInv, OpenInv
    <3>4. /\ Schema[current] \in Nat /\ Schema[current'] \in Nat /\ journal.schema \in Nat
          /\ IsActive => Schema[service.release] \in Nat
      BY DEF DeploymentInv, TypeOK
    <3>5. Schema[current] <= Schema[current']
      BY <2>1, <3>1, <3>4 DEF DeploymentInv, CommandInv
    <3>6. QED BY <2>1, <3>3, <3>4, <3>5 DEF Last
  <2>2. CASE ~Migrating
    BY <2>2 DEF DeploymentInv, CommandInv, OpenInv, Last, SameSchema
  <2>3. QED BY <2>1, <2>2
<1>7. QED BY <1>1, <1>2, <1>3, <1>4, <1>5, <1>6 DEF DeploymentInv

LEMMA ActivateStep == ASSUME DeploymentInv, Activate PROVE DeploymentInv'
<1> USE DEF At, Goto, Receipt, Activating, Migrating, disk, Opens
<1>0. command \in Commands /\ command # NoCommand /\ command.receipt \in DOMAIN receipts
  BY DEF DeploymentInv, TypeOK, NoCommand, Commands, Activate
<1>a. /\ \/ UpNow /\ Started
         \/ UNCHANGED <<journal, service, past>> /\ IsActive /\ At("start")
      /\ command' = [command EXCEPT !.pc = "probe"]
      /\ At("start") \/ At("restart")
      /\ UNCHANGED disk
  BY RunLemma DEF Activate, Start, Restart, DeploymentInv
<1>b. /\ past' \in PastRecord
      /\ past'.acknowledged = past.acknowledged /\ past'.provisional = past.provisional
      /\ past'.revived = past.revived \/ (~past'.revived /\ UpNow)
      /\ past'.astray = past.astray
  BY <1>a, StartedLemma DEF DeploymentInv, TypeOK, PastRecord
<1> USE <1>a, <1>b DEF UpNow
<1>1. TypeOK'
  BY <1>0 DEF DeploymentInv, TypeOK, Commands, Label, PastRecord
<1> USE <1>0 DEF Commands
<1>2. FactsAreKept'
  BY DEF DeploymentInv, FactsAreKept
<1>3. CommandInv'
  BY DEF DeploymentInv, CommandInv
<1>4. SnapshotInv'
  BY DEF DeploymentInv, CommandInv, SnapshotInv, Restorable
<1>5. RunsInv'
  BY DEF DeploymentInv, CommandInv, SnapshotInv, RunsInv, Reversing, Restorable, Runs
<1>6. OpenInv'
  BY DEF DeploymentInv, OpenInv, Last, SameSchema, SameReceipts, Static, NoCommand, RunsInv, Reversing
<1>7. QED BY <1>1, <1>2, <1>3, <1>4, <1>5, <1>6 DEF DeploymentInv

LEMMA ProbeStep == ASSUME DeploymentInv, Probe PROVE DeploymentInv'
<1> USE DEF At, Goto, Receipt, Activating, Migrating, disk, Opens, Probe
<1>0. command \in Commands /\ command # NoCommand /\ command.receipt \in DOMAIN receipts
  BY DEF DeploymentInv, TypeOK, NoCommand, Commands
<1>1. TypeOK'
  BY <1>0 DEF DeploymentInv, TypeOK, Commands, Label
<1> USE <1>0 DEF Commands
<1>2. FactsAreKept'
  BY DEF DeploymentInv, FactsAreKept
<1>3. CommandInv'
  BY DEF DeploymentInv, CommandInv
<1>4. SnapshotInv'
  BY DEF DeploymentInv, SnapshotInv, Restorable
<1>5. RunsInv'
  BY DEF DeploymentInv, RunsInv, Reversing, Runs
<1>6. OpenInv'
  BY DEF DeploymentInv, OpenInv, Last, SameSchema
<1>7. QED BY <1>1, <1>2, <1>3, <1>4, <1>5, <1>6 DEF DeploymentInv

LEMMA DeployedStep == ASSUME DeploymentInv, Deployed PROVE DeploymentInv'
<1> USE DEF Activating, Migrating, IsActive, Opens, Accept, Deployed
<1>0. command \in Commands /\ command # NoCommand /\ command.receipt \in DOMAIN receipts
  BY DEF DeploymentInv, TypeOK, NoCommand, Commands
<1>a. receipts' \in Seq(ReceiptRecord) /\ SameReceipts
      /\ \A i \in DOMAIN receipts : receipts'[i].snapshot = receipts[i].snapshot
  BY <1>0, ResultIsRecorded DEF TypeOK, DeploymentInv, Result
<1> USE <1>a
<1>1. TypeOK'
  BY <1>0 DEF DeploymentInv, TypeOK
<1> USE <1>0 DEF Commands
<1>2. FactsAreKept'
  BY DEF DeploymentInv, FactsAreKept
<1>3. CommandInv'
  BY DEF CommandInv, NoCommand
<1>4. SnapshotInv'
  BY DEF SnapshotInv, NoCommand
<1>5. RunsInv'
  BY DEF RunsInv, NoCommand
<1>6. OpenInv'
  BY DEF DeploymentInv, OpenInv, Last, SameSchema, SameReceipts, Static, NoCommand
<1>7. QED BY <1>1, <1>2, <1>3, <1>4, <1>5, <1>6 DEF DeploymentInv

LEMMA RestoredStep == ASSUME DeploymentInv, Restored PROVE DeploymentInv'
<1> USE DEF At, Activating, Migrating, IsActive, Opens, Accept, Restored
<1>0. command \in Commands /\ command # NoCommand /\ command.receipt \in DOMAIN receipts
  BY DEF DeploymentInv, TypeOK, NoCommand, Commands
<1>a. receipts' \in Seq(ReceiptRecord) /\ SameReceipts
      /\ \A i \in DOMAIN receipts : receipts'[i].snapshot = receipts[i].snapshot
  BY <1>0, RollbackIsRecorded DEF TypeOK, DeploymentInv, Recovery, Commands
<1> USE <1>a
<1>1. TypeOK'
  BY <1>0 DEF DeploymentInv, TypeOK
<1> USE <1>0 DEF Commands
<1>2. FactsAreKept'
  BY DEF DeploymentInv, FactsAreKept
<1>3. CommandInv'
  BY DEF CommandInv, NoCommand
<1>4. SnapshotInv'
  BY DEF SnapshotInv, NoCommand
<1>5. RunsInv'
  BY DEF RunsInv, NoCommand
<1>6. OpenInv'
  BY DEF DeploymentInv, OpenInv, Last, SameSchema, SameReceipts, Static, NoCommand, Reversing
<1>7. QED BY <1>1, <1>2, <1>3, <1>4, <1>5, <1>6 DEF DeploymentInv

\* A failed step, the way back, its own failure, and the death of the command.
LEMMA StepFailsStep == ASSUME DeploymentInv, StepFails PROVE DeploymentInv'
<1> USE DEF At, Goto, Receipt, Activating, Migrating, IsActive, Opens
<1>0. command \in Commands /\ command # NoCommand /\ command.receipt \in DOMAIN receipts
  BY DEF DeploymentInv, TypeOK, NoCommand, Commands, StepFails
<1>a. /\ UNCHANGED <<journal, service>> \/ (command.pc \in {"start", "restart"} /\ WaitingNow)
      /\ current' = current \/ (At("switch") /\ current' = command.target)
      /\ UNCHANGED <<releases, candidates, receipts>>
  BY FailsLemma DEF StepFails, DeploymentInv
<1>c. /\ command' = [command EXCEPT !.pc = Undo]
      /\ command.pc \in {"stop", "snapshot", "switch", "start", "restart", "probe", "result"}
  BY DEF StepFails
<1>b. /\ past' \in PastRecord
      /\ past'.acknowledged = past.acknowledged /\ past'.provisional = past.provisional
      /\ past'.revived = past.revived /\ past'.astray = past.astray
  <2>1. CASE past' = past
    BY <2>1 DEF DeploymentInv, TypeOK, PastRecord
  <2>2. CASE Fault
    BY <2>2, FaultLemma DEF DeploymentInv
  <2>3. QED BY <2>1, <2>2 DEF StepFails
<1> USE <1>a, <1>b, <1>c DEF WaitingNow, Undo
<1>1. TypeOK'
  BY <1>0 DEF DeploymentInv, TypeOK, PastRecord, Commands, Label
<1> USE <1>0 DEF Commands
<1>2. FactsAreKept'
  BY DEF DeploymentInv, FactsAreKept
<1>3. CommandInv'
  BY DEF DeploymentInv, CommandInv
<1>4. SnapshotInv'
  BY DEF DeploymentInv, CommandInv, SnapshotInv, Restorable
<1>5. RunsInv'
  BY DEF DeploymentInv, CommandInv, RunsInv, Reversing, Runs
<1>6. OpenInv'
  <2>1. CASE current' = current
    BY <2>1 DEF DeploymentInv, OpenInv, Last, SameSchema
  <2>2. CASE At("switch") /\ current' = command.target
    <3>1. UNCHANGED <<journal, service>>
      BY <2>2
    <3>2. CASE Migrating
      <4>1. /\ command.pc' = "check" /\ receipts' = receipts
            /\ command'.receipt = command.receipt
        BY <3>2, <1>0
      <4>2. /\ Schema[command.origin] < Schema[command.target]
            /\ current \in {command.origin, command.target}
        BY <3>2 DEF DeploymentInv, CommandInv
      <4>3. /\ Schema[current] \in Nat /\ Schema[command.target] \in Nat
            /\ journal.schema \in Nat /\ Schema[command.origin] \in Nat
            /\ IsActive => Schema[service.release] \in Nat
        BY <1>0 DEF DeploymentInv, TypeOK
      <4>4. Schema[current] <= Schema[current']
        BY <2>2, <4>2, <4>3
      <4>5. SUFFICES ASSUME ~AnyReceipt
                     PROVE  /\ ~past.revived =>
                                 /\ Schema[current'] >= journal.schema
                                 /\ IsActive => Schema[service.release] <= Schema[current']
                            /\ Last.migration
                            /\ command.receipt = Len(receipts)
        BY <2>2, <3>1, <3>2, <4>1, <1>0 DEF OpenInv, Last
      <4>6. /\ ~past.revived =>
                 /\ Schema[current] >= journal.schema
                 /\ IsActive => Schema[service.release] <= Schema[current]
            /\ command.receipt = Len(receipts)
        BY <4>5, <1>0 DEF DeploymentInv, OpenInv
      <4>7. Schema[current'] \in Nat
        BY <2>2, <4>3
      <4>8. QED BY <4>3, <4>4, <4>6, <4>7, <3>2 DEF Last
    <3>3. CASE ~Migrating
      BY <2>2, <3>1, <3>3 DEF DeploymentInv, CommandInv, OpenInv, Last, SameSchema
    <3>4. QED BY <3>2, <3>3
  <2>3. QED BY <2>1, <2>2
<1>7. QED BY <1>1, <1>2, <1>3, <1>4, <1>5, <1>6 DEF DeploymentInv

LEMMA StopCandidateStep == ASSUME DeploymentInv, StopCandidate PROVE DeploymentInv'
<1> USE DEF At, Goto, Receipt, Activating, Migrating, disk, IsActive, Opens, StopCandidate
<1>0. command \in Commands /\ command # NoCommand /\ command.receipt \in DOMAIN receipts
  BY DEF DeploymentInv, TypeOK, NoCommand, Commands
<1>1. TypeOK'
  BY <1>0 DEF DeploymentInv, TypeOK, Commands, Label
<1> USE <1>0 DEF Commands
<1>2. FactsAreKept'
  BY DEF DeploymentInv, FactsAreKept
<1>3. CommandInv'
  BY DEF DeploymentInv, CommandInv
<1>4. SnapshotInv'
  BY DEF DeploymentInv, SnapshotInv, Restorable
<1>5. RunsInv'
  BY DEF RunsInv
<1>6. OpenInv'
  BY DEF DeploymentInv, CommandInv, OpenInv, Last
<1>7. QED BY <1>1, <1>2, <1>3, <1>4, <1>5, <1>6 DEF DeploymentInv

LEMMA RestoreJournalStep == ASSUME DeploymentInv, RestoreJournal PROVE DeploymentInv'
<1> USE DEF At, Goto, Receipt, Activating, Migrating, disk, IsActive, Opens, RestoreJournal
<1>0. command \in Commands /\ command # NoCommand /\ command.receipt \in DOMAIN receipts
  BY DEF DeploymentInv, TypeOK, NoCommand, Commands
<1>a. Receipt \in ReceiptRecord
  BY <1>0 DEF DeploymentInv, TypeOK
<1>b. Receipt.snapshot.facts \in SUBSET Fact /\ Receipt.snapshot.schema \in Nat
  BY <1>a DEF ReceiptRecord
<1>c. journal' \in [schema : Nat, facts : SUBSET Fact]
  BY <1>b DEF DeploymentInv, TypeOK
<1>1. TypeOK'
  BY <1>0, <1>c DEF DeploymentInv, TypeOK, Commands, Label
<1> USE <1>0 DEF Commands
<1>2. FactsAreKept'
  BY DEF DeploymentInv, FactsAreKept, SnapshotInv, CommandInv, Restorable
<1>3. CommandInv'
  BY DEF DeploymentInv, CommandInv
<1>4. SnapshotInv'
  BY DEF SnapshotInv, Restorable
<1>5. RunsInv'
  BY DEF DeploymentInv, RunsInv, Reversing
<1>d. /\ Migrating /\ Receipt.previous = command.origin
      /\ Schema[command.origin] < Schema[command.target]
      /\ current \in {command.origin, command.target}
  BY DEF DeploymentInv, CommandInv
<1>e. /\ Schema[command.origin] \in Nat /\ Schema[current] \in Nat
      /\ Schema[command.origin] <= Schema[current]
  BY <1>d DEF DeploymentInv, TypeOK
<1>f. \/ journal'.schema = Schema[command.origin]
      \/ journal'.schema = journal.schema /\ current = command.origin
  BY <1>d DEF DeploymentInv, SnapshotInv, Restorable
<1>g. ~AnyReceipt /\ ~past.revived =>
        journal'.schema <= Schema[command.origin] /\ journal'.schema <= Schema[current]
  BY <1>e, <1>f DEF DeploymentInv, OpenInv, TypeOK
<1>6. OpenInv'
  <2>1. UNCHANGED <<receipts, current, service, past>> /\ command'.receipt = command.receipt
        /\ command'.origin = command.origin /\ command'.target = command.target
        /\ command' # NoCommand /\ command'.pc \in {"putback", "startback"}
    BY DEF NoCommand
  <2>2. journal'.schema \in Nat
    BY <1>c
  <2>3. QED BY <1>d, <1>e, <1>g, <2>1, <2>2 DEF DeploymentInv, OpenInv, Last, SameSchema
<1>7. QED BY <1>1, <1>2, <1>3, <1>4, <1>5, <1>6 DEF DeploymentInv

LEMMA PutBackStep == ASSUME DeploymentInv, PutBack PROVE DeploymentInv'
<1> USE DEF At, Goto, Receipt, Activating, Migrating, IsActive, Opens, PutBack
<1>0. command \in Commands /\ command # NoCommand /\ command.receipt \in DOMAIN receipts
  BY DEF DeploymentInv, TypeOK, NoCommand, Commands
<1>1. TypeOK'
  BY <1>0 DEF DeploymentInv, TypeOK, Commands, Label
<1> USE <1>0 DEF Commands
<1>2. FactsAreKept'
  BY DEF DeploymentInv, FactsAreKept
<1>3. CommandInv'
  BY DEF DeploymentInv, CommandInv
<1>4. SnapshotInv'
  BY DEF SnapshotInv, Restorable
<1>5. RunsInv'
  BY DEF DeploymentInv, RunsInv, Reversing
<1>6. OpenInv'
  BY DEF DeploymentInv, CommandInv, OpenInv, Last, SameSchema, RunsInv, Reversing
<1>7. QED BY <1>1, <1>2, <1>3, <1>4, <1>5, <1>6 DEF DeploymentInv

LEMMA ReactivateStep == ASSUME DeploymentInv, Reactivate PROVE DeploymentInv'
<1> USE DEF At, Goto, Receipt, Activating, Migrating, disk, Opens
<1>0. command \in Commands /\ command # NoCommand /\ command.receipt \in DOMAIN receipts
  BY DEF DeploymentInv, TypeOK, NoCommand, Commands, Reactivate
<1>a. /\ \/ UpNow /\ Started
         \/ UNCHANGED <<journal, service, past>> /\ IsActive /\ At("startback")
      /\ command' = [command EXCEPT !.pc = "reprobe"]
      /\ At("startback") \/ At("restartback")
      /\ UNCHANGED disk
  BY RunLemma DEF Reactivate, Start, Restart, DeploymentInv
<1>b. /\ past' \in PastRecord
      /\ past'.acknowledged = past.acknowledged /\ past'.provisional = past.provisional
      /\ past'.revived = past.revived \/ (~past'.revived /\ UpNow)
      /\ past'.astray = past.astray
  BY <1>a, StartedLemma DEF DeploymentInv, TypeOK, PastRecord
<1> USE <1>a, <1>b DEF UpNow
<1>1. TypeOK'
  BY <1>0 DEF DeploymentInv, TypeOK, Commands, Label, PastRecord
<1> USE <1>0 DEF Commands
<1>2. FactsAreKept'
  BY DEF DeploymentInv, FactsAreKept
<1>3. CommandInv'
  BY DEF DeploymentInv, CommandInv
<1>4. SnapshotInv'
  BY DEF SnapshotInv, Restorable
<1>5. RunsInv'
  BY DEF DeploymentInv, CommandInv, RunsInv, Reversing, Runs
<1>6. OpenInv'
  BY DEF DeploymentInv, OpenInv, Last, SameSchema, RunsInv, Reversing
<1>7. QED BY <1>1, <1>2, <1>3, <1>4, <1>5, <1>6 DEF DeploymentInv

LEMMA ReprobeStep == ASSUME DeploymentInv, Reprobe PROVE DeploymentInv'
<1> USE DEF At, Goto, Receipt, Activating, Migrating, disk, Opens, Reprobe
<1>0. command \in Commands /\ command # NoCommand /\ command.receipt \in DOMAIN receipts
  BY DEF DeploymentInv, TypeOK, NoCommand, Commands
<1>1. TypeOK'
  BY <1>0 DEF DeploymentInv, TypeOK, Commands, Label
<1> USE <1>0 DEF Commands
<1>2. FactsAreKept'
  BY DEF DeploymentInv, FactsAreKept
<1>3. CommandInv'
  BY DEF DeploymentInv, CommandInv
<1>4. SnapshotInv'
  BY DEF SnapshotInv, Restorable
<1>5. RunsInv'
  BY DEF DeploymentInv, RunsInv, Reversing, Runs
<1>6. OpenInv'
  BY DEF DeploymentInv, OpenInv, Last, SameSchema
<1>7. QED BY <1>1, <1>2, <1>3, <1>4, <1>5, <1>6 DEF DeploymentInv

LEMMA RolledBackStep == ASSUME DeploymentInv, RolledBack PROVE DeploymentInv'
<1> USE DEF At, Goto, Receipt, Activating, Migrating, IsActive, Opens, RolledBack
<1>0. command \in Commands /\ command # NoCommand /\ command.receipt \in DOMAIN receipts
  BY DEF DeploymentInv, TypeOK, NoCommand, Commands
<1>a. receipts' \in Seq(ReceiptRecord) /\ SameReceipts
      /\ \A i \in DOMAIN receipts : receipts'[i].snapshot = receipts[i].snapshot
  BY <1>0, ResultIsRecorded DEF TypeOK, DeploymentInv, Result
<1> USE <1>a
<1>1. TypeOK'
  BY <1>0 DEF DeploymentInv, TypeOK, Commands, Label, SameReceipts
<1> USE <1>0 DEF Commands
<1>2. FactsAreKept'
  BY DEF DeploymentInv, FactsAreKept
<1>3. CommandInv'
  BY DEF DeploymentInv, CommandInv, SameReceipts, Static
<1>4. SnapshotInv'
  BY DEF SnapshotInv, Restorable
<1>5. RunsInv'
  BY DEF RunsInv, Reversing
<1>6. OpenInv'
  BY DEF DeploymentInv, OpenInv, Last, SameSchema, SameReceipts, Static, NoCommand, RunsInv, Reversing
<1>7. QED BY <1>1, <1>2, <1>3, <1>4, <1>5, <1>6 DEF DeploymentInv

LEMMA RecordEventStep == ASSUME DeploymentInv, RecordEvent PROVE DeploymentInv'
<1> USE DEF At, Activating, Migrating, IsActive, Opens, Accept, RecordEvent
<1>0. command \in Commands /\ command # NoCommand /\ command.receipt \in DOMAIN receipts
  BY DEF DeploymentInv, TypeOK, NoCommand, Commands
<1>a. receipts' \in Seq(ReceiptRecord) /\ SameReceipts
      /\ \A i \in DOMAIN receipts : receipts'[i].snapshot = receipts[i].snapshot
  BY <1>0, RollbackIsRecorded DEF TypeOK, DeploymentInv, Recovery
<1>b. Len(receipts) \in DOMAIN receipts
  BY <1>0
<1>c. /\ receipts # <<>> /\ receipts' # <<>> /\ Len(receipts') = Len(receipts)
      /\ Last'.candidate = Last.candidate /\ Last'.previous = Last.previous
      /\ Last'.migration = Last.migration
  BY <1>0, <1>a, <1>b DEF Last, SameReceipts, Static
<1> USE <1>a, <1>b, <1>c
<1>1. TypeOK'
  BY <1>0 DEF DeploymentInv, TypeOK
<1> USE <1>0 DEF Commands
<1>2. FactsAreKept'
  BY DEF DeploymentInv, FactsAreKept
<1>3. CommandInv'
  BY DEF CommandInv, NoCommand
<1>4. SnapshotInv'
  BY DEF SnapshotInv, NoCommand
<1>5. RunsInv'
  BY DEF RunsInv, NoCommand
<1>6. OpenInv'
  BY DEF DeploymentInv, OpenInv, SameSchema, NoCommand
<1>7. QED BY <1>1, <1>2, <1>3, <1>4, <1>5, <1>6 DEF DeploymentInv

LEMMA UndoFailsStep == ASSUME DeploymentInv, UndoFails PROVE DeploymentInv'
<1> USE DEF At, Goto, Receipt, Activating, Migrating, disk, IsActive, Opens
<1>c. /\ command' = [command EXCEPT !.pc = "failed"]
      /\ command.pc \in {"check", "restore", "putback", "startback", "restartback",
                         "reprobe", "answer"}
  BY DEF UndoFails
<1>0. command \in Commands /\ command # NoCommand /\ command.receipt \in DOMAIN receipts
  BY <1>c DEF DeploymentInv, TypeOK, NoCommand, Commands
<1>a. /\ \/ UNCHANGED <<journal, service>>
         \/ command.pc \in {"startback", "restartback"} /\ WaitingNow
      /\ UNCHANGED disk
  BY FailsLemma DEF UndoFails, DeploymentInv
<1>b. /\ past' \in PastRecord
      /\ past'.acknowledged = past.acknowledged /\ past'.provisional = past.provisional
      /\ past'.revived = past.revived /\ past'.astray = past.astray
  <2>1. CASE past' = past
    BY <2>1 DEF DeploymentInv, TypeOK, PastRecord
  <2>2. CASE Fault
    BY <2>2, FaultLemma DEF DeploymentInv
  <2>3. QED BY <2>1, <2>2 DEF UndoFails
<1> USE <1>a, <1>b, <1>c DEF WaitingNow
<1>1. TypeOK'
  BY <1>0 DEF DeploymentInv, TypeOK, PastRecord, Commands, Label
<1> USE <1>0 DEF Commands
<1>2. FactsAreKept'
  BY DEF DeploymentInv, FactsAreKept
<1>3. CommandInv'
  BY DEF DeploymentInv, CommandInv
<1>4. SnapshotInv'
  BY DEF SnapshotInv, Restorable
<1>5. RunsInv'
  BY DEF RunsInv, Reversing
<1>6. OpenInv'
  BY DEF DeploymentInv, OpenInv, Last, SameSchema
<1>7. QED BY <1>1, <1>2, <1>3, <1>4, <1>5, <1>6 DEF DeploymentInv

LEMMA FailedStep == ASSUME DeploymentInv, Failed PROVE DeploymentInv'
<1> USE DEF At, Activating, Migrating, IsActive, Opens, Accept, Failed
<1>0. command \in Commands /\ command # NoCommand /\ command.receipt \in DOMAIN receipts
  BY DEF DeploymentInv, TypeOK, NoCommand, Commands
<1>a. receipts' \in Seq(ReceiptRecord) /\ SameReceipts
      /\ \A i \in DOMAIN receipts : receipts'[i].snapshot = receipts[i].snapshot
  BY <1>0, ResultIsRecorded, RollbackIsRecorded DEF TypeOK, DeploymentInv, Result, Recovery
<1>b. Len(receipts) \in DOMAIN receipts
  BY <1>0
<1>c. /\ receipts # <<>> /\ receipts' # <<>> /\ Len(receipts') = Len(receipts)
      /\ Last'.candidate = Last.candidate /\ Last'.previous = Last.previous
      /\ Last'.migration = Last.migration
  BY <1>0, <1>a, <1>b DEF Last, SameReceipts, Static
<1> USE <1>a, <1>b, <1>c
<1>1. TypeOK'
  BY <1>0 DEF DeploymentInv, TypeOK
<1> USE <1>0 DEF Commands
<1>2. FactsAreKept'
  BY DEF DeploymentInv, FactsAreKept
<1>3. CommandInv'
  BY DEF CommandInv, NoCommand
<1>4. SnapshotInv'
  BY DEF SnapshotInv, NoCommand
<1>5. RunsInv'
  BY DEF RunsInv, NoCommand
<1>6. OpenInv'
  BY DEF DeploymentInv, OpenInv, SameSchema, NoCommand
<1>7. QED BY <1>1, <1>2, <1>3, <1>4, <1>5, <1>6 DEF DeploymentInv

LEMMA DieStep == ASSUME DeploymentInv, Die PROVE DeploymentInv'
<1> USE DEF Activating, Migrating, disk, IsActive, Opens
<1>0. command \in Commands /\ command # NoCommand /\ command.receipt \in DOMAIN receipts
  BY DEF DeploymentInv, TypeOK, Commands, Die
<1>a. command' = NoCommand /\ UNCHANGED <<journal, service, disk>>
  BY DEF Die
<1>b. /\ past' \in PastRecord
      /\ past'.acknowledged = past.acknowledged \cup journal.facts
      /\ past'.provisional = past.provisional
      /\ past'.revived = past.revived /\ past'.astray = past.astray
  <2>1. past \in PastRecord /\ journal.facts \subseteq Fact
    BY DEF DeploymentInv, TypeOK, PastRecord
  <2>2. past.faults + 1 \in Nat /\ past.acknowledged \cup journal.facts \in SUBSET Fact
    BY <2>1 DEF PastRecord
  <2>3. past' = [past EXCEPT !.faults = past.faults + 1,
                             !.acknowledged = past.acknowledged \cup journal.facts]
    BY DEF Die
  <2>4. QED BY <2>1, <2>2, <2>3 DEF PastRecord
<1>c. NoCommand.kind = "none" /\ NoCommand.pc = "idle"
  BY DEF NoCommand
<1> USE <1>a, <1>b, <1>c
<1>1. TypeOK'
  BY <1>0 DEF DeploymentInv, TypeOK, PastRecord
<1> USE <1>0 DEF Commands
<1>2. FactsAreKept'
  BY DEF DeploymentInv, FactsAreKept
<1>3. CommandInv'
  BY DEF CommandInv
<1>4. SnapshotInv'
  BY DEF SnapshotInv
<1>5. RunsInv'
  BY DEF RunsInv
<1>6. OpenInv'
  BY DEF DeploymentInv, OpenInv, Last, SameSchema
<1>7. QED BY <1>1, <1>2, <1>3, <1>4, <1>5, <1>6 DEF DeploymentInv

-----------------------------------------------------------------------------
\* The three facts from which the invariant follows.  The first release was installed by
\* hand, and runs.
LEMMA InitLemma == Init => DeploymentInv
<1> SUFFICES ASSUME Init PROVE DeploymentInv
  OBVIOUS
<1>1. /\ journal = [schema |-> Schema[First], facts |-> {}] /\ Schema[First] \in Nat
      /\ service = [state |-> "up", release |-> First]
      /\ releases = {First} /\ candidates = [r \in Release |-> 0]
      /\ current = First /\ receipts = <<>> /\ command = NoCommand
      /\ past = [builds |-> 0, faults |-> 0, acknowledged |-> {}, provisional |-> {},
                 revived |-> FALSE, astray |-> FALSE]
  BY DEF Init
<1>2. command.kind = "none" /\ command.pc = "idle"
  BY <1>1 DEF NoCommand
<1>3. TypeOK
  BY <1>1 DEF TypeOK
<1>4. FactsAreKept
  BY <1>1 DEF FactsAreKept
<1>5. CommandInv /\ SnapshotInv /\ RunsInv
  BY <1>2 DEF CommandInv, SnapshotInv, RunsInv, Activating, Migrating, At, Restorable
<1>6. OpenInv
  BY <1>1, <1>2 DEF OpenInv, Opens, IsActive, Activating, Migrating
<1>7. QED BY <1>3, <1>4, <1>5, <1>6 DEF DeploymentInv

LEMMA StutterStep == ASSUME DeploymentInv, UNCHANGED vars PROVE DeploymentInv'
<1>1. TypeOK' /\ FactsAreKept'
  BY DEF DeploymentInv, TypeOK, FactsAreKept, vars, Commands
<1>2. CommandInv' /\ SnapshotInv'
  BY DEF DeploymentInv, CommandInv, SnapshotInv, vars, Activating, Migrating, At, Receipt, IsActive
<1>3. RunsInv'
  BY DEF DeploymentInv, RunsInv, vars, Activating, Migrating, Receipt, IsActive, Runs
<1>4. OpenInv'
  BY DEF DeploymentInv, OpenInv, vars, Opens, Activating, Migrating, At, Receipt, IsActive,
         Last, SameSchema
<1>5. QED BY <1>1, <1>2, <1>3, <1>4 DEF DeploymentInv

LEMMA NextLemma == DeploymentInv /\ [Next]_vars => DeploymentInv'
<1> SUFFICES ASSUME DeploymentInv, [Next]_vars PROVE DeploymentInv'
  OBVIOUS
<1>1. CASE Begin
  BY <1>1, PrepareStep, ApplyStep, RollbackStep DEF Begin
<1>2. CASE Forward
  BY <1>2, CopyReleaseStep, StopServiceStep, SnapshotStep, SwitchCurrentStep, ActivateStep,
     ProbeStep DEF Forward
<1>3. CASE Backward
  BY <1>3, StepFailsStep, StopCandidateStep, RestoreJournalStep, PutBackStep, ReactivateStep,
     ReprobeStep, RolledBackStep, UndoFailsStep DEF Backward
<1>4. CASE End
  BY <1>4, DeployedStep, RestoredStep, RecordEventStep, FailedStep DEF End
<1>5. CASE Die
  BY <1>5, DieStep
<1>6. CASE Service
  BY <1>6, CrashStep, AutoRestartStep, StartByHandStep, CommitStep DEF Service
<1>7. CASE UNCHANGED vars
  BY <1>7, StutterStep
<1>8. QED BY <1>1, <1>2, <1>3, <1>4, <1>5, <1>6, <1>7 DEF Next

\* The inductive invariant holds in every state of every behaviour.
THEOREM DeploymentIsInvariant == Spec => []DeploymentInv
<1>1. QED BY InitLemma, NextLemma, PTL DEF Spec

\* The journal, the service, the directories, the receipts and the command of apply and
\* rollback have their types.
THEOREM DeploymentTypes == Spec => []TypeOK
<1>1. DeploymentInv => TypeOK
  BY DEF DeploymentInv
<1>2. QED BY <1>1, DeploymentIsInvariant, PTL

\* What apply and rollback do, fail to do or leave undone takes no fact from the Journal
\* that a client was told is committed, save what was committed provisionally (Provisional).
THEOREM NoFactIsLost == Spec => []FactsAreKept
<1>1. DeploymentInv => FactsAreKept
  BY DEF DeploymentInv
<1>2. QED BY <1>1, DeploymentIsInvariant, PTL

\* When rollback is used with the last receipt alone, the release that the link names can
\* open the Journal between any two steps of apply and rollback, with one exception: from
\* the moment systemd starts a candidate in the middle of its own rollback until the release
\* under the link next starts (past.revived), nothing is claimed, and LinkAlwaysOpens fails.
THEOREM TheLinkCanOpen == Spec => [](~AnyReceipt => CurrentCanOpen)
<1>1. DeploymentInv => (~AnyReceipt => CurrentCanOpen)
  BY DEF DeploymentInv, OpenInv, CurrentCanOpen
<1>2. QED BY <1>1, DeploymentIsInvariant, PTL

-----------------------------------------------------------------------------
\* The reports.

Truthful ==
  \A i \in DOMAIN receipts :
    /\ Reports(i, "result", "deployed") => Runs(receipts[i].candidate)
    /\ Reports(i, "result", "rolled_back") =>
         Runs(receipts[i].previous) \/ past.revived \/ past.astray
    /\ command.kind = "rollback" /\ receipts'[i].rollback # receipts[i].rollback
       /\ receipts'[i].rollback.status = "restored_previous" => Runs(receipts[i].previous)

LEMMA NothingReported ==
  ASSUME \A i \in DOMAIN receipts : /\ receipts'[i].result = receipts[i].result
                                    /\ receipts'[i].rollback = receipts[i].rollback
  PROVE  Truthful
  BY DEF Truthful, Reports

LEMMA ApplyReports == ASSUME TypeOK, NEW r \in Release, Apply(r) PROVE Truthful
<1>1. PICK new : receipts' = Append(receipts, new)
  BY DEF Apply
<1>2. \A i \in DOMAIN receipts : receipts'[i] = receipts[i]
  BY <1>1 DEF TypeOK
<1>3. QED BY <1>2, NothingReported

LEMMA SnapshotReports == ASSUME TypeOK, Snapshot PROVE Truthful
<1>1. command \in Commands
  BY DEF Snapshot, At, TypeOK, NoCommand
<1>2. [taken |-> TRUE, facts |-> journal.facts] \in [taken : BOOLEAN, facts : SUBSET Fact]
  BY DEF TypeOK
<1>3. QED BY <1>1, <1>2, SnapshotIsRecorded, NothingReported DEF TypeOK, Snapshot

LEMMA ResultReports ==
  ASSUME DeploymentInv, Deployed \/ RolledBack
  PROVE  Truthful
<1>1. /\ command \in Commands /\ command.receipt \in DOMAIN receipts
      /\ command.pc \in {"result", "answer"}
  BY DEF DeploymentInv, TypeOK, NoCommand, Commands, Deployed, RolledBack, At
<1>2. Activating
  BY <1>1 DEF DeploymentInv, CommandInv, Deployed, RolledBack, At, Activating, Commands
<1>3. Receipt.candidate = command.target /\ Receipt.previous = command.origin
  BY <1>2 DEF DeploymentInv, CommandInv
<1>4. PICK v \in {"deployed", "rolled_back"} :
        /\ Record("result", v)
        /\ v = "deployed" => Runs(Receipt.candidate)
        /\ v = "rolled_back" => Runs(Receipt.previous) \/ past.revived \/ past.astray
  <2>1. CASE Deployed
    <3>1. Runs(command.target)
      BY <2>1 DEF Deployed, At, DeploymentInv, RunsInv
    <3>2. Record("result", "deployed")
      BY <2>1 DEF Deployed
    <3>3. QED BY <1>3, <3>1, <3>2
  <2>2. CASE RolledBack
    <3>1. current = command.origin /\ command.pc = "answer"
      BY <1>3, <2>2 DEF RolledBack, AsBefore, At
    <3>2. Runs(command.origin) \/ past.revived \/ past.astray
      BY <1>2, <3>1 DEF DeploymentInv, RunsInv
    <3>3. Record("result", "rolled_back")
      BY <2>2 DEF RolledBack
    <3>4. QED BY <1>3, <3>2, <3>3
  <2>3. QED BY <2>1, <2>2
<1>5. /\ receipts'[command.receipt].result = v
      /\ \A i \in DOMAIN receipts : receipts'[i].rollback = receipts[i].rollback
      /\ \A i \in DOMAIN receipts \ {command.receipt} : receipts'[i] = receipts[i]
  BY <1>1, <1>4, ResultIsRecorded DEF TypeOK, DeploymentInv, Result
<1>6. QED BY <1>4, <1>5 DEF Truthful, Reports, Receipt

LEMMA RollbackReports ==
  ASSUME DeploymentInv, Restored \/ RecordEvent
  PROVE  Truthful
<1>1. /\ command \in Commands /\ command.receipt \in DOMAIN receipts
      /\ command.pc \in {"result", "event"}
  BY DEF DeploymentInv, TypeOK, NoCommand, Commands, Restored, RecordEvent, At
<1>2. command.kind = "rollback" => Runs(receipts[command.receipt].previous)
  <2>1. SUFFICES ASSUME command.kind = "rollback" PROVE Runs(Receipt.previous)
    BY DEF Receipt
  <2>2. Receipt.previous = command.target /\ command.pc = "result"
    BY <1>1, <2>1 DEF DeploymentInv, CommandInv
  <2>3. QED BY <2>2 DEF DeploymentInv, RunsInv
<1>3. PICK v \in Recovery : Record("rollback", v)
  BY <1>1 DEF Restored, RecordEvent, Recovery, Commands
<1>4. /\ \A i \in DOMAIN receipts : receipts'[i].result = receipts[i].result
      /\ \A i \in DOMAIN receipts \ {command.receipt} : receipts'[i] = receipts[i]
  BY <1>1, <1>3, RollbackIsRecorded DEF TypeOK, DeploymentInv
<1>5. QED BY <1>2, <1>4 DEF Truthful, Reports

LEMMA FailedReports == ASSUME DeploymentInv, Failed PROVE Truthful
<1>1. command \in Commands /\ command.receipt \in DOMAIN receipts
  BY DEF DeploymentInv, TypeOK, NoCommand, Commands, Failed, At
<1>2. CASE Activating
  <2>1. Record("result", "failed")
    BY <1>2 DEF Failed
  <2>2. /\ receipts'[command.receipt].result = "failed"
        /\ \A i \in DOMAIN receipts : receipts'[i].rollback = receipts[i].rollback
        /\ \A i \in DOMAIN receipts \ {command.receipt} : receipts'[i] = receipts[i]
    BY <1>1, <2>1, ResultIsRecorded DEF TypeOK, DeploymentInv, Result
  <2>3. QED BY <2>2 DEF Truthful, Reports
<1>3. CASE ~Activating
  <2> DEFINE v == [status |-> "rollback_failed", displaced |-> NoRelease, automatic |-> FALSE]
  <2>1. v \in Recovery /\ Record("rollback", v)
    BY <1>3 DEF Failed, Recovery
  <2>2. /\ receipts'[command.receipt].rollback = v
        /\ \A i \in DOMAIN receipts : receipts'[i].result = receipts[i].result
        /\ \A i \in DOMAIN receipts \ {command.receipt} : receipts'[i] = receipts[i]
    BY <1>1, <2>1, RollbackIsRecorded DEF TypeOK, DeploymentInv
  <2>3. QED BY <2>2 DEF Truthful, Reports
<1>4. QED BY <1>2, <1>3

LEMMA ReportLemma == DeploymentInv /\ [Next]_vars => [Truthful]_vars
<1> SUFFICES ASSUME DeploymentInv, Next PROVE Truthful
  OBVIOUS
<1>0. UNCHANGED receipts => Truthful
  BY NothingReported
<1>t. TypeOK
  BY DEF DeploymentInv
<1>1. CASE Begin
  <2>1. CASE \E r \in Release : Apply(r)
    BY <1>t, <2>1, ApplyReports
  <2>2. CASE \E r \in Release : Prepare(r)
    BY <1>0, <2>2 DEF Prepare
  <2>3. CASE \E i \in DOMAIN receipts : Rollback(i)
    BY <1>0, <2>3 DEF Rollback, disk
  <2>4. QED BY <1>1, <2>1, <2>2, <2>3 DEF Begin
<1>2. CASE Forward
  <2>1. CASE Snapshot
    BY <1>t, <2>1, SnapshotReports
  <2>2. CASE CopyRelease \/ StopService \/ SwitchCurrent
    BY <1>0, <2>2 DEF CopyRelease, StopService, SwitchCurrent, disk
  <2>3. CASE Activate \/ Probe
    BY <1>0, <2>3 DEF Activate, Start, Restart, Probe, disk
  <2>4. QED BY <1>2, <2>1, <2>2, <2>3 DEF Forward
<1>3. CASE Backward
  <2>1. CASE RolledBack
    BY <2>1, ResultReports
  <2>2. CASE StepFails \/ StopCandidate \/ RestoreJournal \/ PutBack
    BY <1>0, <2>2 DEF StepFails, StopCandidate, RestoreJournal, PutBack, disk
  <2>3. CASE Reactivate \/ Reprobe \/ UndoFails
    BY <1>0, <2>3 DEF Reactivate, Start, Restart, Reprobe, UndoFails, disk
  <2>4. QED BY <1>3, <2>1, <2>2, <2>3 DEF Backward
<1>4. CASE End
  BY <1>4, ResultReports, RollbackReports, FailedReports DEF End
<1>5. CASE Die
  BY <1>0, <1>5 DEF Die, disk
<1>6. CASE Service
  BY <1>0, <1>6 DEF Service, Crash, AutoRestart, StartByHand, Commit, disk
<1>7. QED BY <1>1, <1>2, <1>3, <1>4, <1>5, <1>6 DEF Next

\* The release that apply and rollback report to run is the one that runs, or none does,
\* save an automatic rollback that is reported after such a start (past.revived), or that
\* undoes an activation which began while another release than the link's was running.
THEOREM ReportsAreAccurate == Spec => ReportsAreTrue
<1>1. [Truthful]_vars <=> [\A i \in DOMAIN receipts :
       /\ Reports(i, "result", "deployed") => Runs(receipts[i].candidate)
       /\ Reports(i, "result", "rolled_back") =>
            Runs(receipts[i].previous) \/ past.revived \/ past.astray
       /\ command.kind = "rollback" /\ receipts'[i].rollback # receipts[i].rollback
          /\ receipts'[i].rollback.status = "restored_previous" => Runs(receipts[i].previous)]_vars
  BY DEF Truthful
<1>2. QED BY <1>1, ReportLemma, DeploymentIsInvariant, PTL DEF Spec, ReportsAreTrue

-----------------------------------------------------------------------------
(***************************************************************************)
(* Collections, the commands of ReleaseLifecycle.  First the types, and    *)
(* the effect of each action as far as the lifecycle can tell; then which  *)
(* event is last; then what holds of the link, of the plans, and of what   *)
(* the last event promised; the theorems come at the end.                  *)
(***************************************************************************)

HIDE DeploymentAssumption

Status == {"planned", "retired", "pruned"}
Object == [kind : {"release", "candidate"}, id : Release, build : Nat]
Absence == Release \cup {NoRelease}
Collects ==
  [kind : {"collect"}, pc : {"retire", "erase"}, receipt : {0}, target : {NoRelease},
   origin : {NoRelease}, switched : {FALSE}]
PlanRecord ==
  [current : Release, event : Nat \X {1, 2}, delete : SUBSET Object,
   inventory : Seq(ReceiptRecord) \X (SUBSET Release) \X [Release -> Nat]]
CollectionRecord == [entry : Nat, todo : SUBSET Object, clean : BOOLEAN]
PlanEntry == [plan : PlanRecord, status : Status]
PromiseRecord ==
  [release : Release, releases : SUBSET Absence, candidate : Absence, build : Nat,
   moved : BOOLEAN]

JournalRecord == [schema : Nat, facts : SUBSET Fact]
Serves == journal \in JournalRecord /\ (IsActive => service.release \in Release)
Accounts == "builds" \in DOMAIN past /\ past.builds \in Nat /\ Serves
DiskTypes ==
  /\ releases \subseteq Release /\ current \in Release
  /\ candidates \in [Release -> Nat]
  /\ receipts \in Seq(ReceiptRecord)
CommandTypes == command \in Commands \cup {NoCommand} \cup Collects
LifecycleTypes ==
  /\ DiskTypes /\ CommandTypes /\ Accounts
  /\ plans \in Seq(PlanEntry)
  /\ collection \in CollectionRecord
  /\ memory \in [promise : PromiseRecord, installed : SUBSET Release]

\* What the steps of a command do, as far as the lifecycle can tell: nothing, ...
Rests == UNCHANGED disk /\ command' \in {command, NoCommand} /\ Accounts'
\* ... or they move the link, at most, to one of the two releases of the command.
Moves ==
  /\ command \in Commands /\ command' \in Commands /\ Accounts'
  /\ UNCHANGED <<releases, candidates, receipts>>
  /\ ~At("copy") /\ command'.pc \notin {"copy", "event"}
  /\ command'.pc = "answer" => Activating
  /\ command'.kind = command.kind /\ command'.receipt = command.receipt
  /\ command'.target = command.target /\ command'.origin = command.origin
  /\ current' \in {current, command.origin, command.target}

LEMMA FaultAccounts == ASSUME Accounts, Fault, Serves' PROVE Accounts'
  BY DEF Accounts, Fault

LEMMA StartAccounts ==
  ASSUME Accounts, NEW r \in Release,
         Run(r) \/ FailsToRun(r) \/ UNCHANGED <<journal, service>>
  PROVE  Serves'
<1>1. journal \in JournalRecord /\ Schema[r] \in Nat /\ (IsActive => service.release \in Release)
  BY DeploymentAssumption DEF Accounts, Serves
<1>a. IsActive' => service'.release \in Release
  BY <1>1 DEF Run, FailsToRun, IsActive
<1>2. ASSUME NEW v \in Nat, journal' = [journal EXCEPT !.schema = v]
      PROVE  journal' \in JournalRecord
  BY <1>1, <1>2 DEF JournalRecord
<1>3. UNCHANGED journal => journal' \in JournalRecord
  BY <1>1
<1>4. CASE Run(r)
  BY <1>1, <1>2, <1>a, <1>4 DEF Run, Serves
<1>5. CASE FailsToRun(r)
  <2>1. CASE Opens(r)
    <3>1. PICK v \in journal.schema .. Schema[r] : journal' = [journal EXCEPT !.schema = v]
      BY <1>5, <2>1 DEF FailsToRun
    <3>2. v \in Nat
      BY <1>1, <3>1 DEF JournalRecord
    <3>3. QED BY <1>2, <1>a, <3>1, <3>2 DEF Serves
  <2>2. CASE ~Opens(r)
    BY <1>3, <1>5, <1>a, <2>2 DEF FailsToRun, Serves
  <2>3. QED BY <2>1, <2>2
<1>6. QED BY <1>3, <1>4, <1>5, <1>a DEF Serves

LEMMA PastAccounts ==
  ASSUME Accounts, Serves', Fault \/ Started \/ UNCHANGED past
  PROVE  Accounts'
  BY DEF Accounts, Fault, Started

LEMMA AtACommand ==
  ASSUME CommandTypes, command.pc \in Label
  PROVE  command \in Commands
<1>1. command \notin Collects
  BY DEF Collects, Label
<1>2. command # NoCommand
  BY DEF NoCommand, Label
<1>3. QED BY <1>1, <1>2 DEF CommandTypes

LEMMA GotoMoves ==
  ASSUME DiskTypes, CommandTypes, Accounts', command.pc \in Label \ {"copy"},
         UNCHANGED <<releases, candidates, receipts>>,
         NEW l \in Label \ {"copy", "event"}, NEW b \in BOOLEAN, l = "answer" => Activating,
         command' = [command EXCEPT !.pc = l, !.switched = b],
         current' \in {current, command.origin, command.target}
  PROVE  Moves
<1>1. command \in Commands
  BY AtACommand
<1>2. command' \in Commands
  BY <1>1 DEF Commands
<1>3. /\ command'.kind = command.kind /\ command'.receipt = command.receipt
      /\ command'.target = command.target /\ command'.origin = command.origin
      /\ command'.pc = l
  BY <1>1 DEF Commands
<1>4. QED BY <1>1, <1>2, <1>3 DEF Moves, At

LEMMA GotoStays ==
  ASSUME DiskTypes, CommandTypes, Accounts', command.pc \in Label \ {"copy"},
         UNCHANGED <<releases, candidates, receipts>>,
         NEW l \in Label \ {"copy", "event"}, Goto(l), l = "answer" => Activating,
         current' \in {current, command.origin, command.target}
  PROVE  Moves
<1>1. command \in Commands
  BY AtACommand
<1>2. command' = [command EXCEPT !.pc = l, !.switched = command.switched]
  BY <1>1 DEF Goto, Commands
<1>3. command.switched \in BOOLEAN
  BY <1>1 DEF Commands
<1> DEFINE b == command.switched
<1>4. b \in BOOLEAN /\ command' = [command EXCEPT !.pc = l, !.switched = b]
  BY <1>2, <1>3
<1> HIDE DEF b
<1>5. QED BY <1>4, GotoMoves

LEMMA ServiceRests == ASSUME LifecycleTypes, Service PROVE Rests
<1>1. Accounts /\ current \in Release
  BY DEF LifecycleTypes, DiskTypes
<1>2. CASE Crash
  <2>1. Serves'
    BY <1>1, <1>2 DEF Crash, Accounts, Serves, IsActive
  <2>2. QED BY <1>1, <1>2, <2>1, FaultAccounts DEF Crash, Rests
<1>3. CASE AutoRestart
  <2>1. Serves'
    BY <1>1, <1>3, StartAccounts DEF AutoRestart
  <2>2. "builds" \in DOMAIN past' /\ past'.builds = past.builds
    BY <1>1, <1>3 DEF AutoRestart, Accounts
  <2>3. QED BY <1>1, <1>3, <2>1, <2>2 DEF AutoRestart, Rests, Accounts
<1>4. CASE StartByHand
  <2>1. Serves'
    BY <1>1, <1>4, StartAccounts DEF StartByHand
  <2>2. "builds" \in DOMAIN past' /\ past'.builds = past.builds
    BY <1>1, <1>4 DEF StartByHand, Started, Accounts
  <2>3. QED BY <1>1, <1>4, <2>1, <2>2 DEF StartByHand, Rests, Accounts
<1>5. CASE \E f \in Fact : Commit(f)
  <2>1. PICK f \in Fact : Commit(f)
    BY <1>5
  <2>2. journal' \in JournalRecord
    <3>1. journal' = [schema |-> Schema[service.release], facts |-> journal.facts \cup {f}]
      BY <2>1 DEF Commit
    <3>2. Schema[service.release] \in Nat /\ journal \in JournalRecord
      BY <1>1, <2>1, DeploymentAssumption DEF Commit, Accounts, Serves
    <3>3. QED BY <3>1, <3>2 DEF JournalRecord
  <2>3. Serves'
    BY <1>1, <2>1, <2>2 DEF Commit, Accounts, Serves, IsActive
  <2>4. QED BY <1>1, <2>1, <2>3 DEF Commit, Rests, Accounts
<1>6. QED BY <1>2, <1>3, <1>4, <1>5 DEF Service

LEMMA DieRests == ASSUME LifecycleTypes, Die PROVE Rests
  BY DEF LifecycleTypes, Die, Rests, Accounts, Serves, IsActive

LEMMA ForwardMoves ==
  ASSUME LifecycleTypes, StopService \/ SwitchCurrent \/ Activate \/ Probe
  PROVE  Moves
<1> USE DEF LifecycleTypes, Label, At, disk
<1>1. CASE StopService
  <2>1. Accounts'
    BY <1>1 DEF StopService, Accounts, Serves, IsActive
  <2>2. QED BY <1>1, <2>1, GotoStays DEF StopService
<1>2. CASE SwitchCurrent
  <2>0. Accounts'
    BY <1>2 DEF SwitchCurrent, Accounts, Serves, IsActive
  <2>1. PICK l \in {"start", "restart"} : command' = [command EXCEPT !.pc = l, !.switched = TRUE]
    BY <1>2 DEF SwitchCurrent
  <2>2. /\ command.pc \in Label \ {"copy"} /\ l \in Label \ {"copy", "event"}
        /\ UNCHANGED <<releases, candidates, receipts>> /\ current' = command.target
    BY <1>2 DEF SwitchCurrent
  <2> HIDE DEF Label
  <2>3. QED BY <2>0, <2>1, <2>2, GotoMoves
<1>3. CASE Activate
  <2>1. Accounts'
    <3>1. current \in Release
      BY DEF DiskTypes
    <3>2. Serves' /\ (Started \/ UNCHANGED past)
      BY <1>3, <3>1, StartAccounts DEF Activate, Start, Restart
    <3>3. QED BY <3>2, PastAccounts
  <2>2. QED BY <1>3, <2>1, GotoStays DEF Activate, Start, Restart
<1>4. CASE Probe
  BY <1>4, GotoStays DEF Probe, Accounts, Serves, IsActive
<1>5. QED BY <1>1, <1>2, <1>3, <1>4

LEMMA BackwardMoves ==
  ASSUME LifecycleTypes,
         \/ StepFails \/ StopCandidate \/ RestoreJournal \/ PutBack
         \/ Reactivate \/ Reprobe \/ UndoFails
  PROVE  Moves
<1> USE DEF LifecycleTypes, Label, At, disk
<1>1. CASE StepFails
  <2>1. Undo \in Label \ {"copy", "event", "answer"}
    BY DEF Undo
  <2>2. Accounts'
    <3>1. current \in Release
      BY DEF DiskTypes
    <3>2. Serves' /\ (Fault \/ UNCHANGED past)
      BY <1>1, <3>1, StartAccounts DEF StepFails
    <3>3. QED BY <3>2, PastAccounts
  <2>3. /\ command.pc \in {"stop", "snapshot", "switch", "start", "restart", "probe", "result"}
        /\ current' \in {current, command.target} /\ Goto(Undo)
        /\ UNCHANGED <<releases, candidates, receipts>>
    BY <1>1 DEF StepFails
  <2>4. QED BY <2>1, <2>2, <2>3, GotoStays
<1>2. CASE StopCandidate
  <2>1. Accounts'
    BY <1>2 DEF StopCandidate, Accounts, Serves, IsActive
  <2>2. QED BY <1>2, <2>1, GotoStays DEF StopCandidate
<1>3. CASE RestoreJournal
  <2>1. Receipt \in ReceiptRecord
    BY <1>3, AtACommand DEF RestoreJournal, Receipt, Commands, DiskTypes
  <2>2. Receipt.snapshot.facts \subseteq Fact /\ Receipt.snapshot.schema \in Nat
    BY <2>1 DEF ReceiptRecord
  <2>3. Serves'
    BY <1>3, <2>2 DEF RestoreJournal, Accounts, Serves, JournalRecord, IsActive
  <2>4. Accounts'
    BY <1>3, <2>3, PastAccounts DEF RestoreJournal
  <2>5. QED BY <1>3, <2>4, GotoStays DEF RestoreJournal
<1>4. CASE PutBack
  BY <1>4, GotoStays DEF PutBack, Accounts, Serves, IsActive
<1>5. CASE Reactivate
  <2>1. Accounts'
    <3>1. current \in Release
      BY DEF DiskTypes
    <3>2. Serves' /\ (Started \/ UNCHANGED past)
      BY <1>5, <3>1, StartAccounts DEF Reactivate, Start, Restart
    <3>3. QED BY <3>2, PastAccounts
  <2>2. QED BY <1>5, <2>1, GotoStays DEF Reactivate, Start, Restart
<1>6. CASE Reprobe
  BY <1>6, GotoStays DEF Reprobe, Accounts, Serves, IsActive
<1>7. CASE UndoFails
  <2>1. Accounts'
    <3>1. current \in Release
      BY DEF DiskTypes
    <3>2. Serves' /\ (Fault \/ UNCHANGED past)
      BY <1>7, <3>1, StartAccounts DEF UndoFails
    <3>3. QED BY <3>2, PastAccounts
  <2>2. /\ command.pc \in {"check", "restore", "putback", "startback", "restartback",
                           "reprobe", "answer"}
        /\ Goto("failed") /\ UNCHANGED disk
    BY <1>7 DEF UndoFails
  <2>3. QED BY <2>1, <2>2, GotoStays
<1>8. QED BY <1>1, <1>2, <1>3, <1>4, <1>5, <1>6, <1>7

\* One field of the receipt of the command is written, and maybe the command ends.
Recording ==
  /\ command \in Commands /\ Accounts'
  /\ UNCHANGED <<releases, candidates, current>>
  /\ receipts' \in Seq(ReceiptRecord) /\ SameReceipts
Ending == Recording /\ command' = NoCommand
SameResults == \A i \in DOMAIN receipts : receipts'[i].result = receipts[i].result
SameRollbacks == \A i \in DOMAIN receipts : receipts'[i].rollback = receipts[i].rollback
OtherResults ==
  \A i \in DOMAIN receipts \ {command.receipt} : receipts'[i].result = receipts[i].result
OtherRollbacks ==
  \A i \in DOMAIN receipts \ {command.receipt} : receipts'[i].rollback = receipts[i].rollback
Outcome(result) ==
  /\ receipts'[command.receipt].result = result /\ OtherResults /\ SameRollbacks
Aftermath(rollback) ==
  /\ receipts'[command.receipt].rollback = rollback /\ OtherRollbacks /\ SameResults
Continues(label) ==
  /\ command' \in Commands /\ command'.pc = label
  /\ command'.kind = command.kind /\ command'.receipt = command.receipt
  /\ command'.target = command.target /\ command'.origin = command.origin

LEMMA GotoContinues ==
  ASSUME command \in Commands, NEW l \in Label, Goto(l), DOMAIN receipts' = DOMAIN receipts
  PROVE  Continues(l)
  BY DEF Continues, Goto, Commands

LEMMA AcceptAccounts == ASSUME Accounts, Accept, UNCHANGED <<journal, service>> PROVE Accounts'
  BY DEF Accounts, Accept, Serves, IsActive

LEMMA SnapshotRecords ==
  ASSUME LifecycleTypes, Snapshot
  PROVE  /\ Recording /\ SameResults /\ SameRollbacks
         /\ \E l \in Label \ {"copy", "event", "answer"} : Continues(l)
         /\ At("snapshot")
<1>1. command \in Commands
  BY AtACommand DEF LifecycleTypes, Snapshot, At, Label
<1>2. Record("snapshot", [taken |-> TRUE, schema |-> journal.schema, facts |-> journal.facts])
  BY DEF Snapshot
<1>3. receipts \in Seq(ReceiptRecord) /\ Accounts
  BY DEF LifecycleTypes, DiskTypes
<1>4. [taken |-> TRUE, schema |-> journal.schema, facts |-> journal.facts]
        \in [taken : BOOLEAN, schema : Nat, facts : SUBSET Fact]
  BY <1>3 DEF Accounts, Serves, JournalRecord
<1>5. /\ receipts' \in Seq(ReceiptRecord) /\ SameReceipts /\ SameResults /\ SameRollbacks
  BY <1>1, <1>2, <1>3, <1>4, SnapshotIsRecorded DEF SameResults, SameRollbacks
<1>6. \E l \in Label \ {"copy", "event", "answer"} : Continues(l)
  <2>1. PICK l \in Label \ {"copy", "event", "answer"} : Goto(l)
    BY DEF Snapshot, Undo, Label
  <2>2. QED BY <1>1, <1>5, <2>1, GotoContinues DEF SameReceipts
<1>7. Accounts'
  BY <1>3 DEF Snapshot, Accounts, Serves, IsActive
<1>8. QED BY <1>1, <1>5, <1>6, <1>7 DEF Snapshot, Recording

LEMMA RolledBackRecords ==
  ASSUME LifecycleTypes, RolledBack
  PROVE  Recording /\ Continues("event") /\ Outcome("rolled_back") /\ At("answer")
<1>1. command \in Commands
  BY AtACommand DEF LifecycleTypes, RolledBack, At, Label
<1>2. Record("result", "rolled_back")
  BY DEF RolledBack
<1>3. receipts \in Seq(ReceiptRecord) /\ Accounts
  BY DEF LifecycleTypes, DiskTypes
<1>4. receipts' \in Seq(ReceiptRecord) /\ SameReceipts /\ Outcome("rolled_back")
  BY <1>1, <1>2, <1>3, ResultIsRecorded DEF Outcome, OtherResults, SameRollbacks, Result
<1>5. Continues("event")
  BY <1>1, <1>4, GotoContinues DEF RolledBack, SameReceipts, Label
<1>6. Accounts'
  BY <1>3 DEF RolledBack, Accounts, Serves, IsActive
<1>7. QED BY <1>1, <1>4, <1>5, <1>6 DEF RolledBack, Recording

LEMMA DeployedRecords ==
  ASSUME LifecycleTypes, Deployed
  PROVE  Ending /\ Outcome("deployed") /\ At("result") /\ Activating /\ AsTargeted
<1>1. command \in Commands
  BY AtACommand DEF LifecycleTypes, Deployed, At, Label
<1>2. Record("result", "deployed")
  BY DEF Deployed
<1>3. receipts \in Seq(ReceiptRecord) /\ Accounts
  BY DEF LifecycleTypes, DiskTypes
<1>4. receipts' \in Seq(ReceiptRecord) /\ SameReceipts /\ Outcome("deployed")
  BY <1>1, <1>2, <1>3, ResultIsRecorded DEF Outcome, OtherResults, SameRollbacks, Result
<1>5. Accounts'
  BY <1>3, AcceptAccounts DEF Deployed
<1>6. QED BY <1>1, <1>4, <1>5 DEF Deployed, Recording, Ending

Moved == [status |-> "restored_previous", displaced |-> command.origin, automatic |-> FALSE]
Automatic == [status |-> "restored_previous", displaced |-> NoRelease, automatic |-> TRUE]
Unmoved == [status |-> "rollback_failed", displaced |-> NoRelease, automatic |-> FALSE]

LEMMA RestoredRecords ==
  ASSUME LifecycleTypes, Restored
  PROVE  Ending /\ Aftermath(Moved) /\ At("result") /\ ~Activating /\ AsTargeted
<1>1. command \in Commands
  BY AtACommand DEF LifecycleTypes, Restored, At, Label
<1>2. Record("rollback", Moved)
  BY DEF Restored, Moved
<1>3. receipts \in Seq(ReceiptRecord) /\ Accounts
  BY DEF LifecycleTypes, DiskTypes
<1>4. Moved \in Recovery
  BY <1>1 DEF Moved, Recovery, Commands
<1>5. receipts' \in Seq(ReceiptRecord) /\ SameReceipts /\ Aftermath(Moved)
  BY <1>1, <1>2, <1>3, <1>4, RollbackIsRecorded DEF Aftermath, OtherRollbacks, SameResults
<1>6. Accounts'
  BY <1>3, AcceptAccounts DEF Restored
<1>7. QED BY <1>1, <1>5, <1>6 DEF Restored, Recording, Ending

LEMMA RecordEventRecords ==
  ASSUME LifecycleTypes, RecordEvent
  PROVE  Ending /\ Aftermath(Automatic) /\ At("event")
<1>1. command \in Commands
  BY AtACommand DEF LifecycleTypes, RecordEvent, At, Label
<1>2. Record("rollback", Automatic)
  BY DEF RecordEvent, Automatic
<1>3. receipts \in Seq(ReceiptRecord) /\ Accounts
  BY DEF LifecycleTypes, DiskTypes
<1>4. Automatic \in Recovery
  BY DEF Automatic, Recovery
<1>5. receipts' \in Seq(ReceiptRecord) /\ SameReceipts /\ Aftermath(Automatic)
  BY <1>1, <1>2, <1>3, <1>4, RollbackIsRecorded DEF Aftermath, OtherRollbacks, SameResults
<1>6. Accounts'
  BY <1>3, AcceptAccounts DEF RecordEvent
<1>7. QED BY <1>1, <1>5, <1>6 DEF RecordEvent, Recording, Ending

LEMMA FailedRecords ==
  ASSUME LifecycleTypes, Failed
  PROVE  /\ Ending /\ At("failed")
         /\ IF Activating THEN Outcome("failed") ELSE Aftermath(Unmoved)
<1>1. command \in Commands
  BY AtACommand DEF LifecycleTypes, Failed, At, Label
<1>2. IF Activating THEN Record("result", "failed") ELSE Record("rollback", Unmoved)
  BY DEF Failed, Unmoved
<1>3. receipts \in Seq(ReceiptRecord) /\ Accounts
  BY DEF LifecycleTypes, DiskTypes
<1>4. Unmoved \in Recovery
  BY DEF Unmoved, Recovery
<1>5. Activating => Outcome("failed")
  BY <1>1, <1>2, <1>3, ResultIsRecorded DEF Outcome, OtherResults, SameRollbacks, Result
<1>6. ~Activating => Aftermath(Unmoved)
  BY <1>1, <1>2, <1>3, <1>4, RollbackIsRecorded
  DEF Aftermath, OtherRollbacks, SameResults
<1>7. receipts' \in Seq(ReceiptRecord) /\ SameReceipts
  BY <1>1, <1>2, <1>3, <1>4, ResultIsRecorded, RollbackIsRecorded DEF Result
<1>8. Accounts'
  BY <1>3, AcceptAccounts DEF Failed
<1>9. QED BY <1>1, <1>5, <1>6, <1>7, <1>8 DEF Failed, Recording, Ending

Appended(r) ==
  /\ command = NoCommand /\ command' \in Commands'
  /\ UNCHANGED <<releases, candidates, current>> /\ Accounts'
  /\ receipts' \in Seq(ReceiptRecord) /\ Len(receipts') = Len(receipts) + 1
  /\ \A i \in DOMAIN receipts : receipts'[i] = receipts[i]
  /\ LET new == receipts'[Len(receipts')] IN
       /\ new.candidate = r /\ new.previous = current
       /\ new.build = candidates[r] /\ candidates[r] # 0
       /\ new.result = "none" /\ new.rollback = NoRollback
  /\ command'.kind = "apply" /\ command'.pc = "copy" /\ command'.receipt = Len(receipts')
  /\ command'.target = r /\ command'.origin = current

LEMMA ApplyAppends ==
  ASSUME LifecycleTypes, NEW r \in Release, Apply(r)
  PROVE  Appended(r)
<1> DEFINE new == [candidate |-> r, build |-> candidates[r], previous |-> current,
        migration |-> Schema[r] > journal.schema, snapshot |-> NoSnapshot,
        result |-> "none", rollback |-> NoRollback]
<1>1. new \in ReceiptRecord
  BY DEF ReceiptRecord, LifecycleTypes, DiskTypes, NoSnapshot, NoRollback, Result
<1>2. /\ new.candidate = r /\ new.previous = current /\ new.build = candidates[r]
      /\ new.result = "none" /\ new.rollback = NoRollback
  OBVIOUS
<1>3. receipts' = Append(receipts, new)
  BY DEF Apply
<1> HIDE DEF new
<1>4. receipts \in Seq(ReceiptRecord)
  BY DEF LifecycleTypes, DiskTypes
<1>5. /\ receipts' \in Seq(ReceiptRecord) /\ Len(receipts') = Len(receipts) + 1
      /\ \A i \in DOMAIN receipts : receipts'[i] = receipts[i]
      /\ receipts'[Len(receipts')] = new /\ Len(receipts') \in DOMAIN receipts'
  BY <1>1, <1>3, <1>4
<1>6. command' = [kind |-> "apply", pc |-> "copy", receipt |-> Len(receipts'),
                 target |-> r, origin |-> current, switched |-> FALSE]
  BY <1>5 DEF Apply
<1>7. command' \in Commands'
  BY <1>5, <1>6 DEF Commands, Label, LifecycleTypes, DiskTypes
<1>8. /\ command'.kind = "apply" /\ command'.pc = "copy" /\ command'.receipt = Len(receipts')
      /\ command'.target = r /\ command'.origin = current
  BY <1>6
<1>9. Accounts'
  BY DEF LifecycleTypes, Accounts, Serves, IsActive, Apply
<1>10. QED BY <1>2, <1>5, <1>7, <1>8, <1>9 DEF Appended, Apply

Reverts(i) ==
  /\ command = NoCommand /\ command' \in Commands /\ UNCHANGED disk /\ Accounts'
  /\ AnyReceipt \/ i = Len(receipts)
  /\ receipts[i].previous \in releases
  /\ command'.kind = "rollback" /\ command'.pc = "switch" /\ command'.receipt = i
  /\ command'.target = receipts[i].previous /\ command'.origin = current

LEMMA RollbackReverts ==
  ASSUME LifecycleTypes, NEW i \in DOMAIN receipts, Rollback(i)
  PROVE  Reverts(i)
<1>1. receipts[i] \in ReceiptRecord
  BY DEF LifecycleTypes, DiskTypes
<1>2. receipts[i].previous \in Release
  BY <1>1 DEF ReceiptRecord
<1>3. command' = [kind |-> "rollback", pc |-> "switch", receipt |-> i,
                 target |-> receipts[i].previous, origin |-> current, switched |-> FALSE]
  BY DEF Rollback
<1>4. command' \in Commands
  BY <1>2, <1>3 DEF Commands, Label, LifecycleTypes, DiskTypes
<1>5. Accounts'
  BY DEF LifecycleTypes, Accounts, Serves, IsActive, Rollback
<1>6. QED BY <1>3, <1>4, <1>5 DEF Rollback, Reverts

Copies ==
  /\ command \in Commands /\ command' \in Commands /\ At("copy") /\ Accounts'
  /\ releases' = releases \cup {command.target} /\ UNCHANGED <<candidates, current, receipts>>
  /\ command'.kind = command.kind /\ command'.receipt = command.receipt
  /\ command'.target = command.target /\ command'.origin = command.origin
  /\ command'.pc \notin {"copy", "event", "answer"}

LEMMA CopyReleaseCopies == ASSUME LifecycleTypes, CopyRelease PROVE Copies
<1>1. command \in Commands
  BY AtACommand DEF LifecycleTypes, CopyRelease, At, Label
<1>2. PICK l \in {"stop", "switch"} : Goto(l)
  BY DEF CopyRelease
<1>3. Continues(l)
  BY <1>1, <1>2, GotoContinues DEF CopyRelease, Label
<1>4. command' \in Commands
  BY <1>3 DEF Continues
<1>5. Accounts'
  BY DEF LifecycleTypes, Accounts, Serves, IsActive, CopyRelease
<1>6. QED BY <1>1, <1>2, <1>3, <1>4, <1>5 DEF CopyRelease, Copies, Continues

LEMMA PrepareTypes ==
  ASSUME LifecycleTypes, NEW r \in Release, Prepare(r)
  PROVE  /\ candidates' \in [Release -> Nat] /\ Accounts'
         /\ candidates[r] = 0 /\ candidates' = [candidates EXCEPT ![r] = candidates'[r]]
<1>1. past.builds + 1 \in Nat
  BY DEF LifecycleTypes, Accounts
<1>2. candidates' \in [Release -> Nat]
  BY <1>1 DEF LifecycleTypes, DiskTypes, Prepare
<1>3. Accounts'
  BY <1>1 DEF LifecycleTypes, Accounts, Serves, IsActive, Prepare
<1>4. QED BY <1>2, <1>3 DEF LifecycleTypes, DiskTypes, Prepare

BaseTypes == DiskTypes /\ CommandTypes /\ Accounts

LEMMA RestsTypes == ASSUME LifecycleTypes, Rests PROVE BaseTypes'
  BY DEF LifecycleTypes, DiskTypes, CommandTypes, Rests, BaseTypes, disk, Commands

LEMMA MovesTypes == ASSUME LifecycleTypes, Moves PROVE BaseTypes'
<1>1. command.origin \in Release /\ command.target \in Release
  BY DEF Moves, Commands
<1>2. Commands' = Commands
  BY DEF Moves, Commands
<1>3. QED BY <1>1, <1>2 DEF LifecycleTypes, DiskTypes, CommandTypes, Moves, BaseTypes

LEMMA BeginTypes == ASSUME LifecycleTypes, Begin PROVE BaseTypes'
<1>1. ASSUME NEW r \in Release, Prepare(r)
      PROVE  BaseTypes'
  <2>1. Commands' = Commands
    BY <1>1 DEF Prepare, Commands
  <2>2. QED BY <1>1, <2>1, PrepareTypes
            DEF Prepare, LifecycleTypes, DiskTypes, CommandTypes, BaseTypes
<1>2. ASSUME NEW r \in Release, Apply(r)
      PROVE  BaseTypes'
  BY <1>2, ApplyAppends DEF Appended, LifecycleTypes, DiskTypes, CommandTypes, BaseTypes
<1>3. ASSUME NEW i \in DOMAIN receipts, Rollback(i)
      PROVE  BaseTypes'
  <2>1. Reverts(i) /\ Commands' = Commands
    BY <1>3, RollbackReverts DEF Reverts, Commands, disk
  <2>2. QED BY <2>1 DEF Reverts, LifecycleTypes, DiskTypes, CommandTypes, BaseTypes, disk
<1>4. QED BY <1>1, <1>2, <1>3 DEF Begin

LEMMA CopiesTypes == ASSUME LifecycleTypes, Copies PROVE BaseTypes'
<1>1. command.target \in Release
  BY DEF Copies, Commands
<1>2. Commands' = Commands
  BY DEF Copies, Commands
<1>3. QED BY <1>1, <1>2 DEF LifecycleTypes, DiskTypes, CommandTypes, Copies, BaseTypes

LEMMA RecordingTypes ==
  ASSUME LifecycleTypes, Recording, command' \in Commands \cup {NoCommand}
  PROVE  BaseTypes'
<1>1. Commands' = Commands
  BY DEF Recording, SameReceipts, Commands
<1>2. QED BY <1>1 DEF LifecycleTypes, DiskTypes, CommandTypes, Recording, BaseTypes

\* Events are ranked by the receipt, and by the file of the receipt that records them.
Rank(e) == 2 * e[1] + e[2]

LEMMA EventsAreRanked ==
  ASSUME DiskTypes
  PROVE  \A e \in Events : /\ e = <<e[1], e[2]>> /\ e[1] \in DOMAIN receipts /\ e[2] \in {1, 2}
                           /\ e[1] \in Nat /\ 1 <= e[1] /\ e[1] <= Len(receipts)
  BY DEF Events, DiskTypes

LEMMA LeastNatural ==
  ASSUME NEW T, T \subseteq Nat, T # {}
  PROVE  \E k \in T : \A j \in T : k <= j
<1> DEFINE R == OpToRel(<, Nat)
<1>1. PICK k \in T : \A j \in T : <<j, k>> \notin R
  BY NatLessThanWellFounded, WFMin
<1>2. ASSUME NEW j \in T
      PROVE  k <= j
  <2>1. ~(j < k)
    BY <1>1 DEF OpToRel
  <2>2. QED BY <2>1
<1>3. QED BY <1>1, <1>2

LEMMA LastEventIsLast ==
  ASSUME DiskTypes, Matching # {}
  PROVE  LastEvent \in Matching /\ \A d \in Matching : Rank(d) <= Rank(LastEvent)
<1> DEFINE B == 2 * Len(receipts) + 2
           T == {k \in Nat : \E e \in Matching : Rank(e) + k = B}
<1>1. Len(receipts) \in Nat
  BY DEF DiskTypes
<1>2. ASSUME NEW e \in Matching
      PROVE  Rank(e) \in Nat /\ B - Rank(e) \in Nat
  <2>1. /\ e[1] \in Nat /\ e[1] <= Len(receipts) /\ e[2] \in {1, 2}
    BY EventsAreRanked DEF Matching
  <2>2. QED BY <1>1, <2>1 DEF Rank
<1>3. ASSUME NEW e \in Matching
      PROVE  B - Rank(e) \in T
  BY <1>1, <1>2
<1>4. T \subseteq Nat /\ T # {}
  BY <1>3
<1>5. PICK k \in T : \A j \in T : k <= j
  <2> HIDE DEF T
  <2>1. QED BY <1>4, LeastNatural
<1>6. PICK e \in Matching : Rank(e) + k = B
  OBVIOUS
<1>7. ASSUME NEW d \in Matching
      PROVE  Rank(d) <= Rank(e)
  <2>1. k <= B - Rank(d)
    BY <1>3, <1>5
  <2>2. QED BY <1>1, <1>2, <1>6, <2>1
<1>8. QED BY <1>7 DEF LastEvent, Rank

LEMMA LastEventIs ==
  ASSUME DiskTypes, NEW e \in Matching, \A d \in Matching : Rank(d) <= Rank(e)
  PROVE  LastEvent = e
<1>1. LastEvent \in Matching /\ Rank(e) <= Rank(LastEvent) /\ Rank(LastEvent) <= Rank(e)
  BY LastEventIsLast
<1>2. ASSUME NEW d \in Matching
      PROVE  d = <<d[1], d[2]>> /\ d[1] \in Nat /\ d[2] \in {1, 2}
  BY EventsAreRanked DEF Matching
<1>3. e[1] = LastEvent[1] /\ e[2] = LastEvent[2]
  BY <1>1, <1>2 DEF Rank
<1>4. QED BY <1>1, <1>2, <1>3

LEMMA PlanIsARecord ==
  ASSUME LifecycleTypes, Eligible
  PROVE  /\ Plan \in PlanRecord /\ Matching # {}
         /\ Plan.current = current /\ Plan.event = LastEvent /\ Plan.delete = Collectible
<1>1. Matching # {}
  BY DEF Eligible, Healthy
<1>2. LastEvent \in Nat \X {1, 2}
  <2>1. LastEvent \in Events
    BY <1>1, LastEventIsLast DEF Matching, LifecycleTypes
  <2>2. QED BY <2>1, EventsAreRanked DEF LifecycleTypes
<1>3. ASSUME NEW r \in Release
      PROVE  ReleaseObject(r) \in Object /\ CandidateObject(r) \in Object
  BY DEF ReleaseObject, CandidateObject, Object, LifecycleTypes, DiskTypes
<1>4. Terminal \subseteq Release
  <2>1. \A i \in DOMAIN receipts : receipts[i] \in ReceiptRecord
    BY DEF LifecycleTypes, DiskTypes
  <2>2. \A i \in DOMAIN receipts : receipts[i].candidate \in Release
    BY <2>1 DEF ReceiptRecord
  <2>3. QED BY <2>2 DEF Terminal
<1>5. Collectible \subseteq Object
  BY <1>3, <1>4 DEF Collectible, LifecycleTypes, DiskTypes
<1>6. <<receipts, releases, candidates>> \in
        Seq(ReceiptRecord) \X (SUBSET Release) \X [Release -> Nat]
  BY DEF LifecycleTypes, DiskTypes
<1>7. current \in Release
  BY DEF LifecycleTypes, DiskTypes
<1>8. Plan \in PlanRecord
  BY <1>2, <1>5, <1>6, <1>7 DEF Plan, PlanRecord
<1>9. QED BY <1>1, <1>8 DEF Plan

\* A collection never touches what Deployment's commands hold, ...
LEMMA CollectingTypes ==
  ASSUME LifecycleTypes, NEW pc \in {"retire", "erase"}, Collecting(pc)
  PROVE  command' \in Collects /\ command'.pc = pc /\ command'.kind = "collect"
  BY DEF Collecting, NoCommand, Collects

\* ... and only while it retires do directories disappear.
LEMMA PlansAreAppended ==
  ASSUME LifecycleTypes, BeginCollection
  PROVE  /\ plans' \in Seq(PlanEntry) /\ Len(plans') = Len(plans) + 1
         /\ \A i \in DOMAIN plans : plans'[i] = plans[i]
         /\ plans'[Len(plans')] = [plan |-> Plan, status |-> "planned"]
         /\ collection' = [entry |-> Len(plans'), todo |-> Plan.delete, clean |-> TRUE]
         /\ command' \in Collects /\ command'.pc = "retire" /\ command = NoCommand /\ Eligible
         /\ UNCHANGED <<disk, memory, tombstones>> /\ UNCHANGED journal /\ UNCHANGED past
<1> DEFINE new == [plan |-> Plan, status |-> "planned"]
<1>1. Eligible
  BY DEF BeginCollection
<1>2. Plan \in PlanRecord
  BY <1>1, PlanIsARecord
<1>3. new \in PlanEntry /\ new.plan = Plan
  BY <1>2 DEF PlanEntry, Status
<1>4. plans' = Append(plans, new)
  BY DEF BeginCollection
<1> HIDE DEF new
<1>5. /\ plans' \in Seq(PlanEntry) /\ Len(plans') = Len(plans) + 1
      /\ \A i \in DOMAIN plans : plans'[i] = plans[i]
      /\ plans'[Len(plans')] = new
  BY <1>3, <1>4 DEF LifecycleTypes
<1>6. command' \in Collects /\ command'.pc = "retire"
  BY CollectingTypes DEF BeginCollection, Begun
<1>7. collection' = [entry |-> Len(plans'), todo |-> Plan.delete, clean |-> TRUE]
  BY <1>3, <1>5 DEF BeginCollection, Begun
<1>8. QED BY <1>1, <1>5, <1>6, <1>7 DEF BeginCollection, new

LEMMA EntryTypes ==
  ASSUME LifecycleTypes, NEW i \in DOMAIN plans
  PROVE  /\ plans[i] \in PlanEntry /\ plans[i].plan \in PlanRecord
         /\ plans[i].plan.delete \subseteq Object /\ plans[i].status \in Status
         /\ plans[i].plan.current \in Release /\ plans[i].plan.event \in Nat \X {1, 2}
         /\ i \in Nat
<1>1. plans[i] \in PlanEntry /\ i \in Nat
  BY DEF LifecycleTypes
<1>2. plans[i].plan \in PlanRecord /\ plans[i].status \in Status
  BY <1>1 DEF PlanEntry
<1>3. QED BY <1>1, <1>2 DEF PlanRecord

LEMMA StatusIsRecorded ==
  ASSUME LifecycleTypes, NEW e \in DOMAIN plans, NEW s \in Status,
         plans' = [plans EXCEPT ![e].status = s]
  PROVE  /\ plans' \in Seq(PlanEntry) /\ Len(plans') = Len(plans)
         /\ \A i \in DOMAIN plans : plans'[i].plan = plans[i].plan
         /\ \A i \in DOMAIN plans \ {e} : plans'[i] = plans[i]
         /\ plans'[e].status = s
<1>1. plans \in Seq(PlanEntry) /\ plans[e] \in PlanEntry
  BY EntryTypes DEF LifecycleTypes
<1> DEFINE new == [plans[e] EXCEPT !.status = s]
<1>2. new \in PlanEntry /\ new.plan = plans[e].plan /\ new.status = s
  BY <1>1 DEF PlanEntry
<1>3. plans' = [plans EXCEPT ![e] = new]
  OBVIOUS
<1> HIDE DEF new
<1>4. /\ plans' \in Seq(PlanEntry) /\ Len(plans') = Len(plans) /\ plans'[e] = new
      /\ \A i \in DOMAIN plans \ {e} : plans'[i] = plans[i]
  BY <1>1, <1>2, <1>3
<1>5. QED BY <1>2, <1>4

\* The deployment whose authority an automatic rollback recovers.
LEMMA LatestIsLast ==
  ASSUME DiskTypes, NEW S, S \subseteq DOMAIN receipts, S # {}
  PROVE  Latest(S) \in S /\ \A j \in S : j <= Latest(S)
<1> DEFINE B == Len(receipts)
           T == {k \in Nat : \E i \in S : i + k = B}
<1>1. B \in Nat /\ \A i \in S : i \in Nat /\ i <= B
  BY DEF DiskTypes
<1>2. ASSUME NEW i \in S
      PROVE  B - i \in T
  BY <1>1
<1>3. T \subseteq Nat /\ T # {}
  BY <1>2
<1>4. PICK k \in T : \A j \in T : k <= j
  <2> HIDE DEF T
  <2>1. QED BY <1>3, LeastNatural
<1>5. PICK i \in S : i + k = B
  OBVIOUS
<1>6. ASSUME NEW j \in S
      PROVE  j <= i
  <2>1. k <= B - j
    BY <1>2, <1>4
  <2>2. QED BY <1>1, <1>5, <2>1
<1>7. QED BY <1>6 DEF Latest

LEMMA LatestIs ==
  ASSUME NEW S, S \subseteq Nat, NEW k \in S, \A j \in S : j <= k
  PROVE  Latest(S) = k
<1>1. Latest(S) \in S /\ \A j \in S : j <= Latest(S)
  BY DEF Latest
<1>2. Latest(S) \in Nat /\ k \in Nat /\ k <= Latest(S) /\ Latest(S) <= k
  BY <1>1
<1>3. QED BY <1>2

LEMMA RetainedTypes ==
  ASSUME NEW a \in Release, NEW O \in SUBSET Absence, NEW c \in Absence, NEW b \in Nat
  PROVE  Retained(a, O, c, b) \in PromiseRecord
  BY DEF Retained, PromiseRecord, Absence

LEMMA PromisedIsARecord ==
  ASSUME LifecycleTypes, Ending
  PROVE  Promised \in PromiseRecord
<1> DEFINE r == receipts'[command.receipt]
<1>1. r \in ReceiptRecord
  BY DEF Ending, Recording, SameReceipts, Commands
<1>2. /\ r.candidate \in Release /\ r.previous \in Release /\ r.build \in Nat
      /\ r.rollback.displaced \in Absence
  BY <1>1 DEF ReceiptRecord, Absence
<1>3. memory.promise \in PromiseRecord /\ current \in Release
  BY DEF LifecycleTypes, DiskTypes
<1>4. ASSUME NEW p \in PromiseRecord, NEW m \in BOOLEAN
      PROVE  [p EXCEPT !.moved = m] \in PromiseRecord
  BY DEF PromiseRecord
<1> HIDE DEF r
<1>5. (r.previous # r.candidate) \in BOOLEAN
  OBVIOUS
<1>6. NoRelease \in Absence /\ Release \subseteq Absence
  BY DEF Absence
<1>7. /\ Retained(r.candidate, {}, NoRelease, 0) \in PromiseRecord
      /\ Retained(r.previous, {}, NoRelease, 0) \in PromiseRecord
      /\ Retained(current, {}, NoRelease, 0) \in PromiseRecord
      /\ Retained(r.candidate, {r.previous}, r.candidate, r.build) \in PromiseRecord
      /\ Retained(r.previous, {r.candidate}, r.candidate, r.build) \in PromiseRecord
      /\ Retained(r.previous, {r.rollback.displaced}, NoRelease, 0) \in PromiseRecord
  BY <1>2, <1>3, <1>6, RetainedTypes
<1>11. Recovered(r.previous) \in PromiseRecord
  <2>1. PICK p : p = r.previous
    OBVIOUS
  <2>2. Only(p) \in PromiseRecord
    BY <1>2, <1>6, <2>1, RetainedTypes DEF Only
  <2>3. ASSUME DeploymentsOf(p) # {}
        PROVE  ReversibleBy(receipts[Latest(DeploymentsOf(p))]) \in PromiseRecord
    <3>1. DeploymentsOf(p) \subseteq DOMAIN receipts
      BY DEF DeploymentsOf
    <3>2. PICK q : q = receipts[Latest(DeploymentsOf(p))]
      OBVIOUS
    <3>3. q \in ReceiptRecord
      BY <2>3, <3>1, <3>2, LatestIsLast DEF LifecycleTypes, DiskTypes
    <3>4. q.candidate \in Release /\ q.previous \in Release /\ q.build \in Nat
      BY <3>3 DEF ReceiptRecord
    <3>5. /\ Retained(q.candidate, {}, NoRelease, 0) \in PromiseRecord
          /\ Retained(q.candidate, {q.previous}, q.candidate, q.build) \in PromiseRecord
      BY <1>6, <3>4, RetainedTypes
    <3>6. QED BY <3>2, <3>5 DEF ReversibleBy, Only
  <2>4. QED BY <2>1, <2>2, <2>3 DEF Recovered
<1>8. [Retained(r.previous, {r.candidate}, r.candidate, r.build) EXCEPT
         !.moved = r.previous # r.candidate] \in PromiseRecord
  BY <1>4, <1>5, <1>7
<1>9. Promised \in { Retained(r.candidate, {}, NoRelease, 0),
        Recovered(r.previous), Retained(current, {}, NoRelease, 0),
        Retained(r.candidate, {r.previous}, r.candidate, r.build),
        Retained(r.previous, {r.rollback.displaced}, NoRelease, 0),
        [Retained(r.previous, {r.candidate}, r.candidate, r.build) EXCEPT
          !.moved = r.previous # r.candidate],
        memory.promise }
  BY DEF Promised, ReversibleBy, Only, r
<1>10. QED BY <1>3, <1>7, <1>8, <1>9, <1>11

LEMMA EndEnds ==
  ASSUME LifecycleTypes, End
  PROVE  Ending
  BY DeployedRecords, RestoredRecords, RecordEventRecords, FailedRecords DEF End

LEMMA StepsBeforeTheEnd ==
  ASSUME LifecycleTypes, Begin \/ Forward \/ Backward \/ Die \/ Service
  PROVE  \/ Rests \/ Moves \/ Copies \/ Begin
         \/ Snapshot /\ Recording /\ command' \in Commands
         \/ RolledBack /\ Recording /\ command' \in Commands
<1>1. CASE Forward
  BY <1>1, ForwardMoves, CopyReleaseCopies, SnapshotRecords DEF Forward, Continues
<1>2. CASE Backward
  BY <1>2, BackwardMoves, RolledBackRecords DEF Backward, Continues
<1>3. CASE Die \/ Service
  BY <1>3, DieRests, ServiceRests
<1>4. QED BY <1>1, <1>2, <1>3

LEMMA StepsOfDeployment ==
  ASSUME LifecycleTypes, Begin \/ Forward \/ Backward \/ End \/ Die \/ Service
  PROVE  \/ Rests \/ Moves \/ Copies \/ Begin
         \/ Snapshot /\ Recording /\ command' \in Commands
         \/ RolledBack /\ Recording /\ command' \in Commands
         \/ End /\ Ending
  BY StepsBeforeTheEnd, EndEnds

LEMMA DeploymentStepTypes == ASSUME LifecycleTypes, DeploymentStep PROVE LifecycleTypes'
<1>1. BaseTypes'
  BY StepsOfDeployment, RestsTypes, MovesTypes, CopiesTypes, BeginTypes, RecordingTypes
  DEF DeploymentStep, Ending
<1>2. plans' \in Seq(PlanEntry)
  BY DEF DeploymentStep, LifecycleTypes
<1>3. collection' \in CollectionRecord
  BY DEF DeploymentStep, LifecycleTypes, NoCollection, CollectionRecord
<1>4. memory' \in [promise : PromiseRecord, installed : SUBSET Release]
  <2>1. memory \in [promise : PromiseRecord, installed : SUBSET Release]
    BY DEF LifecycleTypes
  <2>2. CASE End /\ memory' = [memory EXCEPT !.promise = Promised]
    BY <2>1, <2>2, EndEnds, PromisedIsARecord
  <2>3. CASE memory' = [memory EXCEPT !.installed = memory.installed \cup releases']
    <3>1. memory.installed \cup releases' \in SUBSET Release
      BY <1>1, <2>1 DEF BaseTypes, DiskTypes
    <3>2. QED BY <2>1, <2>3, <3>1
  <2>4. QED BY <2>2, <2>3 DEF DeploymentStep
<1>5. QED BY <1>1, <1>2, <1>3, <1>4 DEF BaseTypes, LifecycleTypes

\* The invariants of the collections.
Deletes(plan, kind, r) == \E o \in plan.delete : o.kind = kind /\ o.id = r
PlanIsSound(plan) ==
  /\ \A o \in plan.delete : o.kind = "release" => o = ReleaseObject(o.id)
  /\ ~Deletes(plan, "release", plan.current)
CollectionIsSound ==
  /\ collection.entry \in DOMAIN plans /\ collection.todo \subseteq Entry.plan.delete
  /\ At("erase") => Entry.status # "planned"
  /\ Entry.plan.current = current
  /\ Matching # {} /\ LastEvent = Entry.plan.event
Collected ==
  /\ \A i \in DOMAIN plans : PlanIsSound(plans[i].plan)
  /\ command.kind = "collect" => CollectionIsSound

LEMMA AtACollection ==
  ASSUME CommandTypes, command.pc \in {"retire", "erase"}
  PROVE  command \in Collects
<1>1. command \notin Commands
  BY DEF Commands, Label
<1>2. command # NoCommand
  BY DEF NoCommand
<1>3. QED BY <1>1, <1>2 DEF CommandTypes

LEMMA CollectsKind ==
  ASSUME command \in Collects
  PROVE  /\ command.kind = "collect" /\ command # NoCommand /\ command \notin Commands
         /\ command.pc \in {"retire", "erase"} /\ ~Activating
  BY DEF Collects, NoCommand, Commands, Activating

\* What every step of a collection leaves alone.
Untouched == UNCHANGED <<current, receipts, memory>> /\ Accounts'

LEMMA UntouchedTypes ==
  ASSUME LifecycleTypes, Untouched, command' \in {command, NoCommand} \cup Collects,
         releases' \subseteq Release, candidates' \in [Release -> Nat],
         plans' \in Seq(PlanEntry), collection' \in CollectionRecord
  PROVE  LifecycleTypes'
<1>1. Commands' = Commands
  BY DEF Untouched, Commands
<1>2. QED BY <1>1 DEF LifecycleTypes, Untouched, DiskTypes, CommandTypes, Accounts

LEMMA TodoTypes ==
  ASSUME LifecycleTypes, NEW S \in SUBSET Object, Todo(S)
  PROVE  /\ collection' \in CollectionRecord /\ collection'.todo = S
         /\ collection'.entry = collection.entry
  BY DEF LifecycleTypes, Todo, CollectionRecord

Retires(o) ==
  /\ command \in Collects /\ At("retire") /\ o \in collection.todo /\ o \in Object
  /\ UNCHANGED <<command, plans>>
  /\ releases' = IF o.kind = "release" THEN releases \ {o.id} ELSE releases
  /\ candidates' = IF o.kind = "candidate" THEN [candidates EXCEPT ![o.id] = 0] ELSE candidates
  /\ tombstones' = tombstones \cup {Tombstone(o, TRUE)}
  /\ collection' \in CollectionRecord /\ collection'.entry = collection.entry
  /\ collection'.todo \subseteq collection.todo

LEMMA RetireRetires ==
  ASSUME LifecycleTypes, NEW o, Retire(o)
  PROVE  Retires(o) /\ Untouched
<1>1. command \in Collects
  BY AtACollection DEF LifecycleTypes, Retire, At
<1>2. collection.todo \in SUBSET Object
  BY DEF LifecycleTypes, CollectionRecord
<1>3. /\ collection' \in CollectionRecord /\ collection'.todo = collection.todo \ {o}
      /\ collection'.entry = collection.entry
  BY <1>2, TodoTypes DEF Retire
<1>4. Accounts'
  BY DEF LifecycleTypes, Accounts, Serves, IsActive, Retire
<1>5. QED BY <1>1, <1>2, <1>3, <1>4 DEF Retire, Retires, Untouched

\* The steps that leave directories and plans alone: they go on, or give up, or move a
\* tombstone of a plan that is past its retirement.
Proceeds ==
  /\ command \in Collects /\ UNCHANGED <<releases, candidates, plans>>
  /\ \/ /\ UNCHANGED command
        /\ collection' \in CollectionRecord /\ collection'.entry = collection.entry
        /\ collection'.todo \subseteq collection.todo
     \/ command' = NoCommand /\ collection' = NoCollection
  /\ \/ UNCHANGED tombstones
     \/ At("erase") /\ \A t \in tombstones : t.entry # collection.entry => t \in tombstones'

LEMMA CollectionProceeds ==
  ASSUME LifecycleTypes,
         \/ RetireFails
         \/ \E o \in collection.todo :
              FindRetired(o) \/ BeginErase(o) \/ EndErase(o) \/ EraseFails(o)
  PROVE  Proceeds /\ Untouched
<1>1. collection.todo \in SUBSET Object /\ CommandTypes /\ Accounts
  BY DEF LifecycleTypes, CollectionRecord
<1>2. ASSUME NEW o
      PROVE  collection.todo \ {o} \in SUBSET Object
  BY <1>1
<1>3. ASSUME UNCHANGED <<journal, service, past>>
      PROVE  Accounts'
  BY <1>1, <1>3 DEF Accounts, Serves, IsActive
<1>4. CASE RetireFails
  <2>1. command \in Collects
    BY <1>1, <1>4, AtACollection DEF RetireFails, At
  <2>2. QED BY <1>3, <1>4, <2>1 DEF RetireFails, Proceeds, Untouched, disk
<1>5. ASSUME NEW o \in collection.todo, FindRetired(o)
      PROVE  Proceeds /\ Untouched
  <2>1. command \in Collects
    BY <1>1, <1>5, AtACollection DEF FindRetired, At
  <2>2. /\ collection' \in CollectionRecord /\ collection'.entry = collection.entry
        /\ collection'.todo = collection.todo \ {o}
    BY <1>2, <1>5, TodoTypes DEF FindRetired
  <2>3. QED BY <1>3, <1>5, <2>1, <2>2 DEF FindRetired, Proceeds, Untouched, vars
<1>6. ASSUME NEW o \in collection.todo, BeginErase(o)
      PROVE  Proceeds /\ Untouched
  <2>1. command \in Collects
    BY <1>1, <1>6, AtACollection DEF BeginErase, At
  <2>2. Tombstone(o, TRUE).entry = collection.entry
    BY DEF Tombstone
  <2>3. \A t \in tombstones : t.entry # collection.entry => t \in tombstones'
    BY <1>6, <2>2 DEF BeginErase
  <2>4. collection' \in CollectionRecord
    BY <1>6 DEF BeginErase, LifecycleTypes
  <2>5. QED BY <1>3, <1>6, <2>1, <2>3, <2>4 DEF BeginErase, Proceeds, Untouched, vars
<1>7. ASSUME NEW o \in collection.todo, EndErase(o)
      PROVE  Proceeds /\ Untouched
  <2>1. command \in Collects
    BY <1>1, <1>7, AtACollection DEF EndErase, At
  <2>2. Tombstone(o, FALSE).entry = collection.entry
    BY DEF Tombstone
  <2>3. \A t \in tombstones : t.entry # collection.entry => t \in tombstones'
    BY <1>7, <2>2 DEF EndErase
  <2>4. /\ collection' \in CollectionRecord /\ collection'.entry = collection.entry
        /\ collection'.todo = collection.todo \ {o}
    BY <1>2, <1>7, TodoTypes DEF EndErase
  <2>5. QED BY <1>3, <1>7, <2>1, <2>3, <2>4 DEF EndErase, Proceeds, Untouched, vars
<1>8. ASSUME NEW o \in collection.todo, EraseFails(o)
      PROVE  Proceeds /\ Untouched
  <2>1. command \in Collects
    BY <1>1, <1>8, AtACollection DEF EraseFails, At
  <2>2. Accounts'
    <3>1. Serves'
      BY <1>1, <1>8 DEF EraseFails, Accounts, Serves, IsActive
    <3>2. QED BY <1>1, <1>8, <3>1, FaultAccounts DEF EraseFails
  <2>3. /\ collection' \in CollectionRecord /\ collection'.entry = collection.entry
        /\ collection'.todo \subseteq collection.todo
    BY <1>8 DEF EraseFails, LifecycleTypes, CollectionRecord
  <2>4. QED BY <1>8, <2>1, <2>2, <2>3 DEF EraseFails, Proceeds, Untouched, disk
<1>9. QED BY <1>4, <1>5, <1>6, <1>7, <1>8

\* How far a plan was applied is recorded.
Marks(status) ==
  /\ command \in Collects /\ UNCHANGED <<releases, candidates, tombstones>>
  /\ plans' \in Seq(PlanEntry) /\ Len(plans') = Len(plans)
  /\ \A i \in DOMAIN plans : plans'[i].plan = plans[i].plan
  /\ \A i \in DOMAIN plans \ {collection.entry} : plans'[i] = plans[i]
  /\ plans'[collection.entry].status = status

LEMMA RetirementIsMarked ==
  ASSUME LifecycleTypes, collection.entry \in DOMAIN plans, RecordRetirement
  PROVE  /\ Marks("retired") /\ Untouched
         /\ command' \in Collects /\ command'.kind = "collect"
         /\ collection' \in CollectionRecord /\ collection'.entry = collection.entry
         /\ collection'.todo \subseteq Entry.plan.delete
<1>1. command \in Collects
  BY AtACollection DEF LifecycleTypes, RecordRetirement, At
<1>2. plans' = [plans EXCEPT ![collection.entry].status = "retired"] /\ "retired" \in Status
  BY DEF RecordRetirement, Status
<1>3. command' \in Collects /\ command'.kind = "collect"
  BY CollectingTypes DEF RecordRetirement
<1> DEFINE S == {o \in Entry.plan.delete : Buried(o)}
<1>4. S \in SUBSET Object /\ S \subseteq Entry.plan.delete
  BY EntryTypes DEF Entry
<1>5. Todo(S)
  BY DEF RecordRetirement
<1> HIDE DEF S
<1>6. /\ collection' \in CollectionRecord /\ collection'.entry = collection.entry
      /\ collection'.todo = S
  BY <1>4, <1>5, TodoTypes
<1>7. Accounts'
  BY DEF LifecycleTypes, Accounts, Serves, IsActive, RecordRetirement
<1>8. UNCHANGED <<releases, candidates, tombstones, current, receipts, memory>>
  BY DEF RecordRetirement, disk
<1>9. Marks("retired")
  BY <1>1, <1>2, <1>8, StatusIsRecorded DEF Marks
<1>10. QED BY <1>3, <1>4, <1>6, <1>7, <1>8, <1>9 DEF Untouched

LEMMA ResultIsMarked ==
  ASSUME LifecycleTypes, collection.entry \in DOMAIN plans, RecordResult
  PROVE  /\ \E s \in {"pruned", Entry.status} : Marks(s)
         /\ Untouched /\ At("erase") /\ command' = NoCommand /\ collection' = NoCollection
<1>1. command \in Collects
  BY AtACollection DEF LifecycleTypes, RecordResult, At
<1> DEFINE s == IF collection.clean THEN "pruned" ELSE plans[collection.entry].status
<1>2. s \in Status
  BY EntryTypes DEF Status
<1>3. plans' = [plans EXCEPT ![collection.entry].status = s]
  BY DEF RecordResult
<1>4. s \in {"pruned", Entry.status}
  BY DEF Entry
<1> HIDE DEF s
<1>5. Accounts'
  BY DEF LifecycleTypes, Accounts, Serves, IsActive, RecordResult
<1>6. UNCHANGED <<releases, candidates, tombstones, current, receipts, memory>>
  BY DEF RecordResult, disk
<1>7. Marks(s)
  BY <1>1, <1>2, <1>3, <1>6, StatusIsRecorded DEF Marks
<1>8. QED BY <1>4, <1>5, <1>6, <1>7 DEF Untouched, RecordResult

LEMMA CollectionResumes ==
  ASSUME LifecycleTypes, NEW i \in DOMAIN plans, ResumeCollection(i)
  PROVE  /\ Untouched /\ UNCHANGED <<releases, candidates, tombstones, plans>>
         /\ command = NoCommand /\ command' \in Collects /\ command'.pc = "retire"
         /\ Guard(plans[i].plan)
         /\ collection' \in CollectionRecord /\ collection'.entry = i
         /\ collection'.todo = plans[i].plan.delete
<1>1. plans' = plans /\ Collecting("retire")
  BY DEF ResumeCollection, Begun
<1>2. collection' = [entry |-> i, todo |-> plans[i].plan.delete, clean |-> TRUE]
  BY <1>1 DEF ResumeCollection, Begun
<1>3. /\ collection' \in CollectionRecord /\ collection'.entry = i
      /\ collection'.todo = plans[i].plan.delete
  BY <1>2, EntryTypes DEF CollectionRecord
<1>4. command' \in Collects /\ command'.pc = "retire"
  BY <1>1, CollectingTypes
<1>5. Accounts'
  BY DEF LifecycleTypes, Accounts, Serves, IsActive, ResumeCollection
<1>6. QED BY <1>1, <1>3, <1>4, <1>5 DEF ResumeCollection, Untouched, disk

LEMMA CollectionBegins ==
  ASSUME LifecycleTypes, BeginCollection
  PROVE  Untouched /\ collection' \in CollectionRecord
<1>1. Plan.delete \in SUBSET Object /\ Len(plans') \in Nat
  BY PlansAreAppended, PlanIsARecord DEF PlanRecord, LifecycleTypes
<1>2. collection' \in CollectionRecord
  <2>1. collection' = [entry |-> Len(plans'), todo |-> Plan.delete, clean |-> TRUE]
    BY PlansAreAppended
  <2>2. QED BY <1>1, <2>1 DEF CollectionRecord
<1>3. Accounts'
  BY DEF LifecycleTypes, Accounts, Serves, IsActive, BeginCollection
<1>4. QED BY <1>2, <1>3, PlansAreAppended DEF Untouched, disk

LEMMA StepsOfCollection ==
  ASSUME LifecycleTypes, Collection
  PROVE  \/ BeginCollection \/ RecordRetirement \/ RecordResult
         \/ Proceeds /\ Untouched
         \/ \E i \in DOMAIN plans : ResumeCollection(i)
         \/ \E o \in collection.todo : Retire(o)
  BY CollectionProceeds DEF Collection

LEMMA CollectionStepTypes ==
  ASSUME LifecycleTypes, Collected, Collection
  PROVE  LifecycleTypes'
<1>1. /\ releases \subseteq Release /\ candidates \in [Release -> Nat]
      /\ plans \in Seq(PlanEntry) /\ CommandTypes
  BY DEF LifecycleTypes, DiskTypes
<1>2. ASSUME command.pc \in {"retire", "erase"}
      PROVE  collection.entry \in DOMAIN plans
  BY <1>1, <1>2, AtACollection, CollectsKind DEF Collected, CollectionIsSound
<1>3. NoCollection \in CollectionRecord
  BY DEF NoCollection, CollectionRecord
<1>4. CASE BeginCollection
  BY <1>1, <1>4, PlansAreAppended, CollectionBegins, UntouchedTypes DEF disk
<1>5. CASE RecordRetirement
  BY <1>1, <1>2, <1>5, RetirementIsMarked, UntouchedTypes DEF Marks, RecordRetirement, At
<1>6. CASE RecordResult
  BY <1>1, <1>2, <1>3, <1>6, ResultIsMarked, UntouchedTypes DEF Marks, RecordResult, At
<1>7. CASE Proceeds /\ Untouched
  BY <1>1, <1>3, <1>7, UntouchedTypes DEF Proceeds
<1>8. CASE \E i \in DOMAIN plans : ResumeCollection(i)
  BY <1>1, <1>8, CollectionResumes, UntouchedTypes
<1>9. CASE \E o \in collection.todo : Retire(o)
  <2>1. PICK o : Retires(o) /\ Untouched
    BY <1>9, RetireRetires
  <2>2. releases' \subseteq Release /\ candidates' \in [Release -> Nat]
    BY <1>1, <2>1 DEF Retires, Object
  <2>3. QED BY <1>1, <2>1, <2>2, UntouchedTypes DEF Retires
<1>10. QED BY <1>4, <1>5, <1>6, <1>7, <1>8, <1>9, StepsOfCollection

\* The link names a release that is there, and so do the commands that would move it.
CommandIsInstalled ==
  command.kind \in {"apply", "rollback"} =>
    /\ command.origin \in releases
    /\ ~At("copy") => command.target \in releases
ActivationIsUnrecorded ==
  Activating =>
    /\ Receipt.candidate = command.target /\ Receipt.previous = command.origin
    /\ Receipt.result # "deployed" /\ Receipt.rollback.status = "none"
    /\ At("event") => Receipt.result = "rolled_back"
RollbackIsOfAReceipt ==
  command.kind = "rollback" =>
    Receipt.previous = command.target /\ command.pc \notin {"copy", "answer", "event"}
BuildsAreNumbered == \A i \in DOMAIN receipts : receipts[i].build # 0
Installed ==
  /\ current \in releases /\ BuildsAreNumbered
  /\ CommandIsInstalled /\ ActivationIsUnrecorded /\ RollbackIsOfAReceipt

LEMMA IdleIsInstalled ==
  ASSUME command' \in {NoCommand} \cup Collects
  PROVE  (CommandIsInstalled /\ ActivationIsUnrecorded /\ RollbackIsOfAReceipt)'
<1>1. command'.kind \notin {"apply", "rollback"}
  <2>1. CASE command' = NoCommand
    BY <2>1 DEF NoCommand
  <2>2. CASE command' \in Collects
    <3>1. command'.kind = "collect"
      BY <2>2 DEF Collects
    <3>2. QED BY <3>1
  <2>3. QED BY <2>1, <2>2
<1>2. QED BY <1>1 DEF CommandIsInstalled, ActivationIsUnrecorded, RollbackIsOfAReceipt,
                        Activating

LEMMA InstalledRests == ASSUME Installed, Rests PROVE Installed'
<1>1. CASE command' = NoCommand
  <2>1. (CommandIsInstalled /\ ActivationIsUnrecorded /\ RollbackIsOfAReceipt)'
    BY <1>1, IdleIsInstalled
  <2>2. QED BY <2>1 DEF Installed, Rests, disk, BuildsAreNumbered
<1>2. CASE command' = command
  BY <1>2 DEF Installed, Rests, disk, BuildsAreNumbered, CommandIsInstalled,
              ActivationIsUnrecorded, RollbackIsOfAReceipt, Activating, Receipt, At
<1>3. QED BY <1>1, <1>2 DEF Rests

LEMMA CommandsAct ==
  ASSUME command \in Commands
  PROVE  command.kind \in {"apply", "rollback"} /\ command.receipt \in DOMAIN receipts
         /\ command # NoCommand
  BY DEF Commands, NoCommand

LEMMA InstalledMoves == ASSUME Installed, Moves PROVE Installed'
<1>1. command.kind \in {"apply", "rollback"}
  BY CommandsAct DEF Moves
<1>2. (current \in releases /\ CommandIsInstalled)'
  BY <1>1 DEF Installed, Moves, CommandIsInstalled
<1>3. ActivationIsUnrecorded'
  BY DEF Installed, Moves, ActivationIsUnrecorded, Activating, Receipt, At
<1>4. RollbackIsOfAReceipt'
  BY DEF Installed, Moves, RollbackIsOfAReceipt, Receipt, At, Activating
<1>5. QED BY <1>2, <1>3, <1>4 DEF Installed, Moves, BuildsAreNumbered

LEMMA InstalledCopies == ASSUME Installed, Copies PROVE Installed'
<1>1. command.kind \in {"apply", "rollback"}
  BY CommandsAct DEF Copies
<1>2. (current \in releases /\ CommandIsInstalled)'
  BY <1>1 DEF Installed, Copies, CommandIsInstalled
<1>3. ActivationIsUnrecorded'
  BY DEF Installed, Copies, ActivationIsUnrecorded, Activating, Receipt, At
<1>4. RollbackIsOfAReceipt'
  BY DEF Installed, Copies, RollbackIsOfAReceipt, Receipt, At
<1>5. QED BY <1>2, <1>3, <1>4 DEF Installed, Copies, BuildsAreNumbered

LEMMA InstalledBegin == ASSUME LifecycleTypes, Installed, Begin PROVE Installed'
<1>1. ASSUME NEW r \in Release, Prepare(r)
      PROVE  Installed'
  BY <1>1 DEF Prepare, Installed, BuildsAreNumbered, CommandIsInstalled,
              ActivationIsUnrecorded, RollbackIsOfAReceipt, Activating, Receipt, At
<1>2. ASSUME NEW r \in Release, Apply(r)
      PROVE  Installed'
  <2>1. Appended(r) /\ receipts \in Seq(ReceiptRecord) /\ receipts' \in Seq(ReceiptRecord)
    BY <1>2, ApplyAppends DEF Appended, LifecycleTypes, DiskTypes
  <2>2. \A i \in DOMAIN receipts' : i \in DOMAIN receipts \/ i = Len(receipts')
    BY <2>1 DEF Appended
  <2>3. BuildsAreNumbered'
    BY <2>1, <2>2 DEF Appended, Installed, BuildsAreNumbered
  <2>4. (CommandIsInstalled /\ RollbackIsOfAReceipt)'
    BY <2>1 DEF Appended, Installed, CommandIsInstalled, RollbackIsOfAReceipt, At
  <2>5. ActivationIsUnrecorded'
    BY <2>1 DEF Appended, ActivationIsUnrecorded, Receipt, At, NoRollback
  <2>6. QED BY <2>1, <2>3, <2>4, <2>5 DEF Appended, Installed
<1>3. ASSUME NEW i \in DOMAIN receipts, Rollback(i)
      PROVE  Installed'
  <2>1. Reverts(i)
    BY <1>3, RollbackReverts
  <2>2. (CommandIsInstalled /\ RollbackIsOfAReceipt /\ ActivationIsUnrecorded)'
    BY <2>1 DEF Reverts, Installed, CommandIsInstalled, RollbackIsOfAReceipt,
                ActivationIsUnrecorded, Activating, Receipt, At, disk
  <2>3. QED BY <2>1, <2>2 DEF Reverts, Installed, BuildsAreNumbered, disk
<1>4. QED BY <1>1, <1>2, <1>3 DEF Begin

LEMMA InstalledRecording ==
  ASSUME LifecycleTypes, Installed, Snapshot \/ RolledBack
  PROVE  Installed'
<1>1. /\ Recording /\ command' \in Commands /\ command'.kind = command.kind
      /\ command'.receipt = command.receipt
      /\ command'.target = command.target /\ command'.origin = command.origin
      /\ command'.pc # "copy" /\ ~At("copy") /\ command.receipt \in DOMAIN receipts
  BY SnapshotRecords, RolledBackRecords, CommandsAct DEF Continues, Recording, At
<1>2. BuildsAreNumbered'
  BY <1>1 DEF Installed, BuildsAreNumbered, Recording, SameReceipts, Static
<1>3. CommandIsInstalled'
  BY <1>1 DEF Installed, CommandIsInstalled, Recording
<1>4. Activating => ActivationIsUnrecorded'
  <2>1. CASE Snapshot
    BY <1>1, <2>1, SnapshotRecords DEF Installed, ActivationIsUnrecorded, Activating, Receipt,
             At, Recording, SameReceipts, Static, SameResults, SameRollbacks, Continues
  <2>2. CASE RolledBack
    BY <1>1, <2>2, RolledBackRecords DEF Installed, ActivationIsUnrecorded, Activating, Receipt,
             At, Recording, SameReceipts, Static, Outcome, SameRollbacks
  <2>3. QED BY <2>1, <2>2
<1>5. ~Activating => ActivationIsUnrecorded'
  BY <1>1 DEF ActivationIsUnrecorded, Activating
<1>6. RollbackIsOfAReceipt'
  <2>1. command.kind = "rollback" => Snapshot
    BY RolledBackRecords DEF Installed, RollbackIsOfAReceipt, At
  <2>2. QED BY <1>1, <2>1, SnapshotRecords
            DEF Installed, RollbackIsOfAReceipt, Receipt, At, Recording, SameReceipts, Static,
                Continues
<1>7. QED BY <1>1, <1>2, <1>3, <1>4, <1>5, <1>6 DEF Installed, Recording

LEMMA InstalledEnding == ASSUME Installed, Ending PROVE Installed'
<1>1. (CommandIsInstalled /\ ActivationIsUnrecorded /\ RollbackIsOfAReceipt)'
  BY IdleIsInstalled DEF Ending
<1>2. BuildsAreNumbered'
  BY DEF Ending, Recording, SameReceipts, Static, Installed, BuildsAreNumbered
<1>3. QED BY <1>1, <1>2 DEF Installed, Ending, Recording

LEMMA InstalledDeployment == ASSUME LifecycleTypes, Installed, DeploymentStep PROVE Installed'
  BY StepsOfDeployment, InstalledRests, InstalledMoves, InstalledCopies, InstalledBegin,
     InstalledRecording, InstalledEnding DEF DeploymentStep

\* What every step of a collection has in common.
LEMMA CollectionKeeps ==
  ASSUME LifecycleTypes, Collected, Collection
  PROVE  /\ Untouched /\ command \in {NoCommand} \cup Collects
         /\ command' \in {NoCommand} \cup Collects
         /\ UNCHANGED <<releases, candidates>> \/ \E o : Retires(o)
<1>1. ASSUME command.pc \in {"retire", "erase"}
      PROVE  collection.entry \in DOMAIN plans
  BY <1>1, AtACollection, CollectsKind DEF Collected, CollectionIsSound, LifecycleTypes
<1>2. CASE BeginCollection
  BY <1>2, CollectionBegins, PlansAreAppended DEF disk
<1>3. CASE RecordRetirement
  BY <1>1, <1>3, RetirementIsMarked DEF RecordRetirement, At, Marks
<1>4. CASE RecordResult
  BY <1>1, <1>4, ResultIsMarked DEF RecordResult, At, Marks
<1>5. CASE Proceeds /\ Untouched
  BY <1>5 DEF Proceeds
<1>6. CASE \E i \in DOMAIN plans : ResumeCollection(i)
  BY <1>6, CollectionResumes
<1>7. CASE \E o \in collection.todo : Retire(o)
  <2>1. PICK o : Retires(o) /\ Untouched
    BY <1>7, RetireRetires
  <2>2. QED BY <2>1 DEF Retires
<1>8. QED BY <1>2, <1>3, <1>4, <1>5, <1>6, <1>7, StepsOfCollection

LEMMA RetiringIsSound ==
  ASSUME Collected, NEW o, Retires(o)
  PROVE  /\ collection.entry \in DOMAIN plans /\ o \in Entry.plan.delete
         /\ o.kind = "release" => o = ReleaseObject(o.id) /\ o.id # current
<1>1. command.kind = "collect" /\ collection.entry \in DOMAIN plans /\ PlanIsSound(Entry.plan)
      /\ CollectionIsSound
  BY CollectsKind DEF Retires, Collected, CollectionIsSound, Entry
<1>2. o \in Entry.plan.delete /\ Entry.plan.current = current
  BY <1>1 DEF CollectionIsSound, Retires
<1>3. QED BY <1>1, <1>2 DEF PlanIsSound, Deletes

LEMMA InstalledCollection ==
  ASSUME LifecycleTypes, Installed, Collected, Collection
  PROVE  Installed'
<1>1. (CommandIsInstalled /\ ActivationIsUnrecorded /\ RollbackIsOfAReceipt)'
  BY CollectionKeeps, IdleIsInstalled
<1>2. UNCHANGED <<current, receipts>>
  BY CollectionKeeps DEF Untouched
<1>3. current \in releases'
  <2>1. CASE UNCHANGED releases
    BY <2>1 DEF Installed
  <2>2. ASSUME NEW o, Retires(o)
        PROVE  current \in releases'
    BY <2>2, RetiringIsSound DEF Installed, Retires
  <2>3. QED BY <2>1, <2>2, CollectionKeeps
<1>4. QED BY <1>1, <1>2, <1>3 DEF Installed, BuildsAreNumbered

LEMMA EventsStay ==
  ASSUME UNCHANGED <<receipts, current>>
  PROVE  Events' = Events /\ Matching' = Matching /\ LastEvent' = LastEvent
<1>1. Events' = Events
  BY DEF Events
<1>2. Matching' = Matching
  BY <1>1 DEF Matching, EventRelease
<1>3. QED BY <1>1, <1>2 DEF LastEvent

LEMMA CollectedDeployment ==
  ASSUME LifecycleTypes, Collected, DeploymentStep
  PROVE  Collected'
<1>1. UNCHANGED plans /\ (command' # NoCommand => collection' = collection)
  BY DEF DeploymentStep
<1>2. ASSUME command'.kind = "collect"
      PROVE  command' = command /\ UNCHANGED disk
  <2>1. command' \notin Commands /\ command' \notin Commands' /\ command' # NoCommand
    BY <1>2 DEF Commands, NoCommand
  <2>2. ~Begin
    <3>1. \A r \in Release : ~Prepare(r)
      BY <1>2 DEF Prepare, NoCommand
    <3>2. \A r \in Release : ~Apply(r)
      BY <2>1, ApplyAppends DEF Appended
    <3>3. \A i \in DOMAIN receipts : ~Rollback(i)
      BY <2>1, RollbackReverts DEF Reverts
    <3>4. QED BY <3>1, <3>2, <3>3 DEF Begin
  <2>3. Rests
    BY <2>1, <2>2, StepsOfDeployment DEF DeploymentStep, Moves, Copies, Ending
  <2>4. QED BY <2>1, <2>3 DEF Rests
<1>3. command'.kind = "collect" => CollectionIsSound'
  <2>1. ASSUME command'.kind = "collect"
        PROVE  CollectionIsSound'
    <3>1. command' = command /\ collection' = collection /\ CollectionIsSound
      BY <1>1, <1>2, <2>1 DEF Collected, NoCommand
    <3>2. Matching' = Matching /\ LastEvent' = LastEvent /\ current' = current
      BY <1>2, <2>1, EventsStay DEF disk
    <3>3. QED BY <1>1, <3>1, <3>2 DEF CollectionIsSound, At, Entry
  <2>2. QED BY <2>1
<1>4. QED BY <1>1, <1>3 DEF Collected, PlanIsSound

LEMMA PlanIsSoundLemma ==
  ASSUME LifecycleTypes, Eligible
  PROVE  PlanIsSound(Plan)
<1>1. ASSUME NEW o \in Collectible, o.kind = "release"
      PROVE  o = ReleaseObject(o.id) /\ o.id # current
  BY <1>1 DEF Collectible, ReleaseObject, CandidateObject
<1>2. QED BY <1>1, PlanIsARecord DEF PlanIsSound, Deletes

LEMMA CollectedCollection ==
  ASSUME LifecycleTypes, Collected, Collection
  PROVE  Collected'
<1>1. UNCHANGED <<current, receipts>>
  BY CollectionKeeps DEF Untouched
<1>2. Matching' = Matching /\ LastEvent' = LastEvent
  BY <1>1, EventsStay
<1>3. plans \in Seq(PlanEntry) /\ CommandTypes
  BY DEF LifecycleTypes
<1>4. ASSUME command.pc \in {"retire", "erase"}
      PROVE  CollectionIsSound
  BY <1>3, <1>4, AtACollection, CollectsKind DEF Collected
<1>5. CASE BeginCollection
  <2>1. \A i \in DOMAIN plans' : i \in DOMAIN plans \/ i = Len(plans')
    BY <1>3, <1>5, PlansAreAppended
  <2>2. plans'[Len(plans')].plan = Plan
    BY <1>5, PlansAreAppended
  <2>3. \A i \in DOMAIN plans' : PlanIsSound(plans'[i].plan)
    BY <1>5, <2>1, <2>2, PlansAreAppended, PlanIsSoundLemma DEF Collected
  <2>4. /\ collection'.entry = Len(plans') /\ collection'.todo = Plan.delete
        /\ Len(plans') \in DOMAIN plans' /\ command'.pc = "retire"
    BY <1>3, <1>5, PlansAreAppended
  <2>5. Plan.current = current /\ Plan.event = LastEvent /\ Matching # {}
    BY <1>5, PlansAreAppended, PlanIsARecord
  <2>6. CollectionIsSound'
    BY <1>1, <1>2, <2>2, <2>4, <2>5 DEF CollectionIsSound, Entry, At
  <2>7. QED BY <2>3, <2>6 DEF Collected
<1>6. CASE RecordRetirement
  <2>1. /\ Marks("retired") /\ collection'.entry = collection.entry
        /\ collection'.todo \subseteq Entry.plan.delete /\ CollectionIsSound
    BY <1>4, <1>6, RetirementIsMarked DEF CollectionIsSound, RecordRetirement, At
  <2>2. DOMAIN plans' = DOMAIN plans /\ \A i \in DOMAIN plans : plans'[i].plan = plans[i].plan
    BY <1>3, <2>1 DEF Marks
  <2>3. CollectionIsSound'
    BY <1>1, <1>2, <2>1, <2>2 DEF CollectionIsSound, Entry, Marks
  <2>4. QED BY <2>2, <2>3 DEF Collected
<1>7. CASE RecordResult
  <2>1. \E s : Marks(s)
    BY <1>4, <1>7, ResultIsMarked DEF CollectionIsSound, RecordResult, At
  <2>2. DOMAIN plans' = DOMAIN plans /\ \A i \in DOMAIN plans : plans'[i].plan = plans[i].plan
    BY <1>3, <2>1 DEF Marks
  <2>3. command'.kind # "collect"
    BY <1>7 DEF RecordResult, NoCommand
  <2>4. QED BY <2>2, <2>3 DEF Collected
<1>8. CASE Proceeds /\ Untouched
  <2>1. UNCHANGED plans
    BY <1>8 DEF Proceeds
  <2>2. command'.kind = "collect" => CollectionIsSound'
    <3>1. CASE command' = NoCommand
      BY <3>1 DEF NoCommand
    <3>2. CASE command' # NoCommand
      <4>1. /\ command' = command /\ collection'.entry = collection.entry
            /\ collection'.todo \subseteq collection.todo /\ CollectionIsSound
        BY <1>8, <3>2, CollectsKind DEF Proceeds, Collected
      <4>2. QED BY <1>1, <1>2, <2>1, <4>1 DEF CollectionIsSound, Entry, At
    <3>3. QED BY <3>1, <3>2
  <2>3. QED BY <2>1, <2>2 DEF Collected
<1>9. CASE \E i \in DOMAIN plans : ResumeCollection(i)
  <2>1. PICK i \in DOMAIN plans : ResumeCollection(i)
    BY <1>9
  <2>2. /\ UNCHANGED plans /\ command'.pc = "retire" /\ Guard(plans[i].plan)
        /\ collection'.entry = i /\ collection'.todo = plans[i].plan.delete
    BY <2>1, CollectionResumes
  <2>3. CollectionIsSound'
    BY <1>1, <1>2, <2>2 DEF CollectionIsSound, Entry, At, Guard, Healthy
  <2>4. QED BY <2>2, <2>3 DEF Collected
<1>10. CASE \E o \in collection.todo : Retire(o)
  <2>1. PICK o : Retires(o) /\ Untouched
    BY <1>10, RetireRetires
  <2>2. /\ UNCHANGED <<plans, command>> /\ collection'.entry = collection.entry
        /\ collection'.todo \subseteq collection.todo /\ CollectionIsSound
    BY <2>1, CollectsKind DEF Retires, Collected
  <2>3. CollectionIsSound'
    BY <1>1, <1>2, <2>2 DEF CollectionIsSound, Entry, At
  <2>4. QED BY <2>2, <2>3 DEF Collected
<1>11. QED BY <1>5, <1>6, <1>7, <1>8, <1>9, <1>10, StepsOfCollection

\* Releases appear, and none disappears, while a command of Deployment has the lock.
LEMMA ReleasesStay ==
  ASSUME LifecycleTypes, Begin \/ Forward \/ Backward \/ End \/ Die \/ Service
  PROVE  releases \subseteq releases'
<1>1. ASSUME Begin
      PROVE  releases' = releases
  BY <1>1 DEF Begin, Prepare, Apply, Rollback, disk
<1>2. QED BY <1>1, StepsOfDeployment DEF Rests, Moves, Copies, Recording, Ending, disk

Evident(r, i) ==
  /\ i \in DOMAIN plans /\ ReleaseObject(r) \in plans[i].plan.delete
  /\ \/ plans[i].status # "planned"
     \/ [entry |-> i, object |-> ReleaseObject(r), whole |-> TRUE] \in tombstones

LEMMA EvidenceStays ==
  ASSUME LifecycleTypes, Collected, Collection, NEW r, NEW i, Evident(r, i)
  PROVE  Evident(r, i)'
<1>1. plans \in Seq(PlanEntry) /\ CommandTypes
  BY DEF LifecycleTypes
<1>2. ASSUME command.pc \in {"retire", "erase"}
      PROVE  collection.entry \in DOMAIN plans
  BY <1>1, <1>2, AtACollection, CollectsKind DEF Collected, CollectionIsSound
<1>3. CASE BeginCollection
  <2>1. plans'[i] = plans[i] /\ i \in DOMAIN plans' /\ UNCHANGED tombstones
    BY <1>1, <1>3, PlansAreAppended DEF Evident
  <2>2. QED BY <2>1 DEF Evident
<1>4. ASSUME NEW s, Marks(s), s \in {"retired", "pruned", Entry.status}
      PROVE  Evident(r, i)'
  <2>1. /\ DOMAIN plans' = DOMAIN plans /\ plans'[i].plan = plans[i].plan
        /\ UNCHANGED tombstones
    BY <1>1, <1>4 DEF Marks, Evident
  <2>2. plans[i].status # "planned" => plans'[i].status # "planned"
    BY <1>4 DEF Marks, Evident, Entry
  <2>3. QED BY <2>1, <2>2 DEF Evident
<1>5. CASE RecordRetirement
  BY <1>2, <1>4, <1>5, RetirementIsMarked DEF RecordRetirement, At
<1>6. CASE RecordResult
  BY <1>2, <1>4, <1>6, ResultIsMarked DEF RecordResult, At
<1>7. CASE Proceeds
  <2>1. i = collection.entry /\ At("erase") => plans[i].status # "planned"
    BY <1>7, CollectsKind DEF Proceeds, Collected, CollectionIsSound, Entry
  <2>2. QED BY <1>7, <2>1 DEF Proceeds, Evident
<1>8. CASE \E j \in DOMAIN plans : ResumeCollection(j)
  BY <1>8, CollectionResumes DEF Evident
<1>9. CASE \E o \in collection.todo : Retire(o)
  BY <1>9, RetireRetires DEF Retires, Evident
<1>10. QED BY <1>3, <1>5, <1>6, <1>7, <1>8, <1>9, StepsOfCollection

LEMMA RemovalStep ==
  ASSUME LifecycleTypes, Collected, RemovalIsRecorded, LifecycleNext
  PROVE  RemovalIsRecorded'
<1>1. \A r \in memory.installed \ releases : \E i : Evident(r, i)
  BY DEF RemovalIsRecorded, Evident
<1>2. ASSUME \A r \in (memory.installed \ releases)' : \E i : Evident(r, i)'
      PROVE  RemovalIsRecorded'
  BY <1>2 DEF RemovalIsRecorded, Evident
<1>3. CASE DeploymentStep
  <2>1. UNCHANGED <<plans, tombstones>> /\ releases \subseteq releases'
    BY <1>3, ReleasesStay DEF DeploymentStep
  <2>2. memory'.installed \subseteq memory.installed \cup releases'
    <3>1. CASE memory' = [memory EXCEPT !.promise = Promised]
      BY <3>1 DEF LifecycleTypes
    <3>2. CASE memory' = [memory EXCEPT !.installed = memory.installed \cup releases']
      BY <3>2 DEF LifecycleTypes
    <3>3. QED BY <1>3, <3>1, <3>2 DEF DeploymentStep
  <2>3. QED BY <1>1, <1>2, <2>1, <2>2 DEF Evident
<1>4. CASE Collection
  <2>1. UNCHANGED memory
    BY <1>4, CollectionKeeps DEF Untouched
  <2>2. ASSUME NEW r \in memory.installed, r \in releases, r \notin releases'
        PROVE  \E i : Evident(r, i)'
    <3>1. PICK o : Retires(o)
      BY <1>4, <2>2, CollectionKeeps
    <3>2. o.kind = "release" /\ o.id = r
      BY <2>2, <3>1 DEF Retires
    <3>3. /\ o = ReleaseObject(r) /\ collection.entry \in DOMAIN plans
          /\ o \in plans[collection.entry].plan.delete
      BY <3>1, <3>2, RetiringIsSound DEF Entry
    <3>4. Evident(r, collection.entry)'
      BY <3>1, <3>3 DEF Evident, Retires, Tombstone
    <3>5. QED BY <3>4
  <2>3. QED BY <1>1, <1>2, <1>4, <2>1, <2>2, EvidenceStays
<1>5. QED BY <1>3, <1>4 DEF LifecycleNext

\* While only the last receipt is rolled back with, what is promised is what the last event
\* of all left reversible, and the plans of that event spare it.
LastCommand == command.kind \in {"apply", "rollback"} => command.receipt = Len(receipts)
Greatest(n, k) == \A d \in Events : Rank(d) <= 2 * n + k
ByDeployment(n) ==
  LET p == memory.promise r == receipts[n] IN
  /\ r.result = "deployed" /\ ~r.migration /\ Greatest(n, 1)
  /\ p.release = r.candidate /\ p.releases = {r.candidate, r.previous}
  /\ p.candidate = r.candidate /\ p.build = r.build
ByRollback(n) ==
  LET p == memory.promise r == receipts[n] IN
  /\ r.rollback.status = "restored_previous" /\ ~r.rollback.automatic /\ Greatest(n, 2)
  /\ p.release = r.previous /\ p.releases = {r.previous, r.rollback.displaced}
  /\ \/ p.candidate = NoRelease
     \/ /\ p.candidate = r.candidate /\ r.rollback.displaced = r.candidate
        /\ p.moved => r.previous # r.candidate
        /\ p.build = r.build
\* k is the last deployment, up to receipt n, of the release that n was applied over.
IsPrior(k, n) ==
  LET prior == DeploymentsOf(receipts[n].previous) IN
  k \in prior /\ k <= n /\ \A j \in prior : j <= n => j <= k
Recovers(rollback) == rollback.status = "restored_previous" /\ rollback.automatic
ByRecovery(n) ==
  LET p == memory.promise IN
  /\ Recovers(receipts[n].rollback) /\ Greatest(n, 2)
  /\ p.release = receipts[n].previous
  /\ \E k \in DOMAIN receipts :
       LET r == receipts[k] IN
       /\ IsPrior(k, n) /\ p.releases = {r.candidate, r.previous}
       /\ p.candidate = r.candidate /\ p.build = r.build
Nothing ==
  /\ memory.promise.releases = {memory.promise.release}
  /\ memory.promise.candidate = NoRelease
PromiseIsOfTheLastEvent ==
  Nothing \/ \E n \in DOMAIN receipts : ByDeployment(n) \/ ByRollback(n) \/ ByRecovery(n)

Spares(plan, n) ==
  /\ ~Deletes(plan, "release", receipts[n].candidate)
  /\ ~Deletes(plan, "candidate", receipts[n].candidate)
SparesADeployment(plan, n) ==
  plan.event[2] = 1 /\ ~receipts[n].migration =>
    /\ ~Deletes(plan, "release", receipts[n].previous)
    /\ ~Deletes(plan, "candidate", receipts[n].candidate)
Back(n) ==
  /\ current = receipts[n].previous /\ ~Activating
  /\ command.kind = "rollback" => command.origin = receipts[n].previous
Reverted(rollback) == rollback.status = "restored_previous" /\ ~rollback.automatic
SparesARollback(plan, n) ==
  plan.event[2] = 2 =>
    /\ Reverted(receipts[n].rollback) =>
         \/ receipts[n].rollback.displaced = receipts[n].previous
         \/ receipts[n].rollback.displaced = receipts[n].candidate /\ Spares(plan, n)
    /\ n = Len(receipts) => Back(n)
SparesARecovery(plan, n) ==
  plan.event[2] = 2 /\ Recovers(receipts[n].rollback) =>
    \A k \in DOMAIN receipts : IsPrior(k, n) =>
      /\ ~Deletes(plan, "release", receipts[k].previous)
      /\ ~Deletes(plan, "candidate", receipts[k].candidate)
PlanSpares(plan) ==
  LET n == plan.event[1] IN
  /\ n \in DOMAIN receipts
  /\ SparesADeployment(plan, n) /\ SparesARollback(plan, n) /\ SparesARecovery(plan, n)
PlansSpare == \A i \in DOMAIN plans : PlanSpares(plans[i].plan)

LEMMA LastCommandStep ==
  ASSUME ~AnyReceipt, LifecycleTypes, Collected, LastCommand, LifecycleNext
  PROVE  LastCommand'
<1>1. ASSUME command' \in {NoCommand} \cup Collects
      PROVE  command'.kind \notin {"apply", "rollback"}
  <2>1. CASE command' = NoCommand
    BY <2>1 DEF NoCommand
  <2>2. CASE command' \in Collects
    <3>1. command'.kind = "collect"
      BY <2>2 DEF Collects
    <3>2. QED BY <3>1
  <2>3. QED BY <1>1, <2>1, <2>2
<1>2. CASE Rests
  BY <1>1, <1>2 DEF Rests, LastCommand, disk
<1>3. CASE Moves
  BY <1>3 DEF Moves, LastCommand
<1>4. CASE Copies
  BY <1>4 DEF Copies, LastCommand
<1>5. ASSUME NEW r \in Release, Prepare(r)
      PROVE  LastCommand'
  BY <1>5 DEF Prepare, LastCommand
<1>6. ASSUME NEW r \in Release, Apply(r)
      PROVE  LastCommand'
  BY <1>6, ApplyAppends DEF Appended, LastCommand
<1>7. ASSUME NEW i \in DOMAIN receipts, Rollback(i)
      PROVE  LastCommand'
  BY <1>7, RollbackReverts DEF Reverts, LastCommand, disk
<1>8. CASE Snapshot \/ RolledBack
  BY <1>8, SnapshotRecords, RolledBackRecords
     DEF Continues, Recording, SameReceipts, LastCommand
<1>9. CASE Ending
  BY <1>1, <1>9 DEF Ending, LastCommand
<1>10. CASE Collection
  BY <1>1, <1>10, CollectionKeeps DEF LastCommand
<1>11. QED BY <1>2, <1>3, <1>4, <1>5, <1>6, <1>7, <1>8, <1>9, <1>10, StepsOfDeployment
           DEF LifecycleNext, DeploymentStep, Begin

LEMMA EventsAre ==
  ASSUME NEW n
  PROVE  /\ <<n, 1>> \in Events <=> n \in DOMAIN receipts /\ receipts[n].result = "deployed"
         /\ <<n, 2>> \in Events <=>
              n \in DOMAIN receipts /\ receipts[n].rollback.status = "restored_previous"
  BY DEF Events

\* A step that records no event leaves the last one.
Settles ==
  /\ Events' \subseteq Events
  /\ \A n \in DOMAIN receipts :
       /\ n \in DOMAIN receipts' /\ Static(n)
       /\ receipts[n].result = "deployed" => receipts'[n].result = "deployed"
       /\ receipts'[n].rollback = receipts[n].rollback

LEMMA GreatestStays ==
  ASSUME Events' \subseteq Events, NEW n, NEW k, Greatest(n, k)
  PROVE  Greatest(n, k)'
  BY DEF Greatest, Rank

\* ... nor which deployment a rollback recovers.
LEMMA PriorStays ==
  ASSUME Settles, NEW n \in DOMAIN receipts, NEW k \in DOMAIN receipts, IsPrior(k, n)
  PROVE  IsPrior(k, n)'
<1>1. PICK p : p = receipts[n].previous
  OBVIOUS
<1>2. receipts'[n].previous = p
  BY <1>1 DEF Settles, Static
<1>3. DeploymentsOf(p)' = DeploymentsOf(p)
  <2>1. ASSUME NEW j \in DOMAIN receipts', receipts'[j].result = "deployed"
        PROVE  j \in DOMAIN receipts /\ receipts[j].result = "deployed"
    <3>1. <<j, 1>> \in Events'
      BY <2>1 DEF Events
    <3>2. QED BY <3>1, EventsAre DEF Settles
  <2>2. QED BY <2>1 DEF DeploymentsOf, Settles, Static
<1>4. QED BY <1>1, <1>2, <1>3 DEF IsPrior

LEMMA PromiseStays ==
  ASSUME PromiseIsOfTheLastEvent, Settles, memory'.promise = memory.promise
  PROVE  PromiseIsOfTheLastEvent'
<1>1. CASE Nothing
  BY <1>1 DEF Nothing, PromiseIsOfTheLastEvent
<1>2. ASSUME NEW n \in DOMAIN receipts, ByDeployment(n)
      PROVE  PromiseIsOfTheLastEvent'
  <2>1. ByDeployment(n)'
    BY <1>2, GreatestStays DEF ByDeployment, Settles, Static
  <2>2. QED BY <2>1 DEF Settles, PromiseIsOfTheLastEvent
<1>3. ASSUME NEW n \in DOMAIN receipts, ByRollback(n)
      PROVE  PromiseIsOfTheLastEvent'
  <2>1. ByRollback(n)'
    BY <1>3, GreatestStays DEF ByRollback, Settles, Static
  <2>2. QED BY <2>1 DEF Settles, PromiseIsOfTheLastEvent
<1>4. ASSUME NEW n \in DOMAIN receipts, ByRecovery(n)
      PROVE  PromiseIsOfTheLastEvent'
  <2>1. PICK k \in DOMAIN receipts :
          LET p == memory.promise r == receipts[k] IN
          /\ IsPrior(k, n) /\ p.releases = {r.candidate, r.previous}
          /\ p.candidate = r.candidate /\ p.build = r.build
    BY <1>4 DEF ByRecovery
  <2>2. IsPrior(k, n)' /\ Greatest(n, 2)'
    BY <1>4, <2>1, PriorStays, GreatestStays DEF Settles, ByRecovery
  <2>3. ByRecovery(n)'
    BY <1>4, <2>1, <2>2 DEF ByRecovery, Settles, Static
  <2>4. QED BY <2>3 DEF Settles, PromiseIsOfTheLastEvent
<1>5. QED BY <1>1, <1>2, <1>3, <1>4 DEF PromiseIsOfTheLastEvent

LEMMA UnchangedSettles == ASSUME UNCHANGED receipts PROVE Settles
  BY DEF Settles, Events, Static

LEMMA ApplySettles ==
  ASSUME LifecycleTypes, NEW r \in Release, Appended(r)
  PROVE  Settles
<1>1. receipts \in Seq(ReceiptRecord)
  BY DEF LifecycleTypes, DiskTypes
<1>2. /\ \A n \in DOMAIN receipts : n \in DOMAIN receipts' /\ receipts'[n] = receipts[n]
      /\ \A n \in DOMAIN receipts' : n \in DOMAIN receipts \/ n = Len(receipts')
  BY <1>1 DEF Appended
<1>3. LET new == receipts'[Len(receipts')] IN
        new.result # "deployed" /\ new.rollback.status # "restored_previous"
  BY DEF Appended, NoRollback
<1>4. Events' \subseteq Events
  BY <1>2, <1>3 DEF Events
<1>5. QED BY <1>2, <1>4 DEF Settles, Static

\* The result of an activation that is not "deployed" records no event.
LEMMA OutcomeSettles ==
  ASSUME Recording, receipts[command.receipt].result # "deployed",
         NEW s, s # "deployed", Outcome(s) \/ (SameResults /\ SameRollbacks)
  PROVE  Settles
<1>1. command.receipt \in DOMAIN receipts /\ DOMAIN receipts' = DOMAIN receipts
  BY DEF Recording, Commands, SameReceipts
<1>2. SameRollbacks
  BY DEF Outcome
<1>3. ASSUME NEW n \in DOMAIN receipts
      PROVE  receipts'[n].result = "deployed" <=> receipts[n].result = "deployed"
  <2>1. CASE n = command.receipt
    BY <2>1 DEF Outcome, SameResults
  <2>2. CASE n # command.receipt
    BY <2>2 DEF Outcome, OtherResults, SameResults
  <2>3. QED BY <2>1, <2>2
<1>4. Events' \subseteq Events
  BY <1>1, <1>2, <1>3 DEF Events, SameRollbacks
<1>5. QED BY <1>1, <1>2, <1>3, <1>4 DEF Settles, Recording, SameReceipts, SameRollbacks

\* What the commands promise when they end.
LEMMA NothingIsPromised ==
  ASSUME NEW a, memory'.promise = Retained(a, {}, NoRelease, 0)
  PROVE  PromiseIsOfTheLastEvent'
<1>1. memory'.promise.release = a /\ memory'.promise.releases = {a} \cup {}
      /\ memory'.promise.candidate = NoRelease
  BY DEF Retained
<1>2. {a} \cup {} = {a}
  OBVIOUS
<1>3. QED BY <1>1, <1>2 DEF Nothing, PromiseIsOfTheLastEvent

\* The event of the last receipt is last, unless it is a deployment that is rolled back.
LEMMA TheLastIsGreatest ==
  ASSUME DiskTypes', NEW n, n = Len(receipts'), NEW k \in {1, 2},
         k = 1 => receipts'[n].rollback.status # "restored_previous"
  PROVE  Greatest(n, k)'
<1>1. n \in Nat /\ \A d \in Events' :
        /\ d = <<d[1], d[2]>> /\ d[1] \in Nat /\ d[1] <= n /\ d[2] \in {1, 2}
  BY DEF DiskTypes, Events
<1>2. k = 1 => <<n, 2>> \notin Events'
  BY DEF Events
<1>3. ASSUME NEW d \in Events'
      PROVE  2 * d[1] + d[2] <= 2 * n + k
  <2>1. d[1] = n /\ k = 1 => d[2] = 1
    BY <1>1, <1>2, <1>3
  <2>2. d[1] \in Nat /\ d[1] <= n /\ d[2] \in {1, 2}
    BY <1>1
  <2>3. QED BY <1>1, <2>1, <2>2
<1>4. QED BY <1>3 DEF Greatest, Rank

LEMMA DeployedPromises ==
  ASSUME LifecycleTypes, LifecycleTypes', Installed, LastCommand, Deployed,
         memory'.promise = Promised
  PROVE  PromiseIsOfTheLastEvent'
<1>0. PICK n : n = command.receipt
  OBVIOUS
<1> DEFINE r == receipts'[n]
<1>1. Ending /\ Outcome("deployed") /\ Activating /\ command \in Commands
  BY DeployedRecords DEF Ending, Recording
<1>2. n \in DOMAIN receipts' /\ n = Len(receipts')
  BY <1>0, <1>1 DEF LastCommand, Activating, Commands, Ending, Recording, SameReceipts
<1>3. r.result = "deployed"
  BY <1>0, <1>1 DEF Outcome
<1>4. r.rollback.status = "none"
  BY <1>0, <1>1, <1>2 DEF Outcome, SameRollbacks, Installed, ActivationIsUnrecorded, Receipt, Ending,
                    Recording, SameReceipts
<1>5. Greatest(n, 1)'
  <2>1. DiskTypes'
    BY DEF LifecycleTypes
  <2>2. r.rollback.status # "restored_previous"
    BY <1>4
  <2>3. QED BY <1>2, <2>1, <2>2, TheLastIsGreatest
<1>6. CASE r.migration
  <2>1. Promised = Retained(r.candidate, {}, NoRelease, 0)
    BY <1>0, <1>1, <1>3, <1>6 DEF Promised, ReversibleBy, Only
  <2> HIDE DEF r
  <2>2. QED BY <2>1, NothingIsPromised
<1>7. CASE ~r.migration
  <2>1. Promised = Retained(r.candidate, {r.previous}, r.candidate, r.build)
    BY <1>0, <1>1, <1>3, <1>7 DEF Promised, ReversibleBy
  <2> HIDE DEF r
  <2>2. /\ memory'.promise.release = r.candidate
        /\ memory'.promise.releases = {r.candidate, r.previous}
        /\ memory'.promise.candidate = r.candidate /\ memory'.promise.build = r.build
    <3>1. {r.candidate} \cup {r.previous} = {r.candidate, r.previous}
      OBVIOUS
    <3>2. QED BY <2>1, <3>1 DEF Retained
  <2>3. ByDeployment(n)'
    BY <1>3, <1>5, <1>7, <2>2 DEF ByDeployment, r
  <2>4. QED BY <1>2, <2>3 DEF PromiseIsOfTheLastEvent
<1>8. QED BY <1>6, <1>7

LEMMA RestoredPromises ==
  ASSUME LifecycleTypes, LifecycleTypes', LastCommand, Restored, memory'.promise = Promised
  PROVE  PromiseIsOfTheLastEvent'
<1>0. PICK n : n = command.receipt
  OBVIOUS
<1> DEFINE r == receipts'[n]
<1>1. Ending /\ Aftermath(Moved) /\ ~Activating /\ command \in Commands
  BY RestoredRecords DEF Ending, Recording
<1>2. n \in DOMAIN receipts' /\ n = Len(receipts')
  BY <1>0, <1>1 DEF LastCommand, Activating, Commands, Ending, Recording, SameReceipts
<1>3. r.rollback.status = "restored_previous" /\ ~r.rollback.automatic
  BY <1>0, <1>1 DEF Aftermath, Moved
<1>4. Greatest(n, 2)'
  <2>1. DiskTypes'
    BY DEF LifecycleTypes
  <2>2. QED BY <1>2, <2>1, TheLastIsGreatest
<1>5. CASE r.candidate = r.rollback.displaced /\ candidates[r.candidate] = r.build
  <2> DEFINE p == Retained(r.previous, {r.candidate}, r.candidate, r.build)
  <2>1. memory'.promise = [p EXCEPT !.moved = (r.previous # r.candidate)]
    BY <1>0, <1>1, <1>3, <1>5 DEF Promised
  <2>2. /\ p.release = r.previous /\ p.releases = {r.previous, r.candidate}
        /\ p.candidate = r.candidate /\ p.build = r.build
        /\ "moved" \in DOMAIN p
        /\ \A v : LET q == [p EXCEPT !.moved = v] IN
             /\ q.release = p.release /\ q.releases = p.releases
             /\ q.candidate = p.candidate /\ q.build = p.build /\ q.moved = v
    <3> HIDE DEF r
    <3>1. QED BY DEF Retained
  <2> HIDE DEF p
  <2>3. /\ memory'.promise.release = r.previous
        /\ memory'.promise.releases = {r.previous, r.candidate}
        /\ memory'.promise.candidate = r.candidate /\ memory'.promise.build = r.build
        /\ memory'.promise.moved = (r.previous # r.candidate)
    <3> HIDE DEF r
    <3>1. QED BY <2>1, <2>2
  <2>4. ByRollback(n)'
    BY <1>3, <1>4, <1>5, <2>3 DEF ByRollback
  <2>5. QED BY <1>2, <2>4 DEF PromiseIsOfTheLastEvent
<1>6. CASE ~(r.candidate = r.rollback.displaced /\ candidates[r.candidate] = r.build)
  <2>1. memory'.promise = Retained(r.previous, {r.rollback.displaced}, NoRelease, 0)
    BY <1>0, <1>1, <1>3, <1>6 DEF Promised
  <2>2. /\ memory'.promise.release = r.previous
        /\ memory'.promise.releases = {r.previous, r.rollback.displaced}
        /\ memory'.promise.candidate = NoRelease
    <3> HIDE DEF r
    <3>1. {r.previous} \cup {r.rollback.displaced} = {r.previous, r.rollback.displaced}
      OBVIOUS
    <3>2. QED BY <2>1, <3>1 DEF Retained
  <2>3. ByRollback(n)'
    BY <1>3, <1>4, <2>2 DEF ByRollback
  <2>4. QED BY <1>2, <2>3 DEF PromiseIsOfTheLastEvent
<1>7. QED BY <1>5, <1>6

LEMMA RecordEventPromises ==
  ASSUME LifecycleTypes, LifecycleTypes', Installed, LastCommand, RecordEvent,
         memory'.promise = Promised
  PROVE  PromiseIsOfTheLastEvent'
<1>0. PICK n : n = command.receipt
  OBVIOUS
<1> DEFINE r == receipts'[command.receipt]
<1>1. Ending /\ Aftermath(Automatic) /\ command \in Commands /\ At("event")
  BY RecordEventRecords DEF Ending, Recording
<1>2. Activating
  BY <1>1 DEF Installed, RollbackIsOfAReceipt, Activating, Commands, At
<1>3. command.receipt \in DOMAIN receipts /\ Receipt.result = "rolled_back"
  BY <1>1, <1>2 DEF Commands, Installed, ActivationIsUnrecorded
<1>4. r.result = "rolled_back"
  BY <1>1, <1>3 DEF Aftermath, SameResults, Receipt
<1>5. memory'.promise = Recovered(r.previous)
  BY <1>2, <1>4 DEF Promised
<1>6. PICK p : p = r.previous
  OBVIOUS
<1>7. ASSUME NEW a, Recovered(p) = Only(a)
      PROVE  PromiseIsOfTheLastEvent'
  BY <1>5, <1>6, <1>7, NothingIsPromised DEF Only
<1>8. ASSUME DeploymentsOf(p) # {}
      PROVE  PromiseIsOfTheLastEvent'
  <2>1. PICK k : k = Latest(DeploymentsOf(p))
    OBVIOUS
  <2>2. k \in DeploymentsOf(p) /\ \A j \in DeploymentsOf(p) : j <= k
    <3>1. DeploymentsOf(p) \subseteq DOMAIN receipts
      BY DEF DeploymentsOf
    <3>2. QED BY <1>8, <2>1, <3>1, LatestIsLast DEF LifecycleTypes
  <2>3. k \in DOMAIN receipts /\ receipts[k].candidate = p
    BY <2>2 DEF DeploymentsOf
  <2>4. n = Len(receipts) /\ n \in DOMAIN receipts /\ DOMAIN receipts' = DOMAIN receipts
    BY <1>0, <1>1, <1>2 DEF LastCommand, Activating, Commands, Ending, Recording, SameReceipts
  <2>5. SameReceipts /\ SameResults /\ r.previous = p
    BY <1>1, <1>6 DEF Ending, Recording, Aftermath
  <2>6. DeploymentsOf(p)' = DeploymentsOf(p)
    BY <2>4, <2>5 DEF DeploymentsOf, SameReceipts, SameResults, Static
  <2>7. IsPrior(k, n)'
    <3>1. k <= n
      BY <2>3, <2>4 DEF LifecycleTypes, DiskTypes
    <3>2. QED BY <1>0, <2>2, <2>5, <2>6, <3>1 DEF IsPrior
  <2>8. Greatest(n, 2)'
    <3>1. DiskTypes' /\ n = Len(receipts')
      BY <1>1, <2>4 DEF LifecycleTypes, Ending, Recording, SameReceipts
    <3>2. QED BY <3>1, TheLastIsGreatest
  <2>9. Recovers(receipts'[n].rollback)
    BY <1>0, <1>1 DEF Recovers, Aftermath, Automatic
  <2>10. PICK q : q = receipts[k]
    OBVIOUS
  <2>11. CASE q.migration
    BY <1>7, <1>8, <2>1, <2>10, <2>11 DEF Recovered, ReversibleBy
  <2>12. CASE ~q.migration
    <3>1. memory'.promise = Retained(q.candidate, {q.previous}, q.candidate, q.build)
      BY <1>5, <1>6, <1>8, <2>1, <2>10, <2>12 DEF Recovered, ReversibleBy
    <3>2. /\ memory'.promise.release = q.candidate
          /\ memory'.promise.releases = {q.candidate} \cup {q.previous}
          /\ memory'.promise.candidate = q.candidate /\ memory'.promise.build = q.build
      BY <3>1 DEF Retained
    <3>3. {q.candidate} \cup {q.previous} = {q.candidate, q.previous}
      OBVIOUS
    <3>4. /\ receipts'[k].candidate = q.candidate /\ receipts'[k].previous = q.previous
          /\ receipts'[k].build = q.build /\ q.candidate = p
      BY <2>3, <2>5, <2>10 DEF SameReceipts, Static
    <3>5. receipts'[n].previous = p
      BY <1>0, <2>5
    <3>6. ByRecovery(n)'
      BY <2>3, <2>4, <2>7, <2>8, <2>9, <3>2, <3>3, <3>4, <3>5 DEF ByRecovery
    <3>7. QED BY <2>4, <3>6 DEF PromiseIsOfTheLastEvent
  <2>13. QED BY <2>11, <2>12
<1>9. CASE DeploymentsOf(p) = {}
  BY <1>7, <1>9 DEF Recovered
<1>10. QED BY <1>8, <1>9

LEMMA FailedPromises ==
  ASSUME LifecycleTypes, Installed, PromiseIsOfTheLastEvent, Failed, memory'.promise = Promised
  PROVE  PromiseIsOfTheLastEvent'
<1> DEFINE r == receipts'[command.receipt]
<1>1. Ending /\ Recording /\ (IF Activating THEN Outcome("failed") ELSE Aftermath(Unmoved))
  BY FailedRecords DEF Ending
<1>2. CASE Activating
  <2>1. Settles
    BY <1>1, <1>2, OutcomeSettles DEF Installed, ActivationIsUnrecorded, Receipt
  <2>2. r.result = "failed"
    BY <1>1, <1>2 DEF Outcome
  <2>3. Promised = memory.promise
    BY <1>2, <2>2 DEF Promised
  <2>4. QED BY <2>1, <2>3, PromiseStays
<1>3. CASE ~Activating
  <2>1. r.rollback.status = "rollback_failed"
    BY <1>1, <1>3 DEF Aftermath, Unmoved
  <2>2. Promised = Retained(current, {}, NoRelease, 0)
    BY <1>3, <2>1 DEF Promised, Only
  <2>3. QED BY <2>2, NothingIsPromised
<1>4. QED BY <1>2, <1>3

LEMMA PromiseStep ==
  ASSUME ~AnyReceipt, LifecycleTypes, LifecycleTypes', Installed, Collected, LastCommand,
         PromiseIsOfTheLastEvent, LifecycleNext
  PROVE  PromiseIsOfTheLastEvent'
<1>1. CASE End /\ memory' = [memory EXCEPT !.promise = Promised]
  <2>1. memory'.promise = Promised
    BY <1>1 DEF LifecycleTypes
  <2>2. QED BY <1>1, <2>1, DeployedPromises, RestoredPromises, RecordEventPromises, FailedPromises
            DEF End
<1>2. CASE /\ Begin \/ Forward \/ Backward \/ Die \/ Service
           /\ memory' = [memory EXCEPT !.installed = memory.installed \cup releases']
  <2>1. memory'.promise = memory.promise
    BY <1>2 DEF LifecycleTypes
  <2>2. CASE UNCHANGED receipts
    BY <2>1, <2>2, UnchangedSettles, PromiseStays
  <2>3. ASSUME NEW r \in Release, Apply(r)
        PROVE  PromiseIsOfTheLastEvent'
    BY <2>1, <2>3, ApplyAppends, ApplySettles, PromiseStays
  <2>4. CASE Snapshot
    <3>1. Recording /\ SameResults /\ SameRollbacks
      BY <2>4, SnapshotRecords
    <3>2. Settles
      BY <3>1 DEF Settles, Events, Recording, SameReceipts, SameResults, SameRollbacks
    <3>3. QED BY <2>1, <3>2, PromiseStays
  <2>5. CASE RolledBack
    <3>1. Recording /\ Outcome("rolled_back") /\ At("answer")
      BY <2>5, RolledBackRecords
    <3>2. receipts[command.receipt].result # "deployed"
      BY <3>1 DEF Installed, RollbackIsOfAReceipt, ActivationIsUnrecorded, Activating, At,
                  Recording, Commands, Receipt
    <3>3. Settles
      BY <3>1, <3>2, OutcomeSettles
    <3>4. QED BY <2>1, <3>3, PromiseStays
  <2>6. QED BY <1>2, <2>2, <2>3, <2>4, <2>5, StepsBeforeTheEnd
            DEF Rests, Moves, Copies, Begin, Prepare, Rollback, disk
<1>3. CASE Collection
  BY <1>3, CollectionKeeps, UnchangedSettles, PromiseStays DEF Untouched
<1>4. QED BY <1>1, <1>2, <1>3 DEF LifecycleNext, DeploymentStep

\* Up to receipt n no deployment is added.
SameDeployments(n) ==
  /\ \A k \in DOMAIN receipts : k \in DOMAIN receipts' /\ Static(k)
  /\ \A k \in DOMAIN receipts' : k <= n =>
       /\ k \in DOMAIN receipts
       /\ receipts'[k].result = "deployed" <=> receipts[k].result = "deployed"
KeepsSparing(plan, n) ==
  /\ n \in DOMAIN receipts' /\ Static(n)
  /\ plan.event[2] = 2 =>
       /\ SameDeployments(n)
       /\ Recovers(receipts'[n].rollback) => Recovers(receipts[n].rollback)
  /\ plan.event[2] = 2 /\ n = Len(receipts') => Back(n)'
  /\ \/ receipts'[n].rollback = receipts[n].rollback
     \/ ~Reverted(receipts'[n].rollback)
     \/ plan.event[2] = 2 => receipts'[n].rollback.displaced = receipts[n].previous

LEMMA SparesStay ==
  ASSUME NEW plan, PlanSpares(plan), NEW n, n = plan.event[1], KeepsSparing(plan, n)
  PROVE  PlanSpares(plan)'
<1>1. SparesADeployment(plan, n)'
  BY DEF PlanSpares, SparesADeployment, Static, Deletes, KeepsSparing
<1>2. SparesARollback(plan, n)'
  BY DEF PlanSpares, SparesARollback, Static, Spares, Deletes, KeepsSparing
<1>3. SparesARecovery(plan, n)'
  <2>1. SUFFICES ASSUME plan.event[2] = 2, Recovers(receipts'[n].rollback),
                        NEW k \in DOMAIN receipts', IsPrior(k, n)'
                 PROVE  /\ ~Deletes(plan, "release", receipts'[k].previous)
                        /\ ~Deletes(plan, "candidate", receipts'[k].candidate)
    BY DEF SparesARecovery, Deletes
  <2>2. SameDeployments(n) /\ Recovers(receipts[n].rollback) /\ n \in DOMAIN receipts
    BY <2>1 DEF KeepsSparing, PlanSpares
  <2>3. k <= n /\ k \in DOMAIN receipts /\ Static(k)
    BY <2>1, <2>2 DEF IsPrior, SameDeployments
  <2>4. PICK p : p = receipts[n].previous /\ p = receipts'[n].previous
    BY DEF KeepsSparing, Static
  <2>5. k \in DeploymentsOf(p)' /\ \A j \in DeploymentsOf(p)' : j <= n => j <= k
    BY <2>1, <2>4 DEF IsPrior
  <2>6. \A j : j <= n => (j \in DeploymentsOf(p) <=> j \in DeploymentsOf(p)')
    BY <2>2 DEF DeploymentsOf, SameDeployments, Static
  <2>7. IsPrior(k, n)
    BY <2>3, <2>4, <2>5, <2>6 DEF IsPrior
  <2>8. /\ ~Deletes(plan, "release", receipts[k].previous)
        /\ ~Deletes(plan, "candidate", receipts[k].candidate)
    BY <2>1, <2>2, <2>3, <2>7 DEF PlanSpares, SparesARecovery
  <2>9. QED BY <2>3, <2>8 DEF Static
<1>4. QED BY <1>1, <1>2, <1>3 DEF PlanSpares, KeepsSparing

\* Only an activation records the result of a receipt, and of the last one.
LEMMA DeploymentsStay ==
  ASSUME LastCommand, Recording, SameResults \/ (OtherResults /\ Activating),
         NEW n \in DOMAIN receipts, n = Len(receipts) => ~Activating
  PROVE  SameDeployments(n)
<1>1. /\ \A k \in DOMAIN receipts : k \in DOMAIN receipts' /\ Static(k)
      /\ DOMAIN receipts' = DOMAIN receipts
  BY DEF Recording, SameReceipts
<1>2. CASE SameResults
  BY <1>1, <1>2 DEF SameDeployments, SameResults
<1>3. CASE OtherResults /\ Activating
  <2>1. command.receipt = Len(receipts) /\ n # Len(receipts)
    BY <1>3 DEF LastCommand, Activating
  <2>2. DOMAIN receipts = 1..Len(receipts) /\ Len(receipts) \in Nat
    BY <1>1 DEF Recording, SameReceipts
  <2>3. \A k \in DOMAIN receipts : k <= n => k # command.receipt
    BY <2>1, <2>2
  <2>4. QED BY <1>1, <1>3, <2>3 DEF SameDeployments, OtherResults
<1>4. QED BY <1>2, <1>3

LEMMA PlanSparesDeployment ==
  ASSUME ~AnyReceipt, LifecycleTypes, Installed, LastCommand, DeploymentStep,
         NEW plan, PlanSpares(plan)
  PROVE  PlanSpares(plan)'
<1>1. PICK n : n = plan.event[1]
  OBVIOUS
<1>2. PlanSpares(plan) /\ n \in DOMAIN receipts
  BY <1>1 DEF PlanSpares
<1>3. plan.event[2] = 2 /\ n = Len(receipts) => Back(n)
  BY <1>1, <1>2 DEF PlanSpares, SparesARollback
<1>4. ASSUME UNCHANGED receipts, n = Len(receipts) /\ Back(n) => Back(n)'
      PROVE  PlanSpares(plan)'
  <2>1. KeepsSparing(plan, n)
    BY <1>2, <1>3, <1>4 DEF KeepsSparing, Static, SameDeployments
  <2>2. QED BY <1>1, <1>2, <2>1, SparesStay
<1>5. CASE Rests
  <2>1. Back(n) => Back(n)'
    <3>1. command' = NoCommand => command'.kind = "none"
      BY DEF NoCommand
    <3>2. QED BY <1>5, <3>1 DEF Rests, Back, disk, Activating
  <2>2. QED BY <1>4, <1>5, <2>1 DEF Rests, disk
<1>6. CASE Moves
  <2>1. n = Len(receipts) /\ Back(n) => Back(n)'
    <3>1. ASSUME n = Len(receipts), Back(n)
          PROVE  Back(n)'
      <4>1. command.kind = "rollback" /\ command.receipt = n
        BY <1>6, <3>1 DEF Moves, Back, Activating, Commands, LastCommand
      <4>2. command.target = receipts[n].previous
        BY <4>1 DEF Installed, RollbackIsOfAReceipt, Receipt
      <4>3. QED BY <1>6, <3>1, <4>1, <4>2 DEF Moves, Back, Activating
    <3>2. QED BY <3>1
  <2>2. QED BY <1>4, <1>6, <2>1 DEF Moves
<1>7. CASE Copies
  <2>1. Back(n) => Back(n)'
    BY <1>7 DEF Copies, Back, Activating
  <2>2. QED BY <1>4, <1>7, <2>1 DEF Copies
<1>8. ASSUME NEW r \in Release, Prepare(r)
      PROVE  PlanSpares(plan)'
  <2>1. Back(n) => Back(n)'
    BY <1>8 DEF Prepare, Back, Activating
  <2>2. QED BY <1>4, <1>8, <2>1 DEF Prepare
<1>9. ASSUME NEW r \in Release, Apply(r)
       PROVE  PlanSpares(plan)'
  <2>1. Appended(r) /\ receipts \in Seq(ReceiptRecord)
    BY <1>9, ApplyAppends DEF LifecycleTypes, DiskTypes
  <2>2. n \in DOMAIN receipts' /\ n # Len(receipts') /\ receipts'[n] = receipts[n]
    BY <1>2, <2>1 DEF Appended
  <2>5. SameDeployments(n)
    BY <1>2, <2>1 DEF Appended, SameDeployments, Static
  <2>3. KeepsSparing(plan, n)
    BY <2>2, <2>5 DEF KeepsSparing, Static
  <2>4. QED BY <1>1, <1>2, <2>3, SparesStay
<1>10. ASSUME NEW j \in DOMAIN receipts, Rollback(j)
       PROVE  PlanSpares(plan)'
  <2>1. Reverts(j)
    BY <1>10, RollbackReverts
  <2>2. Back(n) => Back(n)'
    BY <2>1 DEF Reverts, Back, Activating, disk
  <2>3. QED BY <1>4, <2>1, <2>2 DEF Reverts, disk
<1>11. CASE Snapshot \/ RolledBack
  <2>1. PICK l : Continues(l)
    BY <1>11, SnapshotRecords, RolledBackRecords
  <2>2. Recording /\ SameRollbacks
    BY <1>11, SnapshotRecords, RolledBackRecords DEF Outcome
  <2>3. n \in DOMAIN receipts' /\ Len(receipts') = Len(receipts) /\ Static(n)
        /\ receipts'[n].rollback = receipts[n].rollback
    BY <1>2, <2>2 DEF Recording, SameReceipts, SameRollbacks
  <2>4. Back(n) => Back(n)'
    BY <2>1, <2>2, <2>3 DEF Continues, Back, Recording, Static, Activating
  <2>7. SameResults \/ (OtherResults /\ Activating)
    BY <1>11, SnapshotRecords, RolledBackRecords
       DEF Outcome, Installed, RollbackIsOfAReceipt, Activating, At, Recording, Commands
  <2>8. plan.event[2] = 2 => SameDeployments(n)
    BY <1>2, <1>3, <2>2, <2>7, DeploymentsStay DEF Back
  <2>5. KeepsSparing(plan, n)
    BY <1>3, <2>3, <2>4, <2>8 DEF KeepsSparing
  <2>6. QED BY <1>1, <1>2, <2>5, SparesStay
<1>12. CASE End
  <2>1. Ending /\ Recording /\ command' = NoCommand /\ command.receipt \in DOMAIN receipts
    BY <1>12, EndEnds DEF Ending, Recording, Commands
  <2>2. n \in DOMAIN receipts' /\ Len(receipts') = Len(receipts) /\ Static(n)
    BY <1>2, <2>1 DEF Recording, SameReceipts
  <2>3. command'.kind = "none"
    BY <2>1 DEF NoCommand
  <2>4. Back(n) => Back(n)'
    BY <2>1, <2>2, <2>3 DEF Back, Recording, Static, Activating
  <2>5. \/ SameRollbacks
        \/ OtherRollbacks /\ receipts'[command.receipt].rollback = Automatic /\ Activating
        \/ OtherRollbacks /\ receipts'[command.receipt].rollback = Unmoved
        \/ /\ OtherRollbacks /\ receipts'[command.receipt].rollback = Moved
           /\ command.kind = "rollback" /\ command.receipt = Len(receipts)
    BY <1>12, <2>1, DeployedRecords, RestoredRecords, RecordEventRecords, FailedRecords
       DEF End, Outcome, Aftermath, Activating, LastCommand, Recording, Commands, Installed,
           RollbackIsOfAReceipt, At
  <2>6. ~Reverted(Automatic) /\ ~Reverted(Unmoved)
    BY DEF Reverted, Automatic, Unmoved
  <2>7. Moved.displaced = command.origin
    BY DEF Moved
  <2>8. \/ receipts'[n].rollback = receipts[n].rollback
        \/ ~Reverted(receipts'[n].rollback)
        \/ plan.event[2] = 2 => receipts'[n].rollback.displaced = receipts[n].previous
    <3>1. CASE n # command.receipt
      BY <1>2, <2>5, <3>1 DEF SameRollbacks, OtherRollbacks
    <3>2. CASE n = command.receipt
      <4>1. CASE SameRollbacks
        BY <1>2, <4>1 DEF SameRollbacks
      <4>2. CASE \/ receipts'[command.receipt].rollback = Automatic
                 \/ receipts'[command.receipt].rollback = Unmoved
        BY <2>6, <3>2, <4>2
      <4>3. CASE /\ receipts'[command.receipt].rollback = Moved
                 /\ command.kind = "rollback" /\ command.receipt = Len(receipts)
        BY <1>3, <2>7, <3>2, <4>3 DEF Back
      <4>4. QED BY <2>5, <4>1, <4>2, <4>3
    <3>3. QED BY <3>1, <3>2
  <2>11. SameResults \/ (OtherResults /\ Activating)
    BY <1>12, DeployedRecords, RestoredRecords, RecordEventRecords, FailedRecords
       DEF End, Outcome, Aftermath
  <2>12. plan.event[2] = 2 => SameDeployments(n)
    BY <1>2, <1>3, <2>1, <2>11, DeploymentsStay DEF Back
  <2>13. ~Recovers(Unmoved) /\ ~Recovers(Moved)
    BY DEF Recovers, Unmoved, Moved
  <2>14. plan.event[2] = 2 /\ Recovers(receipts'[n].rollback) => Recovers(receipts[n].rollback)
    <3>1. CASE n # command.receipt
      BY <1>2, <2>5, <3>1 DEF SameRollbacks, OtherRollbacks
    <3>2. CASE n = command.receipt
      <4>1. plan.event[2] = 2 /\ Activating => n # Len(receipts)
        BY <1>3 DEF Back
      <4>2. Activating => command.receipt = Len(receipts)
        BY DEF LastCommand, Activating
      <4>3. QED BY <1>2, <2>5, <2>13, <3>2, <4>1, <4>2 DEF SameRollbacks
    <3>3. QED BY <3>1, <3>2
  <2>9. KeepsSparing(plan, n)
    BY <1>3, <2>2, <2>4, <2>8, <2>12, <2>14 DEF KeepsSparing
  <2>10. QED BY <1>1, <1>2, <2>9, SparesStay
<1>13. CASE Begin
  BY <1>8, <1>9, <1>10, <1>13 DEF Begin
<1>14. QED BY <1>5, <1>6, <1>7, <1>13, <1>11, <1>12, StepsOfDeployment DEF DeploymentStep

LEMMA PlansSpareDeployment ==
  ASSUME ~AnyReceipt, LifecycleTypes, Installed, LastCommand, PlansSpare, DeploymentStep
  PROVE  PlansSpare'
<1>1. UNCHANGED plans
  BY DEF DeploymentStep
<1>2. ASSUME NEW i \in DOMAIN plans
      PROVE  PlanSpares(plans[i].plan)'
  <2>1. PICK plan : plan = plans[i].plan
    OBVIOUS
  <2>2. PlanSpares(plan)'
    BY <2>1, PlanSparesDeployment DEF PlansSpare
  <2>3. QED BY <1>1, <2>1, <2>2
<1>3. QED BY <1>1, <1>2 DEF PlansSpare

LEMMA PlanSparesLemma ==
  ASSUME LifecycleTypes, Eligible
  PROVE  /\ LastEvent[1] \in DOMAIN receipts
         /\ SparesADeployment(Plan, LastEvent[1]) /\ SparesARecovery(Plan, LastEvent[1])
         /\ LastEvent[2] = 2 =>
              /\ current = receipts[LastEvent[1]].previous
              /\ Reverted(receipts[LastEvent[1]].rollback) => Spares(Plan, LastEvent[1])
                   /\ receipts[LastEvent[1]].rollback.displaced = receipts[LastEvent[1]].candidate
<1>1. PICK e : e = LastEvent
  OBVIOUS
<1>2. PICK r : r = receipts[e[1]]
  OBVIOUS
<1>3. e \in Matching /\ Plan.event = e /\ Plan.delete = Collectible
  BY <1>1, PlanIsARecord, LastEventIsLast DEF LifecycleTypes
<1>4. e[1] \in DOMAIN receipts /\ EventRelease(e) = current
  BY <1>3, EventsAreRanked DEF Matching, LifecycleTypes
<1>5. ASSUME NEW o \in Collectible
      PROVE  /\ o.kind = "release" => o.id \notin {current, Transition.peer}
             /\ o.kind = "candidate" => o.id # Transition.candidate
  BY DEF Collectible, ReleaseObject, CandidateObject
<1>6. CASE e[2] = 1
  <2>1. ~r.migration => Transition.peer = r.previous /\ Transition.candidate = r.candidate
    BY <1>1, <1>2, <1>6 DEF Transition, Reversible, Frontier
  <2>2. SparesADeployment(Plan, e[1])
    BY <1>2, <1>3, <1>5, <2>1 DEF SparesADeployment, Deletes
  <2>3. SparesARecovery(Plan, e[1])
    BY <1>3, <1>6 DEF SparesARecovery
  <2>4. QED BY <1>1, <1>4, <1>6, <2>2, <2>3
<1>7. CASE e[2] = 2
  <2>1. current = r.previous
    BY <1>2, <1>4, <1>7 DEF EventRelease
  <2>2. ASSUME Reverted(r.rollback)
        PROVE  Spares(Plan, e[1]) /\ r.rollback.displaced = r.candidate
    <3>1. Transition = Frontier(r.rollback.displaced, r.candidate, r.build) /\ Explicit
      BY <1>1, <1>2, <1>7, <2>2 DEF Transition, Explicit, Reverted
    <3>2. Transition.peer = r.rollback.displaced /\ Transition.candidate = r.candidate
      BY <3>1 DEF Frontier
    <3>3. r.rollback.displaced = r.candidate
      BY <3>1, <3>2 DEF Eligible
    <3>4. QED BY <1>2, <1>3, <1>5, <3>2, <3>3 DEF Spares, Deletes
  <2>3. SparesADeployment(Plan, e[1])
    BY <1>3, <1>7 DEF SparesADeployment
  <2>5. ASSUME Recovers(r.rollback), NEW k \in DOMAIN receipts, IsPrior(k, e[1])
        PROVE  /\ ~Deletes(Plan, "release", receipts[k].previous)
               /\ ~Deletes(Plan, "candidate", receipts[k].candidate)
    <3>1. k \in DeploymentsOf(current) /\ DeploymentsOf(current) \subseteq DOMAIN receipts
      BY <1>2, <2>1, <2>5 DEF IsPrior, DeploymentsOf
    <3>2. ASSUME NEW j \in DeploymentsOf(current)
          PROVE  j <= k
      <4>1. PICK d : d = <<j, 1>>
        OBVIOUS
      <4>2. d \in Matching
        BY <4>1, EventsAre DEF Matching, EventRelease, DeploymentsOf
      <4>3. Rank(d) <= Rank(e) /\ d[1] = j /\ d[2] = 1
        BY <1>1, <1>3, <4>1, <4>2, LastEventIsLast DEF LifecycleTypes
      <4>4. j \in Nat /\ e[1] \in Nat
        BY <1>3, <4>2, <4>3, EventsAreRanked DEF Matching, LifecycleTypes
      <4>5. j <= e[1]
        BY <1>7, <4>3, <4>4 DEF Rank
      <4>6. QED BY <1>2, <2>1, <2>5, <4>5 DEF IsPrior
    <3>3. Latest(DeploymentsOf(current)) = k
      <4>1. DOMAIN receipts \subseteq Nat
        BY DEF LifecycleTypes, DiskTypes
      <4>2. QED BY <3>1, <3>2, <4>1, LatestIs
    <3>4. Transition = Reversible(k)
      BY <1>1, <1>2, <1>7, <2>5, <3>1, <3>3 DEF Transition, Recovers
    <3>5. Transition.peer = receipts[k].previous /\ Transition.candidate = receipts[k].candidate
      BY <3>4 DEF Reversible, Frontier
    <3>6. QED BY <1>3, <1>5, <3>5 DEF Deletes
  <2>6. SparesARecovery(Plan, e[1])
    BY <1>2, <2>5 DEF SparesARecovery
  <2>4. QED BY <1>1, <1>2, <1>4, <2>1, <2>2, <2>3, <2>6
<1>8. e[2] \in {1, 2}
  BY <1>3, EventsAreRanked DEF Matching, LifecycleTypes
<1>9. QED BY <1>6, <1>7, <1>8

LEMMA PlansSpareCollection ==
  ASSUME LifecycleTypes, Collected, PlansSpare, Collection
  PROVE  PlansSpare'
<1>1. UNCHANGED <<current, receipts>>
  BY CollectionKeeps DEF Untouched
<1>2. command'.kind \notin {"apply", "rollback"}
  <2>1. CASE command' = NoCommand
    BY <2>1 DEF NoCommand
  <2>2. CASE command' \in Collects
    <3>1. command'.kind = "collect"
      BY <2>2 DEF Collects
    <3>2. QED BY <3>1
  <2>3. QED BY <2>1, <2>2, CollectionKeeps
<1>3. ASSUME NEW plan, PlanSpares(plan)
      PROVE  PlanSpares(plan)'
  <2>1. PICK n : n = plan.event[1]
    OBVIOUS
  <2>2. n \in DOMAIN receipts' /\ Static(n) /\ receipts'[n].rollback = receipts[n].rollback
    BY <1>1, <1>3, <2>1 DEF PlanSpares, Static
  <2>3. plan.event[2] = 2 /\ n = Len(receipts') => Back(n)'
    BY <1>1, <1>2, <1>3, <2>1 DEF PlanSpares, SparesARollback, Back, Activating
  <2>6. SameDeployments(n)
    BY <1>1 DEF SameDeployments, Static
  <2>4. KeepsSparing(plan, n)
    BY <2>2, <2>3, <2>6 DEF KeepsSparing
  <2>5. QED BY <1>3, <2>1, <2>4, SparesStay
<1>4. plans \in Seq(PlanEntry) /\ CommandTypes
  BY DEF LifecycleTypes
<1>5. CASE BeginCollection
  <2>1. \A i \in DOMAIN plans' : i \in DOMAIN plans \/ i = Len(plans')
    BY <1>4, <1>5, PlansAreAppended
  <2>2. plans'[Len(plans')].plan = Plan /\ Eligible /\ Plan.event = LastEvent
    BY <1>5, PlansAreAppended, PlanIsARecord
  <2>3. PICK plan : plan = Plan
    OBVIOUS
  <2>4. PICK n : n = LastEvent[1]
    OBVIOUS
  <2>9. SparesARecovery(plan, n)
    BY <2>2, <2>3, <2>4, PlanSparesLemma
  <2>5. /\ n \in DOMAIN receipts /\ SparesADeployment(plan, n)
        /\ plan.event[1] = n /\ plan.event[2] = LastEvent[2]
        /\ plan.event[2] = 2 =>
              /\ current = receipts[n].previous
              /\ Reverted(receipts[n].rollback) =>
                   Spares(plan, n) /\ receipts[n].rollback.displaced = receipts[n].candidate
    BY <2>2, <2>3, <2>4, PlanSparesLemma
  <2>6. PlanSpares(plan)'
    <3>1. SparesARecovery(plan, n)'
      BY <1>1, <2>9 DEF SparesARecovery, Deletes, IsPrior, DeploymentsOf
    <3>2. QED BY <1>1, <1>2, <2>5, <3>1
              DEF PlanSpares, SparesADeployment, SparesARollback, Spares, Deletes, Back, Activating
  <2>7. ASSUME NEW i \in DOMAIN plans'
        PROVE  PlanSpares(plans[i].plan)'
    <3>1. PICK q : q = plans'[i].plan
      OBVIOUS
    <3>2. CASE i \in DOMAIN plans
      <4>1. q = plans[i].plan
        BY <1>5, <3>1, <3>2, PlansAreAppended
      <4>2. PlanSpares(q)
        BY <3>2, <4>1 DEF PlansSpare
      <4>3. PlanSpares(q)'
        BY <1>3, <4>2
      <4>4. QED BY <3>1, <4>3
    <3>3. CASE i = Len(plans')
      BY <2>2, <2>3, <2>6, <3>3
    <3>4. QED BY <2>1, <3>2, <3>3
  <2>8. QED BY <2>7 DEF PlansSpare
<1>6. ASSUME DOMAIN plans' = DOMAIN plans, \A i \in DOMAIN plans : plans'[i].plan = plans[i].plan
      PROVE  PlansSpare'
  BY <1>3, <1>6 DEF PlansSpare
<1>7. ASSUME NEW s, Marks(s)
      PROVE  PlansSpare'
  BY <1>4, <1>6, <1>7 DEF Marks
<1>8. ASSUME command.pc \in {"retire", "erase"}
      PROVE  collection.entry \in DOMAIN plans
  BY <1>4, <1>8, AtACollection, CollectsKind DEF Collected, CollectionIsSound
<1>9. CASE RecordRetirement
  BY <1>7, <1>8, <1>9, RetirementIsMarked DEF RecordRetirement, At
<1>10. CASE RecordResult
  BY <1>7, <1>8, <1>10, ResultIsMarked DEF RecordResult, At
<1>11. CASE UNCHANGED plans
  BY <1>6, <1>11
<1>12. QED BY <1>5, <1>9, <1>10, <1>11, StepsOfCollection, CollectionResumes, RetireRetires
           DEF Proceeds, Retires

LifecycleInv == LifecycleTypes /\ Installed /\ Collected /\ RemovalIsRecorded
FrontierInv == LifecycleInv /\ LastCommand /\ PromiseIsOfTheLastEvent /\ PlansSpare

LEMMA LifecycleStarts ==
  ASSUME LifecycleInit
  PROVE  FrontierInv
<1> USE DEF LifecycleInit, Init
<1>1. DiskTypes /\ Accounts
  <2>1. receipts \in Seq(ReceiptRecord)
    OBVIOUS
  <2>2. candidates \in [Release -> Nat]
    OBVIOUS
  <2>3. Accounts
    BY DeploymentAssumption DEF Accounts, Serves, JournalRecord, IsActive
  <2>4. releases \subseteq Release /\ current \in Release
    BY DeploymentAssumption
  <2>5. QED BY <2>1, <2>2, <2>3, <2>4 DEF DiskTypes
<1>2. memory = [promise |-> Retained(First, {}, NoRelease, 0), installed |-> {First}]
  OBVIOUS
<1>3. /\ memory.promise = Retained(First, {}, NoRelease, 0) /\ memory.installed = {First}
      /\ memory = [promise |-> memory.promise, installed |-> memory.installed]
  BY <1>2
<1>4. /\ memory.promise.release = First /\ memory.promise.releases = {First} \cup {}
      /\ memory.promise.candidate = NoRelease /\ memory.promise \in PromiseRecord
  <2> HIDE DEF LifecycleInit, Init
  <2>1. First \in Release /\ {} \in SUBSET Absence /\ NoRelease \in Absence /\ 0 \in Nat
    BY DeploymentAssumption DEF Absence
  <2>2. Retained(First, {}, NoRelease, 0) \in PromiseRecord
    BY <2>1, RetainedTypes
  <2>3. QED BY <1>3, <2>2 DEF Retained
<1>5. {First} \cup {} = {First}
  OBVIOUS
<1>6. Nothing
  BY <1>4, <1>5 DEF Nothing
<1>7. memory \in [promise : PromiseRecord, installed : SUBSET Release]
  <2> HIDE DEF LifecycleInit, Init
  <2>1. memory.installed \in SUBSET Release
    BY <1>3, DeploymentAssumption
  <2>2. QED BY <1>3, <1>4, <2>1
<1>8. plans \in Seq(PlanEntry) /\ collection \in CollectionRecord /\ CommandTypes
  BY DEF NoCollection, CollectionRecord, CommandTypes
<1>9. LifecycleTypes
  BY <1>1, <1>7, <1>8 DEF LifecycleTypes
<1>10. command.kind = "none"
  BY DEF NoCommand
<1>11. Installed
  BY <1>10 DEF Installed, BuildsAreNumbered, CommandIsInstalled, ActivationIsUnrecorded,
               RollbackIsOfAReceipt, Activating
<1>12. Collected /\ LastCommand /\ PlansSpare
  BY <1>10 DEF Collected, LastCommand, PlansSpare
<1>13. RemovalIsRecorded
  BY <1>3 DEF RemovalIsRecorded
<1>14. QED BY <1>6, <1>9, <1>11, <1>12, <1>13
           DEF FrontierInv, LifecycleInv, PromiseIsOfTheLastEvent

LEMMA LifecycleStutters ==
  ASSUME UNCHANGED allVars
  PROVE  /\ LifecycleInv => LifecycleInv'
         /\ FrontierInv => FrontierInv'
<1> USE DEF allVars, vars, lifecycle
<1>1. Accounts => Accounts'
  BY DEF Accounts, Serves, IsActive
<1>2. LifecycleTypes => LifecycleTypes'
  BY <1>1 DEF LifecycleTypes, DiskTypes, CommandTypes, Commands
<1>3. Installed => Installed'
  BY DEF Installed, BuildsAreNumbered, CommandIsInstalled, ActivationIsUnrecorded,
         RollbackIsOfAReceipt, Activating, Receipt, At
<1>4. UNCHANGED <<Matching, LastEvent>>
  BY EventsStay
<1>5. Collected => Collected'
  BY <1>4 DEF Collected, PlanIsSound, CollectionIsSound, Entry, At
<1>6. RemovalIsRecorded => RemovalIsRecorded'
  BY DEF RemovalIsRecorded
<1>7. LastCommand => LastCommand'
  BY DEF LastCommand
<1>8. PromiseIsOfTheLastEvent => PromiseIsOfTheLastEvent'
  BY UnchangedSettles, PromiseStays
<1>9. PlansSpare => PlansSpare'
  <2>1. ASSUME NEW plan, PlanSpares(plan)
        PROVE  PlanSpares(plan)'
    <3>1. KeepsSparing(plan, plan.event[1])
      BY <2>1 DEF KeepsSparing, PlanSpares, SparesARollback, Back, Activating, Static,
                  SameDeployments
    <3>2. QED BY <2>1, <3>1, SparesStay
  <2>2. QED BY <2>1 DEF PlansSpare
<1>10. QED BY <1>2, <1>3, <1>5, <1>6, <1>7, <1>8, <1>9 DEF LifecycleInv, FrontierInv

LEMMA LifecycleStep ==
  ASSUME LifecycleInv, [LifecycleNext]_allVars
  PROVE  LifecycleInv'
<1>1. CASE LifecycleNext
  <2>1. LifecycleTypes'
    BY <1>1, DeploymentStepTypes, CollectionStepTypes DEF LifecycleInv, LifecycleNext
  <2>2. Installed'
    BY <1>1, InstalledDeployment, InstalledCollection DEF LifecycleInv, LifecycleNext
  <2>3. Collected'
    BY <1>1, CollectedDeployment, CollectedCollection DEF LifecycleInv, LifecycleNext
  <2>4. RemovalIsRecorded'
    BY <1>1, RemovalStep DEF LifecycleInv
  <2>5. QED BY <2>1, <2>2, <2>3, <2>4 DEF LifecycleInv
<1>2. CASE UNCHANGED allVars
  BY <1>2, LifecycleStutters
<1>3. QED BY <1>1, <1>2

LEMMA FrontierStep ==
  ASSUME ~AnyReceipt, FrontierInv, [LifecycleNext]_allVars
  PROVE  FrontierInv'
<1>1. CASE LifecycleNext
  <2>1. LifecycleInv'
    BY LifecycleStep DEF FrontierInv
  <2>2. LastCommand' /\ PromiseIsOfTheLastEvent'
    BY <1>1, <2>1, LastCommandStep, PromiseStep DEF FrontierInv, LifecycleInv
  <2>3. PlansSpare'
    BY <1>1, PlansSpareDeployment, PlansSpareCollection
       DEF FrontierInv, LifecycleInv, LifecycleNext
  <2>4. QED BY <2>1, <2>2, <2>3 DEF FrontierInv
<1>2. CASE UNCHANGED allVars
  BY <1>2, LifecycleStutters
<1>3. QED BY <1>1, <1>2

\* What a plan may retire while the promise is in force.
PromiseStands ==
  InForce =>
    /\ memory.promise.releases \cap releases \subseteq releases'
    /\ memory.promise.moved => CandidateStays

LEMMA RetireSparesThePromise ==
  ASSUME FrontierInv, NEW o, Retires(o)
  PROVE  PromiseStands
<1> SUFFICES ASSUME InForce
             PROVE  /\ memory.promise.releases \cap releases \subseteq releases'
                    /\ memory.promise.moved => CandidateStays
  BY DEF PromiseStands
<1>1. PICK plan : plan = Entry.plan
  OBVIOUS
<1>2. PICK e : e = LastEvent
  OBVIOUS
<1>3. /\ plan.event = e /\ PlanSpares(plan) /\ o \in plan.delete
      /\ o.kind = "release" => o.id # current
  <2>1. command.kind = "collect" /\ collection.entry \in DOMAIN plans
    BY CollectsKind DEF Retires, FrontierInv, LifecycleInv, Collected, CollectionIsSound
  <2>2. plan.event = e /\ PlanSpares(plan)
    BY <1>1, <1>2, <2>1
       DEF FrontierInv, LifecycleInv, Collected, CollectionIsSound, PlansSpare, Entry
  <2>3. QED BY <1>1, <2>2, RetiringIsSound DEF FrontierInv, LifecycleInv
<1>4. ASSUME NEW r, r \in releases, o.kind = "release" => o.id # r
      PROVE  r \in releases'
  BY <1>4 DEF Retires
<1>5. ASSUME NEW c \in Release, o.kind = "candidate" => o.id # c
      PROVE  candidates'[c] = candidates[c]
  <2>1. candidates \in [Release -> Nat]
    BY DEF FrontierInv, LifecycleInv, LifecycleTypes, DiskTypes
  <2>2. QED BY <1>5, <2>1 DEF Retires
<1>6. ASSUME NEW n \in DOMAIN receipts, NEW k \in {1, 2}, <<n, k>> \in Events,
             EventRelease(<<n, k>>) = current, Greatest(n, k)
      PROVE  plan.event[1] = n /\ plan.event[2] = k
  <2>1. PICK d : d = <<n, k>>
    OBVIOUS
  <2>2. d \in Matching /\ \A x \in Matching : Rank(x) <= Rank(d)
    BY <1>6, <2>1 DEF Matching, Greatest, Rank
  <2>3. LastEvent = d
    BY <2>2, LastEventIs DEF FrontierInv, LifecycleInv, LifecycleTypes
  <2>4. QED BY <1>2, <1>3, <2>1, <2>3
<1>7. \A n \in DOMAIN receipts : receipts[n].candidate \in Release
  <2>1. \A n \in DOMAIN receipts : receipts[n] \in ReceiptRecord
    BY DEF FrontierInv, LifecycleInv, LifecycleTypes, DiskTypes
  <2>2. QED BY <2>1 DEF ReceiptRecord
<1>8. CASE Nothing
  BY <1>3, <1>4, <1>8 DEF Nothing, InForce, CandidateStays
<1>9. ASSUME NEW n \in DOMAIN receipts, ByDeployment(n)
      PROVE  /\ memory.promise.releases \cap releases \subseteq releases'
             /\ memory.promise.moved => CandidateStays
  <2>1. /\ memory.promise.release = receipts[n].candidate
        /\ memory.promise.releases = {receipts[n].candidate, receipts[n].previous}
        /\ memory.promise.candidate = receipts[n].candidate
        /\ receipts[n].candidate = current /\ ~receipts[n].migration
    BY <1>9 DEF ByDeployment, InForce
  <2>2. <<n, 1>> \in Events /\ EventRelease(<<n, 1>>) = current /\ Greatest(n, 1)
    BY <1>9, <2>1, EventsAre DEF ByDeployment, EventRelease
  <2>3. plan.event[1] = n /\ plan.event[2] = 1
    BY <1>6, <2>2
  <2>4. /\ o.kind = "release" => o.id # receipts[n].previous
        /\ o.kind = "candidate" => o.id # receipts[n].candidate
    BY <1>3, <2>1, <2>3 DEF PlanSpares, SparesADeployment, Deletes
  <2>5. QED BY <1>3, <1>4, <1>5, <1>7, <2>1, <2>4 DEF CandidateStays
<1>10. ASSUME NEW n \in DOMAIN receipts, ByRollback(n)
       PROVE  /\ memory.promise.releases \cap releases \subseteq releases'
              /\ memory.promise.moved => CandidateStays
  <2> DEFINE r == receipts[n]
  <2>1. /\ r.previous = current /\ Reverted(r.rollback)
        /\ memory.promise.releases = {r.previous, r.rollback.displaced}
        /\ \/ memory.promise.candidate = NoRelease
           \/ /\ memory.promise.candidate = r.candidate /\ r.rollback.displaced = r.candidate
              /\ memory.promise.moved => r.previous # r.candidate
    BY <1>10 DEF ByRollback, InForce, Reverted
  <2>2. <<n, 2>> \in Events /\ EventRelease(<<n, 2>>) = current /\ Greatest(n, 2)
    <3>1. <<n, 2>> \in Events
      BY <2>1, EventsAre DEF Reverted
    <3>2. EventRelease(<<n, 2>>) = current
      BY <2>1 DEF EventRelease
    <3>3. QED BY <1>10, <3>1, <3>2 DEF ByRollback
  <2>3. plan.event[1] = n /\ plan.event[2] = 2
    BY <1>6, <2>2
  <2>4. \/ r.rollback.displaced = r.previous
        \/ r.rollback.displaced = r.candidate /\ Spares(plan, n)
    BY <1>3, <2>1, <2>3 DEF PlanSpares, SparesARollback
  <2>5. r.rollback.displaced = r.previous \/ (o.kind = "release" => o.id # r.rollback.displaced)
    BY <1>3, <2>4 DEF Spares, Deletes
  <2>6. r.rollback.displaced = r.previous \/ (o.kind = "candidate" => o.id # r.candidate)
    BY <1>3, <2>4 DEF Spares, Deletes
  <2>7. r.candidate \in Release
    BY <1>7
  <2> HIDE DEF r
  <2>8. memory.promise.releases \cap releases \subseteq releases'
    BY <1>3, <1>4, <2>1, <2>5
  <2>9. memory.promise.moved => CandidateStays
    BY <1>5, <2>1, <2>6, <2>7 DEF CandidateStays
  <2>10. QED BY <2>8, <2>9
<1>11. ASSUME NEW n \in DOMAIN receipts, ByRecovery(n)
       PROVE  /\ memory.promise.releases \cap releases \subseteq releases'
              /\ memory.promise.moved => CandidateStays
  <2>1. PICK k \in DOMAIN receipts :
          LET p == memory.promise r == receipts[k] IN
          /\ IsPrior(k, n) /\ p.releases = {r.candidate, r.previous}
          /\ p.candidate = r.candidate /\ p.build = r.build
    BY <1>11 DEF ByRecovery
  <2>2. receipts[n].previous = current /\ receipts[k].candidate = current
    BY <1>11, <2>1 DEF ByRecovery, InForce, IsPrior, DeploymentsOf
  <2>3. <<n, 2>> \in Events /\ EventRelease(<<n, 2>>) = current /\ Greatest(n, 2)
    <3>1. Recovers(receipts[n].rollback) /\ Greatest(n, 2)
      BY <1>11 DEF ByRecovery
    <3>2. <<n, 2>> \in Events
      BY <3>1, EventsAre DEF Recovers
    <3>3. EventRelease(<<n, 2>>) = current
      BY <2>2 DEF EventRelease
    <3>4. QED BY <3>1, <3>2, <3>3
  <2>4. plan.event[1] = n /\ plan.event[2] = 2
    BY <1>6, <2>3
  <2>5. /\ o.kind = "release" => o.id # receipts[k].previous
        /\ o.kind = "candidate" => o.id # receipts[k].candidate
    BY <1>3, <1>11, <2>1, <2>4 DEF PlanSpares, SparesARecovery, Deletes, ByRecovery
  <2>6. QED BY <1>3, <1>4, <1>5, <1>7, <2>1, <2>2, <2>5 DEF CandidateStays
<1>12. QED BY <1>8, <1>9, <1>10, <1>11 DEF FrontierInv, PromiseIsOfTheLastEvent

\* A candidate directory appears only where there is none.
LEMMA PrepareSparesThePromise ==
  ASSUME FrontierInv, NEW r \in Release, Prepare(r)
  PROVE  CandidateStays
<1>1. \/ memory.promise.candidate = NoRelease
      \/ memory.promise.build # 0
  BY DEF FrontierInv, LifecycleInv, Installed, BuildsAreNumbered, PromiseIsOfTheLastEvent, Nothing,
         ByDeployment, ByRollback, ByRecovery
<1>2. /\ candidates[r] = 0 /\ candidates \in [Release -> Nat]
      /\ candidates' = [candidates EXCEPT ![r] = candidates'[r]]
  BY PrepareTypes DEF FrontierInv, LifecycleInv, LifecycleTypes, DiskTypes
<1>3. memory.promise.candidate # NoRelease => memory.promise.candidate \in Release
  <2>1. memory.promise \in PromiseRecord
    BY DEF FrontierInv, LifecycleInv, LifecycleTypes
  <2>2. QED BY <2>1 DEF PromiseRecord, Absence
<1>4. QED BY <1>1, <1>2, <1>3 DEF CandidateStays

LEMMA PromiseStandsStep ==
  ASSUME FrontierInv, [LifecycleNext]_allVars
  PROVE  PromiseStands
<1>1. ASSUME releases \subseteq releases', CandidateStays
      PROVE  PromiseStands
  BY <1>1 DEF PromiseStands
<1>2. ASSUME UNCHANGED candidates
      PROVE  CandidateStays
  BY <1>2 DEF CandidateStays
<1>3. CASE DeploymentStep
  <2>1. releases \subseteq releases'
    BY <1>3, ReleasesStay DEF DeploymentStep, FrontierInv, LifecycleInv
  <2>2. CASE Begin
    BY <1>1, <1>2, <2>1, <2>2, PrepareSparesThePromise DEF Begin, Apply, Rollback, disk
  <2>3. CASE ~Begin
    BY <1>1, <1>2, <1>3, <2>1, <2>3, StepsOfDeployment
       DEF DeploymentStep, FrontierInv, LifecycleInv, Rests, Moves, Copies, Recording, Ending, disk
  <2>4. QED BY <2>2, <2>3
<1>4. CASE Collection
  BY <1>1, <1>2, <1>4, CollectionKeeps, RetireSparesThePromise DEF FrontierInv, LifecycleInv
<1>5. CASE UNCHANGED allVars
  BY <1>1, <1>2, <1>5 DEF allVars, vars
<1>6. QED BY <1>3, <1>4, <1>5 DEF LifecycleNext

\* A release that was installed and is no longer there left a tombstone or a plan whose
\* retirement is recorded, however often collections die and are applied again, and for
\* every number of releases, deployments and plans.
THEOREM RemovalsAreRecorded == LifecycleSpec => []RemovalIsRecorded
<1>1. LifecycleInit => LifecycleInv
  BY LifecycleStarts DEF FrontierInv
<1>2. LifecycleInv /\ [LifecycleNext]_allVars => LifecycleInv'
  BY LifecycleStep
<1>3. LifecycleInv => RemovalIsRecorded
  BY DEF LifecycleInv
<1>4. QED BY <1>1, <1>2, <1>3, PTL DEF LifecycleSpec

\* The link names a release that is installed, whichever receipt is rolled back with and
\* whatever a collection retires.
THEOREM TheLinkIsInstalled == LifecycleSpec => [](current \in releases)
<1>1. LifecycleInit => LifecycleInv
  BY LifecycleStarts DEF FrontierInv
<1>2. LifecycleInv /\ [LifecycleNext]_allVars => LifecycleInv'
  BY LifecycleStep
<1>3. LifecycleInv => current \in releases
  BY DEF LifecycleInv, Installed
<1>4. QED BY <1>1, <1>2, <1>3, PTL DEF LifecycleSpec

\* While rollbacks name the last receipt, no collection, newly planned or applied again,
\* takes what the last event left reversible: the releases it names, and its candidate
\* unless the rollback restored the very release it displaced.  After an automatic rollback
\* these are what the last deployment of the restored release left.
THEOREM TheFrontierIsRetained ==
  ASSUME ~AnyReceipt
  PROVE  LifecycleSpec => FrontierIsRetained
<1>1. LifecycleInit => FrontierInv
  BY LifecycleStarts
<1>2. FrontierInv /\ [LifecycleNext]_allVars => FrontierInv'
  BY FrontierStep
<1>3. FrontierInv /\ FrontierInv' /\ [LifecycleNext]_allVars =>
        [/\ current' \in releases'
         /\ InForce =>
              /\ memory.promise.releases \cap releases \subseteq releases'
              /\ memory.promise.moved => CandidateStays]_allVars
  BY PromiseStandsStep DEF PromiseStands, FrontierInv, LifecycleInv, Installed
<1>4. QED BY <1>1, <1>2, <1>3, PTL DEF LifecycleSpec, FrontierIsRetained
==============================================================================
