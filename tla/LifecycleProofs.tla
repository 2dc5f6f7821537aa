-------------------------- MODULE LifecycleProofs --------------------------
(***************************************************************************)
(* Theorems about Lifecycle, for every value of its constants.             *)
(***************************************************************************)
EXTENDS Lifecycle, TLAPS

(* The HEAD that the task's rows select is always a commit on the base.    *)
LEMMA SelectedHeadType == TypeOK => SelectedHead \in Commit
  BY LifecycleAssumption DEF TypeOK, SelectedHead

(* The initial database, checkout and processes are of their types.        *)
LEMMA InitTypeOK == Init => TypeOK
  BY LifecycleAssumption
  DEF Init, TypeOK, Tree, TaskState, ActiveStates, PublishingStates, NoPacket, Packet, Idle, At,
      ProcessRecord, Step, Attempt

(* A packet slot may always be emptied.                                    *)
LEMMA EmptyPacketType ==
  ASSUME TypeOK, NEW r
  PROVE  [packet EXCEPT ![r] = NoPacket] \in [Attempt -> Packet]
<1>1. NoPacket \in Packet
  BY LifecycleAssumption DEF NoPacket, Packet, TaskState, PublishingStates
<1>q. QED
  BY <1>1 DEF TypeOK

(* A process that turns to another step of its program, with what it read  *)
(* and an allocated attempt (n is the last), has a record of the type.     *)
LEMMA BecomesType ==
  ASSUME TypeOK, NEW p \in Process,
         NEW step \in Step, NEW head \in Commit \cup {NoHead},
         NEW n \in 0..MaxAttempts, rounds <= n, NEW run \in 0..n,
         NEW aim \in 0..MaxAttempts,
         Becomes(p, At(step, head, run, aim))
  PROVE  /\ process' \in [Process -> ProcessRecord]
         /\ \A q \in Process : process'[q].run \in 0..n
<1> DEFINE record == At(step, head, run, aim)
<1>1. record.run = run
  BY DEF At
<1>2. run \in 0..MaxAttempts
  BY LifecycleAssumption
<1>3. record \in ProcessRecord
  BY <1>2 DEF At, ProcessRecord
<1>4. process' = [process EXCEPT ![p] = record]
  BY DEF Becomes
<1>5. rounds \in Nat
  BY LifecycleAssumption DEF TypeOK
<1> HIDE DEF record
<1>q. QED
  BY <1>1, <1>3, <1>4, <1>5 DEF TypeOK

(* A process that exits forgets what it read.                              *)
LEMMA ExitType ==
  ASSUME TypeOK, NEW p \in Process, Exit(p)
  PROVE  /\ process' \in [Process -> ProcessRecord]
         /\ \A q \in Process : process'[q].run \in 0..rounds
<1>1. /\ "idle" \in Step
      /\ rounds \in 0..MaxAttempts /\ rounds <= rounds
      /\ 0 \in 0..rounds /\ 0 \in 0..MaxAttempts /\ 0 \in 0..MaxAttempts
  BY LifecycleAssumption DEF TypeOK, Step
<1>q. QED
  BY <1>1, BecomesType DEF Exit, Idle

(* A step that only reads keeps every other type.                          *)
LEMMA ReadOnlyType ==
  ASSUME TypeOK, UNCHANGED <<database, outside>>,
         NEW p \in Process,
         NEW step \in Step, NEW head \in Commit \cup {NoHead},
         NEW run \in 0..rounds, NEW aim \in 0..MaxAttempts,
         Becomes(p, At(step, head, run, aim))
  PROVE  TypeOK'
<1>1. rounds \in 0..MaxAttempts /\ rounds <= rounds
  BY LifecycleAssumption DEF TypeOK
<1>2. /\ process' \in [Process -> ProcessRecord]
      /\ \A q \in Process : process'[q].run \in 0..rounds
  BY <1>1, BecomesType
<1>q. QED
  BY <1>2 DEF TypeOK, database, outside

(* Finishing an attempt keeps the types of everything it touches.          *)
LEMMA FinishType ==
  ASSUME TypeOK, NEW p \in Process, FinishAttempt(p)
  PROVE  /\ version' \in Nat
         /\ rounds' \in 0..MaxAttempts
         /\ started' \in SUBSET (1..rounds')
         /\ packet' \in [Attempt -> Packet]
         /\ workspace' \in [head : Commit, tree : Tree]
         /\ marker' \in 0..rounds'
         /\ agent' \in 0..rounds'
         /\ process' \in [Process -> ProcessRecord]
         /\ \A q \in Process : process'[q].run \in 0..rounds'
<1>1. packet' \in [Attempt -> Packet]
  BY EmptyPacketType DEF FinishAttempt
<1>2. /\ process' \in [Process -> ProcessRecord]
      /\ \A q \in Process : process'[q].run \in 0..rounds
  BY ExitType DEF FinishAttempt
<1>3. rounds' = rounds /\ version' = version + 1 /\ started' \subseteq started
  BY DEF FinishAttempt
<1>4. UNCHANGED <<workspace, marker, agent>>
  BY DEF FinishAttempt, outside
<1>q. QED
  BY <1>1, <1>2, <1>3, <1>4 DEF TypeOK

(* Failing a started attempt keeps the types.                              *)
LEMMA FailStartedType ==
  ASSUME TypeOK, NEW p \in Process, FailStartedAttempt(p)
  PROVE  TypeOK'
<1>1. /\ process' \in [Process -> ProcessRecord]
      /\ \A q \in Process : process'[q].run \in 0..rounds
  BY ExitType DEF FailStartedAttempt
<1>2. packet' \in [Attempt -> Packet]
  BY EmptyPacketType DEF FailStartedAttempt, TypeOK
<1>3. started' \in SUBSET (1..rounds)
  BY DEF FailStartedAttempt, TypeOK
<1>4. blockers' \in 0..MaxBlockers
  BY LifecycleAssumption DEF FailStartedAttempt, InsertBlocker, TypeOK
<1>5. UNCHANGED <<state, currentHead, changes, acceptances, finding, implRounds,
                  archived, version, rounds, workspace, marker, agent>>
  BY DEF FailStartedAttempt, taskRow, roleRows, outside
<1>q. QED
  BY <1>1, <1>2, <1>3, <1>4, <1>5 DEF TypeOK

(* The HEAD of a selected result, and what moving to it leaves.            *)
LEMMA MoveHeadType ==
  ASSUME TypeOK, NEW p \in Process, MoveHead(process[p].head)
  PROVE  currentHead' \in Commit \cup {NoHead} /\ changes' \in Nat
  BY DEF MoveHead, TypeOK, ProcessRecord

(* An acceptance of the selected HEAD is well-typed.                       *)
LEMMA AcceptType ==
  ASSUME TypeOK, NEW p \in Process, HeadUnmoved(p),
         NEW type \in AcceptanceType, Accept(type, process[p].head)
  PROVE  acceptances' \in SUBSET Acceptance
  BY SelectedHeadType DEF Accept, HeadUnmoved, Acceptance, TypeOK

(* An accepted or blocked result keeps the types.                          *)
LEMMA ReconcileTypeOK ==
  ASSUME TypeOK, NEW p \in Process, Reconcile(p)
  PROVE  TypeOK'
<1> USE LifecycleAssumption
<1>1. CASE PlanningComplete(p)
  BY <1>1, FinishType DEF PlanningComplete, roleRows, TypeOK, TaskState, ActiveStates, PublishingStates
<1>2. CASE ImplementationComplete(p)
  BY <1>2, FinishType, MoveHeadType DEF ImplementationComplete, TypeOK, TaskState, ActiveStates, PublishingStates
<1>3. CASE ReviewApproved(p)
  BY <1>3, FinishType, AcceptType DEF ReviewApproved, AcceptanceType, roleRows, TypeOK, TaskState, ActiveStates, PublishingStates
<1>4. CASE AdversaryPass(p)
  BY <1>4, FinishType, AcceptType DEF AdversaryPass, AcceptanceType, roleRows, TypeOK, TaskState, ActiveStates, PublishingStates
<1>5. CASE ValidationPass(p)
  BY <1>5, FinishType, AcceptType DEF ValidationPass, AcceptanceType, roleRows, TypeOK, TaskState, ActiveStates, PublishingStates
<1>6. CASE ArchiveComplete(p)
  BY <1>6, FinishType, SelectedHeadType DEF ArchiveComplete, HeadUnmoved, TypeOK, TaskState, ActiveStates, PublishingStates
<1>7. CASE CorrectionRequired(p)
  BY <1>7, FinishType DEF CorrectionRequired, taskRow, TypeOK, TaskState, ActiveStates, PublishingStates
<1>8. CASE CorrectionComplete(p)
  BY <1>8, FinishType, MoveHeadType DEF CorrectionComplete, Corrected, Licensed, TypeOK, TaskState, ActiveStates, PublishingStates
<1>9. CASE BlockedReadOnly(p)
  BY <1>9, FinishType, SelectedHeadType DEF BlockedReadOnly, HeadUnmoved, LeaveBlocker, taskRow, TypeOK
<1>10. CASE BlockedImplementer(p)
  BY <1>10, FinishType, MoveHeadType DEF BlockedImplementer, LeaveBlocker, Licensed, RolloverRound, TypeOK
<1>q. QED
  BY Reconcile(p), <1>1, <1>2, <1>3, <1>4, <1>5, <1>6, <1>7, <1>8, <1>9, <1>10 DEF Reconcile

(* Every step keeps the types: in particular an attempt is only ever       *)
(* started, marked or run after its round was allocated.                   *)
LEMMA NextTypeOK == TypeOK /\ [Next]_vars => TypeOK'
<1> SUFFICES ASSUME TypeOK, [Next]_vars PROVE TypeOK'
  OBVIOUS
<1> USE LifecycleAssumption, SelectedHeadType
<1>1. CASE QueueTask
  BY <1>1 DEF QueueTask, TypeOK, TaskState, ActiveStates, PublishingStates, roleRows, outside
<1>2. CASE ResolveBlocker
  BY <1>2 DEF ResolveBlocker, TypeOK, taskRow, roleRows, attemptRows, outside
<1>22. CASE PublicationBlocked
  <2>1. blockers' \in 0..MaxBlockers
    BY <1>22, LifecycleAssumption DEF PublicationBlocked, InsertBlocker, TypeOK
  <2>q. QED
    BY <1>22, <2>1 DEF PublicationBlocked, TypeOK, taskRow, roleRows, attemptRows, outside
<1>23. CASE PublicationFinalized
  BY <1>23 DEF PublicationFinalized, TypeOK, TaskState, PublishingStates, roleRows,
               attemptRows, outside
<1>3. CASE OperatorRepairsWorkspace
  BY <1>3 DEF OperatorRepairsWorkspace, TypeOK, Tree, database
<1>4. CASE AgentWorks
  BY <1>4 DEF AgentWorks, TypeOK, database
<1>5. CASE AgentEnds
  BY <1>5 DEF AgentEnds, TypeOK, database
<1>6. ASSUME NEW p \in Process, OperatorFailsAttempt(p) PROVE TypeOK'
  <2>1. PICK r \in started : Becomes(p, At("fail", NoHead, 0, r))
    BY <1>6 DEF OperatorFailsAttempt
  <2>2. "fail" \in Step /\ 0 \in 0..rounds /\ r \in 0..MaxAttempts
    BY DEF TypeOK, Step
  <2>q. QED
    BY <1>6, <2>1, <2>2, ReadOnlyType DEF OperatorFailsAttempt
<1>7. ASSUME NEW p \in Process, Dispatch(p) PROVE TypeOK'
  <2>1. "prepare" \in Step /\ 0 \in 0..rounds /\ 0 \in 0..MaxAttempts /\ currentHead \in Commit \cup {NoHead}
    BY <1>7 DEF TypeOK, Step, ProcessRecord
  <2>q. QED
    BY <1>7, <2>1, ReadOnlyType DEF Dispatch
<1>8. ASSUME NEW p \in Process, AfterRun(p) PROVE TypeOK'
  <2>1. {"verify", "fail"} \subseteq Step /\ 0 \in 0..rounds /\ 0 \in 0..MaxAttempts /\ marker \in 0..rounds
    BY <1>8 DEF TypeOK, Step, ProcessRecord
  <2>q. QED
    BY <1>8, <2>1, ReadOnlyType DEF AfterRun
<1>9. ASSUME NEW p \in Process, Crash(p) PROVE TypeOK'
  BY <1>9, ExitType DEF Crash, TypeOK, database, outside
<1>10. ASSUME NEW p \in Process, FindStartedAttempt(p) PROVE TypeOK'
  <2>1. CASE started = {} /\ Exit(p)
    BY <1>10, <2>1, ExitType DEF FindStartedAttempt, TypeOK, database, outside
  <2>2. ASSUME NEW r \in started, Becomes(p, At("failing", NoHead, r, process[p].aim))
        PROVE  TypeOK'
    <3>1. "failing" \in Step /\ r \in 0..rounds /\ process[p].aim \in 0..MaxAttempts
      BY DEF TypeOK, Step, ProcessRecord
    <3>q. QED
      BY <1>10, <2>2, <3>1, ReadOnlyType DEF FindStartedAttempt
  <2>q. QED
    BY <1>10, <2>1, <2>2 DEF FindStartedAttempt
<1>11. ASSUME NEW p \in Process, FailAttempt(p) PROVE TypeOK'
  BY <1>11, FailStartedType DEF FailAttempt
<1>12. ASSUME NEW p \in Process, PrepareWorkspace(p) PROVE TypeOK'
  <2>1. /\ "allocate" \in Step /\ rounds \in 0..MaxAttempts /\ rounds <= rounds
        /\ 0 \in 0..rounds /\ 0 \in 0..MaxAttempts
    BY DEF TypeOK, Step
  <2>2. /\ process' \in [Process -> ProcessRecord]
        /\ \A q \in Process : process'[q].run \in 0..rounds
    BY <1>12, <2>1, BecomesType DEF PrepareWorkspace
  <2>3. workspace' \in [head : Commit, tree : Tree]
    BY <1>12 DEF Tree, PrepareWorkspace, TypeOK
  <2>q. QED
    BY <1>12, <2>2, <2>3 DEF PrepareWorkspace, TypeOK, database
<1>13. ASSUME NEW p \in Process, PrepareFails(p) PROVE TypeOK'
  BY <1>13, ExitType DEF PrepareFails, InsertBlocker, TypeOK,
     taskRow, roleRows, attemptRows, outside
<1>14. ASSUME NEW p \in Process, AllocateAttempt(p) PROVE TypeOK'
  <2> DEFINE given == [state |-> state, version |-> version', head |-> SelectedHead]
  <2>1. /\ NextRound = rounds + 1 /\ rounds \in Nat
        /\ NextRound \in 0..MaxAttempts /\ rounds <= NextRound
        /\ NextRound \in 0..NextRound /\ NextRound \in 1..NextRound
    BY <1>14 DEF AllocateAttempt, NextRound, TypeOK
  <2>2. /\ "stage" \in Step /\ 0 \in 0..MaxAttempts
    BY DEF Step
  <2>3. /\ process' \in [Process -> ProcessRecord]
        /\ \A q \in Process : process'[q].run \in 0..NextRound
    BY <1>14, <2>1, <2>2, BecomesType DEF AllocateAttempt
  <2>4. version' \in Nat
    BY <1>14 DEF AllocateAttempt, TypeOK
  <2>5. given \in Packet
    BY <2>4 DEF Packet, TypeOK
  <2>6. packet' \in [Attempt -> Packet]
    BY <1>14, <2>5 DEF AllocateAttempt, TypeOK
  <2>7. rounds' = NextRound /\ started' = started \cup {NextRound}
    BY <1>14 DEF AllocateAttempt
  <2>8. UNCHANGED <<state, currentHead, changes, acceptances, finding, implRounds,
                    archived, blockers, workspace, marker, agent>>
    BY <1>14 DEF AllocateAttempt, taskRow, roleRows, outside
  <2>9. /\ started' \in SUBSET (1..rounds')
        /\ marker' \in 0..rounds'
        /\ agent' \in 0..rounds'
    BY <2>1, <2>7, <2>8 DEF TypeOK
  <2>q. QED
    BY <2>1, <2>3, <2>4, <2>6, <2>7, <2>8, <2>9 DEF TypeOK
<1>15. ASSUME NEW p \in Process, AllocationConflict(p) PROVE TypeOK'
  BY <1>15, ExitType DEF AllocationConflict, TypeOK, database, outside
<1>16. ASSUME NEW p \in Process, AllocationFails(p) PROVE TypeOK'
  BY <1>16, ExitType DEF AllocationFails, InsertBlocker, TypeOK,
     taskRow, roleRows, attemptRows, outside
<1>17. ASSUME NEW p \in Process, StageAttempt(p) PROVE TypeOK'
  BY <1>17, ExitType DEF StageAttempt, TypeOK, database
<1>18. ASSUME NEW p \in Process, StagingFails(p) PROVE TypeOK'
  BY <1>18, FailStartedType DEF StagingFails
<1>19. ASSUME NEW p \in Process, VerifyGitTruth(p) PROVE TypeOK'
  <2>1. /\ "reconcile" \in Step /\ 0 \in 0..MaxAttempts
        /\ process[p].run \in 0..rounds /\ workspace.head \in Commit
    BY DEF TypeOK, Step
  <2>q. QED
    BY <1>19, <2>1, ReadOnlyType DEF VerifyGitTruth
<1>20. ASSUME NEW p \in Process, RejectResult(p) PROVE TypeOK'
  <2>1. "fail" \in Step /\ 0 \in 0..rounds /\ 0 \in 0..MaxAttempts
    BY <1>20 DEF TypeOK, Step, ProcessRecord
  <2>q. QED
    BY <1>20, <2>1, ReadOnlyType DEF RejectResult
<1>21. CASE UNCHANGED vars
  BY <1>21 DEF vars, TypeOK
<1>q. QED
  BY <1>1, <1>2, <1>3, <1>4, <1>5, <1>6, <1>7, <1>8, <1>9, <1>10, <1>11, <1>12, <1>13, <1>14, <1>15, <1>16, <1>17, <1>18, <1>19, <1>20, <1>21, <1>22, <1>23,
     ReconcileTypeOK DEF Next, HookStep

(* The rows, files and processes of a task are of their types in every     *)
(* reachable state, for any number of processes, commits and findings.     *)
THEOREM TypeCorrect == Spec => []TypeOK
  BY InitTypeOK, NextTypeOK, PTL DEF Spec
-----------------------------------------------------------------------------
(* The safety invariants.                                                  *)

(* What verify_git_truth hands to the transaction is a commit. *)
GitTruthIsCommit ==
    \A p \in Process : process[p].step = "reconcile" => process[p].head \in Commit

(* No attempt is made of a task that was not queued. *)
QuietUntilQueued == state = "PREPARED" => started = {}

(* The inductive invariant. *)
Inv ==
    /\ TypeOK
    /\ GitTruthIsCommit
    /\ QuietUntilQueued
    /\ SingleAttempt
    /\ PacketIsCurrent
    /\ LicenseForNextRound
    /\ ExactHeadEvidence
    /\ CloseoutComplete

(* A step that neither queues the task, nor allocates an attempt, nor      *)
(* accepts a result only ever ends attempts.                               *)
Quiet ==
    /\ UNCHANGED <<state, currentHead, changes, acceptances, finding, implRounds,
                   archived, version>>
    /\ started' \subseteq started
    /\ \A r \in started' : packet'[r] = packet[r]

(* The packets of the attempts that are not emptied stay.                  *)
LEMMA OtherPackets ==
  ASSUME TypeOK, NEW r, packet' = [packet EXCEPT ![r] = NoPacket]
  PROVE  \A s \in started \ {r} : packet'[s] = packet[s]
<1>1. started \subseteq Attempt
  BY LifecycleAssumption DEF TypeOK, Attempt
<1>2. packet \in [Attempt -> Packet]
  BY DEF TypeOK
<1>q. QED
  BY <1>1, <1>2

(* Failing a started attempt ends that attempt at most.                    *)
LEMMA FailStartedQuiet ==
  ASSUME TypeOK, NEW p \in Process, FailStartedAttempt(p)
  PROVE  Quiet
<1>1. UNCHANGED <<state, currentHead, changes, acceptances, finding, implRounds,
                  archived, version>>
  BY DEF FailStartedAttempt, taskRow, roleRows
<1>2. started' \subseteq started
  BY DEF FailStartedAttempt
<1>3. \A r \in started' : packet'[r] = packet[r]
  BY OtherPackets DEF FailStartedAttempt
<1>q. QED
  BY <1>1, <1>2, <1>3 DEF Quiet

(* The steps of Next, seen from the task's rows.                           *)
LEMMA StepCases ==
  ASSUME TypeOK, [Next]_vars
  PROVE  \/ QueueTask
         \/ \E p \in Process : AllocateAttempt(p)
         \/ \E p \in Process : Reconcile(p)
         \/ PublicationFinalized
         \/ Quiet
<1>1. CASE ResolveBlocker \/ PublicationBlocked
  BY <1>1 DEF ResolveBlocker, PublicationBlocked, Quiet, taskRow, roleRows, attemptRows
<1>2. CASE OperatorRepairsWorkspace
  BY <1>2 DEF OperatorRepairsWorkspace, Quiet, database
<1>3. CASE AgentWorks
  BY <1>3 DEF AgentWorks, Quiet, database
<1>4. CASE AgentEnds
  BY <1>4 DEF AgentEnds, Quiet, database
<1>5. ASSUME NEW p \in Process, OperatorFailsAttempt(p) PROVE Quiet
  BY <1>5 DEF OperatorFailsAttempt, Quiet, database
<1>6. ASSUME NEW p \in Process, Dispatch(p) PROVE Quiet
  BY <1>6 DEF Dispatch, Quiet, database
<1>7. ASSUME NEW p \in Process, AfterRun(p) PROVE Quiet
  BY <1>7 DEF AfterRun, Quiet, database
<1>8. ASSUME NEW p \in Process, Crash(p) PROVE Quiet
  BY <1>8 DEF Crash, Quiet, database
<1>9. ASSUME NEW p \in Process, FindStartedAttempt(p) PROVE Quiet
  BY <1>9 DEF FindStartedAttempt, Quiet, database
<1>10. ASSUME NEW p \in Process, FailAttempt(p) PROVE Quiet
  BY <1>10, FailStartedQuiet DEF FailAttempt
<1>11. ASSUME NEW p \in Process, PrepareWorkspace(p) PROVE Quiet
  BY <1>11 DEF PrepareWorkspace, Quiet, database
<1>12. ASSUME NEW p \in Process, PrepareFails(p) PROVE Quiet
  BY <1>12 DEF PrepareFails, Quiet, taskRow, roleRows, attemptRows
<1>13. ASSUME NEW p \in Process, AllocationConflict(p) PROVE Quiet
  BY <1>13 DEF AllocationConflict, Quiet, database
<1>14. ASSUME NEW p \in Process, AllocationFails(p) PROVE Quiet
  BY <1>14 DEF AllocationFails, Quiet, taskRow, roleRows, attemptRows
<1>15. ASSUME NEW p \in Process, StageAttempt(p) PROVE Quiet
  BY <1>15 DEF StageAttempt, Quiet, database
<1>16. ASSUME NEW p \in Process, StagingFails(p) PROVE Quiet
  BY <1>16, FailStartedQuiet DEF StagingFails
<1>17. ASSUME NEW p \in Process, VerifyGitTruth(p) PROVE Quiet
  BY <1>17 DEF VerifyGitTruth, Quiet, database
<1>18. ASSUME NEW p \in Process, RejectResult(p) PROVE Quiet
  BY <1>18 DEF RejectResult, Quiet, database
<1>19. CASE UNCHANGED vars
  BY <1>19 DEF vars, Quiet
<1>q. QED
  BY <1>1, <1>2, <1>3, <1>4, <1>5, <1>6, <1>7, <1>8, <1>9, <1>10, <1>11, <1>12, <1>13, <1>14, <1>15, <1>16, <1>17, <1>18, <1>19 DEF Next, HookStep

(* Another process's record is untouched when one turns to another step.   *)
LEMMA BecomesGitTruth ==
  ASSUME TypeOK, GitTruthIsCommit, NEW p \in Process,
         NEW step, NEW head, NEW run, NEW aim,
         Becomes(p, At(step, head, run, aim)),
         step = "reconcile" => head \in Commit
  PROVE  GitTruthIsCommit'
<1>1. process'[p] = At(step, head, run, aim)
  BY DEF TypeOK, Becomes
<1>2. process'[p].step = step /\ process'[p].head = head
  BY <1>1 DEF At
<1>3. \A q \in Process \ {p} : process'[q] = process[q]
  BY DEF TypeOK, Becomes
<1>q. QED
  BY <1>2, <1>3 DEF GitTruthIsCommit

(* What a hook takes from verify_git_truth into its transaction is always  *)
(* a commit that descends from the base.                                   *)
LEMMA NextGitTruth ==
  ASSUME TypeOK, GitTruthIsCommit, [Next]_vars
  PROVE  GitTruthIsCommit'
<1>1. CASE QueueTask
  BY <1>1 DEF QueueTask, GitTruthIsCommit
<1>2. CASE ResolveBlocker \/ PublicationBlocked \/ PublicationFinalized
  BY <1>2 DEF ResolveBlocker, PublicationBlocked, PublicationFinalized, GitTruthIsCommit
<1>3. CASE OperatorRepairsWorkspace
  BY <1>3 DEF OperatorRepairsWorkspace, GitTruthIsCommit
<1>4. CASE AgentWorks
  BY <1>4 DEF AgentWorks, GitTruthIsCommit
<1>5. CASE AgentEnds
  BY <1>5 DEF AgentEnds, GitTruthIsCommit
<1>6. ASSUME NEW p \in Process, OperatorFailsAttempt(p) PROVE GitTruthIsCommit'
  BY <1>6, BecomesGitTruth DEF OperatorFailsAttempt
<1>7. ASSUME NEW p \in Process, Dispatch(p) PROVE GitTruthIsCommit'
  BY <1>7, BecomesGitTruth DEF Dispatch
<1>8. ASSUME NEW p \in Process, AfterRun(p) PROVE GitTruthIsCommit'
  BY <1>8, BecomesGitTruth DEF AfterRun
<1>9. ASSUME NEW p \in Process, Crash(p) PROVE GitTruthIsCommit'
  BY <1>9, BecomesGitTruth DEF Crash, Exit, Idle
<1>10. ASSUME NEW p \in Process, FindStartedAttempt(p) PROVE GitTruthIsCommit'
  BY <1>10, BecomesGitTruth DEF FindStartedAttempt, Exit, Idle
<1>11. ASSUME NEW p \in Process, FailAttempt(p) PROVE GitTruthIsCommit'
  BY <1>11, BecomesGitTruth DEF FailAttempt, FailStartedAttempt, Exit, Idle
<1>12. ASSUME NEW p \in Process, PrepareWorkspace(p) PROVE GitTruthIsCommit'
  BY <1>12, BecomesGitTruth DEF PrepareWorkspace
<1>13. ASSUME NEW p \in Process, PrepareFails(p) PROVE GitTruthIsCommit'
  BY <1>13, BecomesGitTruth DEF PrepareFails, Exit, Idle
<1>14. ASSUME NEW p \in Process, AllocateAttempt(p) PROVE GitTruthIsCommit'
  BY <1>14, BecomesGitTruth DEF AllocateAttempt
<1>15. ASSUME NEW p \in Process, AllocationConflict(p) PROVE GitTruthIsCommit'
  BY <1>15, BecomesGitTruth DEF AllocationConflict, Exit, Idle
<1>16. ASSUME NEW p \in Process, AllocationFails(p) PROVE GitTruthIsCommit'
  BY <1>16, BecomesGitTruth DEF AllocationFails, Exit, Idle
<1>17. ASSUME NEW p \in Process, StageAttempt(p) PROVE GitTruthIsCommit'
  BY <1>17, BecomesGitTruth DEF StageAttempt, Exit, Idle
<1>18. ASSUME NEW p \in Process, StagingFails(p) PROVE GitTruthIsCommit'
  BY <1>18, BecomesGitTruth DEF StagingFails, FailStartedAttempt, Exit, Idle
<1>19. ASSUME NEW p \in Process, VerifyGitTruth(p) PROVE GitTruthIsCommit'
  BY <1>19, BecomesGitTruth DEF VerifyGitTruth, TypeOK
<1>20. ASSUME NEW p \in Process, RejectResult(p) PROVE GitTruthIsCommit'
  BY <1>20, BecomesGitTruth DEF RejectResult
<1>21. ASSUME NEW p \in Process, Reconcile(p) PROVE GitTruthIsCommit'
  <2>1. Exit(p)
    BY <1>21 DEF Reconcile, FinishAttempt, PlanningComplete, ImplementationComplete,
       ReviewApproved, AdversaryPass, ValidationPass, ArchiveComplete,
       CorrectionRequired, CorrectionComplete, BlockedReadOnly, BlockedImplementer
  <2>q. QED
    BY <2>1, BecomesGitTruth DEF Exit, Idle
<1>22. CASE UNCHANGED vars
  BY <1>22 DEF vars, GitTruthIsCommit
<1>q. QED
  BY <1>1, <1>2, <1>3, <1>4, <1>5, <1>6, <1>7, <1>8, <1>9, <1>10, <1>11, <1>12, <1>13, <1>14, <1>15, <1>16, <1>17, <1>18, <1>19, <1>20, <1>21, <1>22 DEF Next, HookStep

(* A reconciled attempt was the only one.                                  *)
LEMMA ReconcileEnds ==
  ASSUME SingleAttempt, NEW p \in Process, Reconcile(p)
  PROVE  started' = {}
<1>1. Reconcilable(p) /\ FinishAttempt(p)
  BY DEF Reconcile, PlanningComplete, ImplementationComplete,
     ReviewApproved, AdversaryPass, ValidationPass, ArchiveComplete,
     CorrectionRequired, CorrectionComplete, BlockedReadOnly, BlockedImplementer
<1>q. QED
  BY <1>1 DEF Reconcilable, FinishAttempt, SingleAttempt

(* Two attempts are never started at once, none before the task is queued, *)
(* and the packet of the started one says what the rows say.               *)
LEMMA NextAttempts ==
  ASSUME Inv, TypeOK', [Next]_vars
  PROVE  QuietUntilQueued' /\ SingleAttempt' /\ PacketIsCurrent'
<1> USE DEF Inv
<1>1. CASE QueueTask
  BY <1>1 DEF QueueTask, QuietUntilQueued, SingleAttempt, PacketIsCurrent
<1>2. ASSUME NEW p \in Process, AllocateAttempt(p)
      PROVE  QuietUntilQueued' /\ SingleAttempt' /\ PacketIsCurrent'
  <2>1. /\ started' = {NextRound}
        /\ state \in ActiveStates
        /\ UNCHANGED <<state, currentHead>>
    BY <1>2 DEF AllocateAttempt, MayAllocate, taskRow
  <2>2. NextRound \in Attempt
    BY <1>2, LifecycleAssumption DEF AllocateAttempt, NextRound, Attempt, TypeOK
  <2>3. packet \in [Attempt -> Packet]
    BY DEF TypeOK
  <2>4. packet'[NextRound] =
           [state |-> state, version |-> version', head |-> SelectedHead]
    BY <1>2, <2>2, <2>3 DEF AllocateAttempt
  <2>5. SelectedHead' = SelectedHead
    BY <2>1 DEF SelectedHead
  <2>q. QED
    BY <2>1, <2>4, <2>5
    DEF QuietUntilQueued, SingleAttempt, PacketIsCurrent, ActiveStates
<1>3. ASSUME NEW p \in Process, Reconcile(p)
      PROVE  QuietUntilQueued' /\ SingleAttempt' /\ PacketIsCurrent'
  BY <1>3, ReconcileEnds DEF QuietUntilQueued, SingleAttempt, PacketIsCurrent
<1>4. CASE Quiet
  BY <1>4 DEF Quiet, QuietUntilQueued, SingleAttempt, PacketIsCurrent, SelectedHead
<1>5. CASE PublicationFinalized
  <2>1. started' = {}
    BY <1>5 DEF PublicationFinalized, CloseoutComplete, PublishingStates, attemptRows
  <2>q. QED
    BY <2>1 DEF QuietUntilQueued, SingleAttempt, PacketIsCurrent
<1>q. QED
  BY <1>1, <1>2, <1>3, <1>4, <1>5, StepCases

(* The rows that the evidence and the licenses live in.                    *)
evidenceRows == <<state, currentHead, changes, acceptances, finding, implRounds, archived>>

(* Outside of reconciliation they stay, a prepared task is queued, or one  *)
(* at closeout is published.                                               *)
LEMMA EvidenceRowsStay ==
  ASSUME Inv, [Next]_vars, ~ \E p \in Process : Reconcile(p)
  PROVE  /\ UNCHANGED <<currentHead, changes, acceptances, finding, implRounds, archived>>
         /\ \/ state' = state
            \/ state = "PREPARED" /\ state' = "QUEUED"
            \/ state = "ARCHIVIST" /\ state' = "READY_FOR_HUMAN_MERGE"
         /\ state' \in PublishingStates => started' \subseteq started
<1>1. CASE QueueTask
  BY <1>1 DEF QueueTask, roleRows
<1>2. ASSUME NEW p \in Process, AllocateAttempt(p)
      PROVE  UNCHANGED evidenceRows /\ state \in ActiveStates
  BY <1>2 DEF AllocateAttempt, MayAllocate, taskRow, roleRows, evidenceRows
<1>3. CASE Quiet
  BY <1>3 DEF Quiet
<1>4. CASE PublicationFinalized
  BY <1>4 DEF PublicationFinalized, roleRows, attemptRows
<1>q. QED
  BY <1>1, <1>2, <1>3, <1>4, StepCases
  DEF Inv, evidenceRows, ActiveStates, PublishingStates

(* A license names the round the next IMPLEMENTER run will get.            *)
LEMMA NextLicense ==
  ASSUME Inv, [Next]_vars
  PROVE  LicenseForNextRound'
<1> USE DEF LicenseForNextRound, Licensed
<1>1. CASE ~ \E p \in Process : Reconcile(p)
  BY <1>1, EvidenceRowsStay DEF Inv
<1>2. ASSUME NEW p \in Process, Reconcile(p) PROVE LicenseForNextRound'
  <2>1. CASE PlanningComplete(p)
    BY <2>1 DEF Inv, PlanningComplete, roleRows
  <2>2. CASE ImplementationComplete(p)
    BY <2>2 DEF Inv, ImplementationComplete, CloseoutComplete, CorrectionStates
  <2>3. CASE ReviewApproved(p)
    BY <2>3 DEF Inv, ReviewApproved, roleRows
  <2>4. CASE AdversaryPass(p)
    BY <2>4 DEF Inv, AdversaryPass, roleRows
  <2>5. CASE ValidationPass(p)
    BY <2>5 DEF Inv, ValidationPass, roleRows
  <2>6. CASE ArchiveComplete(p)
    BY <2>6 DEF Inv, ArchiveComplete
  <2>7. CASE CorrectionRequired(p)
    BY <2>7 DEF Inv, CorrectionRequired, Correcting
  <2>8. CASE CorrectionComplete(p)
    BY <2>8 DEF Inv, CorrectionComplete, TypeOK
  <2>9. CASE BlockedReadOnly(p)
    BY <2>9 DEF Inv, BlockedReadOnly
  <2>10. CASE BlockedImplementer(p)
    BY <2>10 DEF Inv, BlockedImplementer, TypeOK, RolloverRound
  <2>q. QED
    BY <1>2, <2>1, <2>2, <2>3, <2>4, <2>5, <2>6, <2>7, <2>8, <2>9, <2>10 DEF Reconcile
<1>q. QED
  BY <1>1, <1>2

(* The evidence a state stands for, state by state.                        *)
LEMMA EvidenceOf ==
  /\ Evidence["REVIEW"] = {"review_accepted"}
  /\ Evidence["ADVERSARIAL_REVIEW"] = {"review_accepted", "adversary_accepted"}
  /\ Evidence["FINAL_MECHANICAL_ACCEPTANCE"] = AcceptanceType
  /\ Evidence["ARCHIVIST"] = AcceptanceType
  /\ Evidence["READY_FOR_HUMAN_MERGE"] = AcceptanceType
  /\ \A s \in {"PREPARED", "QUEUED", "PLANNED", "IMPLEMENTED"} : Evidence[s] = {}
  BY DEF Evidence, TaskState, ActiveStates, PublishingStates

(* Without a correction owed the evidence of the state holds for exactly   *)
(* the selected HEAD.                                                      *)
LEMMA NextEvidence ==
  ASSUME Inv, [Next]_vars
  PROVE  ExactHeadEvidence'
<1>1. CASE ~ \E p \in Process : Reconcile(p)
  BY <1>1, EvidenceRowsStay, EvidenceOf
  DEF Inv, ExactHeadEvidence, Licensed, CurrentAcceptance, SelectedHead
<1>2. ASSUME NEW p \in Process, Reconcile(p) PROVE ExactHeadEvidence'
  <2> USE DEF ExactHeadEvidence, CurrentAcceptance
  <2>1. CASE PlanningComplete(p)
    BY <2>1, EvidenceOf DEF PlanningComplete
  <2>2. CASE ImplementationComplete(p)
    BY <2>2, EvidenceOf DEF ImplementationComplete
  <2>3. CASE ReviewApproved(p)
    BY <2>3, EvidenceOf DEF ReviewApproved, HeadUnmoved, Accept, SelectedHead
  <2>4. CASE AdversaryPass(p)
    BY <2>4, EvidenceOf DEF AdversaryPass, HeadUnmoved, Accept, SelectedHead
  <2>5. CASE ValidationPass(p)
    BY <2>5, EvidenceOf DEF ValidationPass, HeadUnmoved, Accept, SelectedHead, AcceptanceType
  <2>6. CASE ArchiveComplete(p)
    BY <2>6, EvidenceOf DEF ArchiveComplete, Inv, HeadUnmoved, SelectedHead, Licensed
  <2>7. CASE CorrectionRequired(p)
    BY <2>7, EvidenceOf DEF CorrectionRequired, Licensed
  <2>8. CASE CorrectionComplete(p)
    BY <2>8, EvidenceOf DEF CorrectionComplete, Corrected
  <2>9. CASE BlockedReadOnly(p)
    BY <2>9, EvidenceOf DEF BlockedReadOnly, Inv, Licensed, SelectedHead, taskRow
  <2>10. CASE BlockedImplementer(p)
    BY <2>10, EvidenceOf DEF BlockedImplementer, Inv, Correcting, Licensed, TypeOK, RolloverRound
  <2>q. QED
    BY <1>2, <2>1, <2>2, <2>3, <2>4, <2>5, <2>6, <2>7, <2>8, <2>9, <2>10 DEF Reconcile
<1>q. QED
  BY <1>1, <1>2

(* A result that moves the HEAD leaves an accepted one.                    *)
LEMMA MovedHead ==
  ASSUME Inv, NEW p \in Process, Reconcilable(p), MoveHead(process[p].head),
         currentHead # NoHead \/ ~HeadUnmoved(p)
  PROVE  currentHead' # NoHead
<1>1. process[p].head \in Commit
  BY DEF Inv, GitTruthIsCommit, Reconcilable
<1>q. QED
  BY <1>1, LifecycleAssumption DEF MoveHead, HeadUnmoved

(* What start_publication asks for is there when a task reaches ARCHIVIST. *)
LEMMA NextCloseout ==
  ASSUME Inv, [Next]_vars
  PROVE  CloseoutComplete'
<1> USE DEF CloseoutComplete, PublishingStates
<1>1. CASE ~ \E p \in Process : Reconcile(p)
  BY <1>1, EvidenceRowsStay DEF Inv, Licensed, CorrectionStates
<1>2. ASSUME NEW p \in Process, Reconcile(p) PROVE CloseoutComplete'
  <2>0. started' = {}
    BY <1>2, ReconcileEnds DEF Inv
  <2>1. CASE PlanningComplete(p)
    BY <2>1, <2>0 DEF Inv, PlanningComplete, CorrectionStates, Licensed, roleRows
  <2>2. CASE ImplementationComplete(p)
    BY <2>2, <2>0, MovedHead DEF Inv, ImplementationComplete, CorrectionStates
  <2>3. CASE ReviewApproved(p)
    BY <2>3, <2>0 DEF Inv, ReviewApproved, CorrectionStates, Licensed, roleRows
  <2>4. CASE AdversaryPass(p)
    BY <2>4, <2>0 DEF Inv, AdversaryPass, CorrectionStates, Licensed, roleRows
  <2>5. CASE ValidationPass(p)
    BY <2>5, <2>0 DEF Inv, ValidationPass, CorrectionStates, Correcting, Licensed, roleRows
  <2>6. CASE ArchiveComplete(p)
    BY <2>6, <2>0 DEF Inv, ArchiveComplete, CorrectionStates, HeadUnmoved, SelectedHead, Licensed
  <2>7. CASE CorrectionRequired(p)
    BY <2>7, <2>0 DEF Inv, CorrectionRequired, taskRow, CorrectionStates
  <2>8. CASE CorrectionComplete(p)
    BY <2>8, <2>0, MovedHead DEF Inv, CorrectionComplete, Corrected, Correcting, CorrectionStates, Licensed
  <2>9. CASE BlockedReadOnly(p)
    BY <2>9, <2>0 DEF Inv, BlockedReadOnly, taskRow, Licensed, CorrectionStates
  <2>10. CASE BlockedImplementer(p)
    BY <2>10, <2>0, MovedHead DEF Inv, BlockedImplementer, Correcting, Licensed, CorrectionStates, TypeOK, RolloverRound
  <2>q. QED
    BY <1>2, <2>1, <2>2, <2>3, <2>4, <2>5, <2>6, <2>7, <2>8, <2>9, <2>10 DEF Reconcile
<1>q. QED
  BY <1>1, <1>2

LEMMA InitInv == Init => Inv
<1> SUFFICES ASSUME Init PROVE Inv
  OBVIOUS
<1>1. TypeOK
  BY InitTypeOK
<1>2. /\ GitTruthIsCommit
      /\ QuietUntilQueued
      /\ SingleAttempt
      /\ PacketIsCurrent
      /\ LicenseForNextRound
  BY DEF Init, GitTruthIsCommit, QuietUntilQueued, SingleAttempt, PacketIsCurrent,
         LicenseForNextRound, Licensed, Idle, At
<1>3. ExactHeadEvidence /\ CloseoutComplete
  BY EvidenceOf DEF Init, ExactHeadEvidence, CloseoutComplete, CorrectionStates,
                    PublishingStates, Licensed
<1>q. QED
  BY <1>1, <1>2, <1>3 DEF Inv

LEMMA NextInv == Inv /\ [Next]_vars => Inv'
  BY NextTypeOK, NextGitTruth, NextAttempts, NextLicense, NextEvidence, NextCloseout
  DEF Inv

LEMMA Invariance == Spec => []Inv
  BY InitInv, NextInv, PTL DEF Spec

(* Hooks that race for a task never leave two of its Architect attempts    *)
(* started, however many of them there are.                                *)
THEOREM AttemptsAreExclusive == Spec => []SingleAttempt
  BY Invariance, PTL DEF Inv

(* A started attempt's packet says what the task's rows say until its      *)
(* result is reconciled: nobody else rewrites those rows.                  *)
THEOREM PacketsStayCurrent == Spec => []PacketIsCurrent
  BY Invariance, PTL DEF Inv

(* Every licensed correction can be completed or blocked by the next       *)
(* IMPLEMENTER run.                                                        *)
THEOREM LicensesStayUsable == Spec => []LicenseForNextRound
  BY Invariance, PTL DEF Inv

(* Without a correction owed, every acceptance a state stands for was      *)
(* given to exactly the selected HEAD after its last change.               *)
THEOREM EvidenceIsExact == Spec => []ExactHeadEvidence
  BY Invariance, PTL DEF Inv

(* A task at closeout owes no correction, has an accepted HEAD, and from   *)
(* ARCHIVIST on a finished ARCHIVIST run for it and no attempt.            *)
THEOREM CloseoutIsComplete == Spec => []CloseoutComplete
  BY Invariance, PTL DEF Inv

(* The steps that change which attempts are started.                       *)
LEMMA StartedCases ==
  ASSUME [Next]_vars
  PROVE  \/ UNCHANGED started
         \/ \E p \in Process : FailStartedAttempt(p) \/ Reconcile(p) \/ AllocateAttempt(p)
<1>1. CASE \/ QueueTask \/ ResolveBlocker \/ OperatorRepairsWorkspace
           \/ PublicationBlocked \/ PublicationFinalized
           \/ AgentWorks \/ AgentEnds \/ UNCHANGED vars
  BY <1>1 DEF QueueTask, ResolveBlocker, OperatorRepairsWorkspace, AgentWorks, AgentEnds,
              PublicationBlocked, PublicationFinalized, attemptRows, database, vars
<1>2. ASSUME NEW p \in Process,
             \/ OperatorFailsAttempt(p) \/ Dispatch(p) \/ AfterRun(p) \/ Crash(p)
             \/ FindStartedAttempt(p) \/ PrepareWorkspace(p) \/ PrepareFails(p)
             \/ AllocationConflict(p) \/ AllocationFails(p) \/ StageAttempt(p)
             \/ VerifyGitTruth(p) \/ RejectResult(p)
      PROVE  UNCHANGED started
  BY <1>2 DEF OperatorFailsAttempt, Dispatch, AfterRun, Crash, FindStartedAttempt,
              PrepareWorkspace, PrepareFails, AllocationConflict, AllocationFails,
              StageAttempt, VerifyGitTruth, RejectResult, attemptRows, database
<1>3. ASSUME NEW p \in Process, FailAttempt(p) \/ StagingFails(p)
      PROVE  FailStartedAttempt(p)
  BY <1>3 DEF FailAttempt, StagingFails
<1>q. QED
  BY <1>1, <1>2, <1>3 DEF Next, HookStep

-----------------------------------------------------------------------------
(* What a step may never do.                                               *)

(* No attempt starts on a task with an open blocker, whatever the Runtime  *)
(* saw before it called the hook.                                          *)
THEOREM BlockersStopAttempts == Spec => NoAttemptPastBlocker
<1> DEFINE Guarded == started' \ started # {} => blockers = 0 /\ blockers' = 0
<1>1. ASSUME Inv, [Next]_vars PROVE Guarded
  <2>1. CASE QueueTask
    BY <2>1 DEF QueueTask
  <2>2. ASSUME NEW p \in Process, AllocateAttempt(p) PROVE Guarded
    BY <2>2 DEF AllocateAttempt, MayAllocate
  <2>3. ASSUME NEW p \in Process, Reconcile(p) PROVE Guarded
    BY <1>1, <2>3, ReconcileEnds DEF Inv
  <2>4. CASE Quiet \/ PublicationFinalized
    BY <2>4 DEF Quiet, PublicationFinalized, attemptRows
  <2>q. QED
    BY <1>1, <2>1, <2>2, <2>3, <2>4, StepCases DEF Inv
<1>q. QED
  BY <1>1, Invariance, PTL DEF Spec, NoAttemptPastBlocker

(* A failed or crashed attempt is never forgotten: it ends with a change   *)
(* of the task or its licenses, or with an open blocker.                   *)
THEOREM AttemptsLeaveTraces == Spec => AttemptLeavesTrace
<1> DEFINE Trace == started \ started' # {} =>
                      \/ <<state, currentHead, Licensed>> # <<state, currentHead, Licensed>>'
                      \/ blockers' > 0
<1>1. ASSUME Inv, [Next]_vars PROVE Trace
  <2>1. ASSUME NEW p \in Process, FailStartedAttempt(p) PROVE Trace
    BY <1>1, <2>1 DEF FailStartedAttempt, InsertBlocker, Inv, TypeOK
  <2>2. ASSUME NEW p \in Process, Reconcile(p) PROVE Trace
    <3>1. CASE PlanningComplete(p)
      BY <1>1, <3>1 DEF PlanningComplete
    <3>2. CASE ImplementationComplete(p)
      BY <1>1, <3>2 DEF ImplementationComplete
    <3>3. CASE ReviewApproved(p)
      BY <1>1, <3>3 DEF ReviewApproved
    <3>4. CASE AdversaryPass(p)
      BY <1>1, <3>4 DEF AdversaryPass
    <3>5. CASE ValidationPass(p)
      BY <1>1, <3>5 DEF ValidationPass
    <3>6. CASE ArchiveComplete(p)
      BY <1>1, <3>6 DEF ArchiveComplete
    <3>7. CASE CorrectionRequired(p)
      BY <1>1, <3>7 DEF CorrectionRequired, Correcting, Licensed
    <3>8. CASE CorrectionComplete(p)
      BY <1>1, <3>8 DEF CorrectionComplete, Correcting, Licensed
    <3>9. CASE BlockedReadOnly(p)
      BY <1>1, <3>9 DEF BlockedReadOnly, LeaveBlocker, Inv, TypeOK
    <3>10. CASE BlockedImplementer(p)
      BY <1>1, <3>10 DEF BlockedImplementer, LeaveBlocker, Inv, TypeOK
    <3>q. QED
      BY <2>2, <3>1, <3>2, <3>3, <3>4, <3>5, <3>6, <3>7, <3>8, <3>9, <3>10 DEF Reconcile
  <2>3. CASE UNCHANGED started
    BY <2>3
  <2>4. ASSUME NEW p \in Process, AllocateAttempt(p) PROVE Trace
    BY <2>4 DEF AllocateAttempt
  <2>q. QED
    BY <1>1, <2>1, <2>2, <2>3, <2>4, StartedCases
<1>q. QED
  BY <1>1, Invariance, PTL DEF Spec, AttemptLeavesTrace

-----------------------------------------------------------------------------
(* Who may write the checkout.                                             *)

(* A hook that has prepared the checkout, or is about to judge what is in  *)
(* it, keeps agent, operator and every other preparation out of it: these  *)
(* look for its process, and while the marker is cleared no hook takes the *)
(* attempt for one to judge.                                               *)
WorkspaceIsHeld ==
    \A p \in Process :
       /\ process[p].step \in {"prepare", "allocate", "stage", "verify", "reconcile"}
             => process[p].aim = 0
       /\ process[p].step \in {"allocate", "stage"} =>
             /\ marker = 0
             /\ agent = 0
             /\ \A q \in Process \ {p} :
                   process[q].step \notin {"allocate", "stage", "verify", "reconcile"}
       /\ process[p].step \in {"verify", "reconcile"} => agent = 0
       /\ process[p].step = "reconcile" =>
             workspace = [head |-> process[p].head, tree |-> "clean"]

(* What a step of one process does to the records of all.                  *)
LEMMA BecomesOf ==
  ASSUME TypeOK, NEW p \in Process, NEW step, NEW head, NEW run, NEW aim,
         Becomes(p, At(step, head, run, aim))
  PROVE  /\ process'[p].step = step
         /\ process'[p].head = head
         /\ process'[p].aim = aim
         /\ \A q \in Process \ {p} : process'[q] = process[q]
  BY DEF Becomes, At, TypeOK

LEMMA ExitOf ==
  ASSUME TypeOK, NEW p \in Process, Exit(p)
  PROVE  /\ process'[p].step = "idle"
         /\ \A q \in Process \ {p} : process'[q] = process[q]
  BY BecomesOf DEF Exit, Idle

(* An exit frees the checkout and cannot take it from anybody.             *)
LEMMA ExitHolds ==
  ASSUME TypeOK, WorkspaceIsHeld, NEW p \in Process, Exit(p), UNCHANGED outside
  PROVE  WorkspaceIsHeld'
  BY ExitOf DEF WorkspaceIsHeld, outside

(* Nor can a process that turns to failing an attempt.                     *)
LEMMA FailingHolds ==
  ASSUME TypeOK, WorkspaceIsHeld, NEW p \in Process,
         NEW step \in {"fail", "failing"}, NEW run, NEW aim,
         Becomes(p, At(step, NoHead, run, aim)), UNCHANGED outside
  PROVE  WorkspaceIsHeld'
  BY BecomesOf DEF WorkspaceIsHeld, outside

LEMMA ReconcileLeaves ==
  ASSUME NEW p \in Process, Reconcile(p)
  PROVE  Exit(p) /\ UNCHANGED outside
  BY DEF Reconcile, PlanningComplete, ImplementationComplete, ReviewApproved, AdversaryPass,
         ValidationPass, ArchiveComplete, CorrectionRequired, CorrectionComplete,
         BlockedReadOnly, BlockedImplementer, FinishAttempt

LEMMA NextHeld ==
  ASSUME TypeOK, WorkspaceIsHeld, [Next]_vars
  PROVE  WorkspaceIsHeld'
<1>1. CASE \/ QueueTask \/ ResolveBlocker \/ PublicationBlocked \/ PublicationFinalized
           \/ UNCHANGED vars
  BY <1>1 DEF QueueTask, ResolveBlocker, PublicationBlocked, PublicationFinalized,
              WorkspaceIsHeld, outside, vars
<1>2. CASE OperatorRepairsWorkspace
  BY <1>2 DEF OperatorRepairsWorkspace, Hook, WorkspaceIsHeld
<1>3. CASE AgentWorks \/ AgentEnds
  BY <1>3 DEF AgentWorks, AgentEnds, WorkspaceIsHeld
<1>4. ASSUME NEW p \in Process,
             \/ FailAttempt(p) \/ StagingFails(p) \/ PrepareFails(p) \/ Crash(p)
             \/ AllocationConflict(p) \/ AllocationFails(p) \/ Reconcile(p)
      PROVE  WorkspaceIsHeld'
  <2>1. Exit(p) /\ UNCHANGED outside
    BY <1>4, ReconcileLeaves
    DEF FailAttempt, StagingFails, PrepareFails, Crash, AllocationConflict, AllocationFails,
        FailStartedAttempt
  <2>q. QED
    BY <2>1, ExitHolds
<1>5. ASSUME NEW p \in Process,
             OperatorFailsAttempt(p) \/ FindStartedAttempt(p) \/ RejectResult(p)
      PROVE  WorkspaceIsHeld'
  BY <1>5, ExitHolds, FailingHolds
  DEF OperatorFailsAttempt, FindStartedAttempt, RejectResult
<1>6. ASSUME NEW p \in Process, Dispatch(p)
      PROVE  WorkspaceIsHeld'
  <2>1. Becomes(p, At("prepare", currentHead, 0, 0)) /\ UNCHANGED outside
    BY <1>6 DEF Dispatch
  <2>q. QED
    BY <2>1, BecomesOf DEF WorkspaceIsHeld, outside
<1>7. ASSUME NEW p \in Process, AfterRun(p)
      PROVE  WorkspaceIsHeld'
  <2>1. CASE marker \notin started
    BY <1>7, <2>1, FailingHolds DEF AfterRun
  <2>2. CASE marker \in started
    <3>1. /\ Becomes(p, At("verify", NoHead, marker, 0))
          /\ agent = 0
          /\ UNCHANGED outside
      BY <1>7, <2>2 DEF AfterRun
    <3>2. marker # 0
      BY <2>2, LifecycleAssumption DEF TypeOK
    <3>q. QED
      BY <3>1, <3>2, BecomesOf DEF WorkspaceIsHeld, outside
  <2>q. QED
    BY <2>1, <2>2
<1>8. ASSUME NEW p \in Process, VerifyGitTruth(p)
      PROVE  WorkspaceIsHeld'
  <2>1. /\ process[p].step = "verify"
        /\ Becomes(p, At("reconcile", workspace.head, process[p].run, 0))
        /\ UNCHANGED outside
    BY <1>8 DEF VerifyGitTruth
  <2>2. workspace = [head |-> workspace.head, tree |-> "clean"]
    BY <1>8 DEF VerifyGitTruth, TypeOK
  <2>q. QED
    BY <2>1, <2>2, BecomesOf DEF WorkspaceIsHeld, outside
<1>9. ASSUME NEW p \in Process, PrepareWorkspace(p)
      PROVE  WorkspaceIsHeld'
  <2>1. /\ Becomes(p, At("allocate", NoHead, 0, 0))
        /\ marker' = 0 /\ agent' = agent
    BY <1>9 DEF PrepareWorkspace
  <2>2. agent = 0 /\ \A q \in Process \ {p} : process[q].step = "idle" \/ process[q].aim # 0
    BY <1>9 DEF PrepareWorkspace, WorkspaceInUse, Hook
  <2>q. QED
    BY <2>1, <2>2, BecomesOf DEF WorkspaceIsHeld
<1>10. ASSUME NEW p \in Process, AllocateAttempt(p)
       PROVE  WorkspaceIsHeld'
  <2>1. /\ process[p].step = "allocate"
        /\ Becomes(p, At("stage", NoHead, NextRound, 0))
        /\ UNCHANGED outside
    BY <1>10 DEF AllocateAttempt
  <2>q. QED
    BY <2>1, BecomesOf DEF WorkspaceIsHeld, outside
<1>11. ASSUME NEW p \in Process, StageAttempt(p)
       PROVE  WorkspaceIsHeld'
  BY <1>11, ExitOf DEF StageAttempt, WorkspaceIsHeld
<1>q. QED
  BY <1>1, <1>2, <1>3, <1>4, <1>5, <1>6, <1>7, <1>8, <1>9, <1>10, <1>11
  DEF Next, HookStep

(* Only a result moves the HEAD of the task ...                            *)
LEMMA HeadStays ==
  ASSUME [Next]_vars, ~ \E p \in Process : Reconcile(p)
  PROVE  UNCHANGED currentHead
  BY DEF Next, HookStep, QueueTask, ResolveBlocker, OperatorRepairsWorkspace, AgentWorks,
         AgentEnds, PublicationBlocked, PublicationFinalized, OperatorFailsAttempt, Dispatch,
         AfterRun, Crash, FindStartedAttempt, FailAttempt, FailStartedAttempt,
         PrepareWorkspace, PrepareFails, AllocateAttempt, AllocationConflict,
         AllocationFails, StageAttempt, StagingFails, VerifyGitTruth, RejectResult, taskRow,
         database, vars

(* ... to the HEAD that was read.                                          *)
LEMMA HeadMoves ==
  ASSUME [Next]_vars, currentHead' # currentHead
  PROVE  \E p \in Process : /\ process[p].step = "reconcile"
                            /\ currentHead' = process[p].head
                            /\ UNCHANGED workspace
<1>1. PICK p \in Process : Reconcile(p)
  BY HeadStays
<1>2. process[p].step = "reconcile" /\ UNCHANGED workspace
  BY <1>1, ReconcileLeaves
  DEF outside, Reconcile, Reconcilable, PlanningComplete, ImplementationComplete,
      ReviewApproved, AdversaryPass, ValidationPass, ArchiveComplete, CorrectionRequired,
      CorrectionComplete, BlockedReadOnly, BlockedImplementer
<1>3. currentHead' = process[p].head
  BY <1>1
  DEF MoveHead, taskRow, Reconcile, PlanningComplete, ImplementationComplete,
      ReviewApproved, AdversaryPass, ValidationPass, ArchiveComplete, CorrectionRequired,
      CorrectionComplete, BlockedReadOnly, BlockedImplementer
<1>q. QED
  BY <1>2, <1>3

(* AcceptedHeadIsCheckedOut: verify_git_truth reads the checkout before    *)
(* _reconcile begins its transaction, and yet the HEAD that is accepted is *)
(* the clean checkout's at the commit, however many hooks overlap.         *)
THEOREM AcceptedHeadsAreCheckedOut == Spec => AcceptedHeadIsCheckedOut
<1> DEFINE CheckedOut == currentHead' # currentHead =>
                            workspace.tree = "clean" /\ currentHead' = workspace.head
<1>1. Init => WorkspaceIsHeld
  BY DEF Init, WorkspaceIsHeld, Idle, At
<1>2. ASSUME WorkspaceIsHeld, [Next]_vars PROVE CheckedOut
  BY <1>2, HeadMoves DEF WorkspaceIsHeld
<1>q. QED
  BY <1>1, <1>2, NextHeld, TypeCorrect, PTL DEF Spec, AcceptedHeadIsCheckedOut

-----------------------------------------------------------------------------
(* The checkout at closeout.                                               *)

(* From closeout on no agent works, and none is about to be launched. *)
CloseoutIsQuiet ==
    state \in PublishingStates =>
        /\ agent = 0
        /\ \A p \in Process : process[p].step # "stage"

(* A hook prepares from an older HEAD than the task's only when the result *)
(* that moved it was the last for now: no attempt is started, none is      *)
(* about to be, and none can be as long as that hook is in the checkout.   *)
StaleFactsAreLate ==
    \A p \in Process :
       process[p].step = "prepare" /\ process[p].head # currentHead =>
          /\ state \notin PublishingStates
          /\ started = {}
          /\ \A q \in Process : process[q].step # "allocate"

(* The inductive invariant of the checkout. *)
CheckoutInv ==
    /\ Inv
    /\ WorkspaceIsHeld
    /\ CloseoutIsQuiet
    /\ StaleFactsAreLate
    /\ CheckoutIsKept

(* A task's state is earlier than its closeout, or one of the two.         *)
LEMMA StatesOf ==
  /\ TaskState = PublishingStates \cup ActiveStates \cup {"PREPARED"}
  /\ PublishingStates \cap (ActiveStates \cup {"PREPARED"}) = {}
  BY DEF TaskState, PublishingStates, ActiveStates

(* No agent is launched but for a staged attempt, and none is staged that  *)
(* has not been allocated.                                                 *)
LEMMA NoneIsLaunched ==
  ASSUME TypeOK, [Next]_vars,
         \A p \in Process : ~AllocateAttempt(p) /\ ~StageAttempt(p)
  PROVE  /\ agent' \in {0, agent}
         /\ \A p \in Process : process'[p].step = "stage" => process[p].step = "stage"
<1> DEFINE Launch == /\ agent' \in {0, agent}
                     /\ \A p \in Process :
                           process'[p].step = "stage" => process[p].step = "stage"
<1>1. CASE \/ QueueTask \/ ResolveBlocker \/ PublicationBlocked \/ PublicationFinalized
           \/ OperatorRepairsWorkspace \/ AgentWorks \/ AgentEnds \/ UNCHANGED vars
  BY <1>1 DEF QueueTask, ResolveBlocker, PublicationBlocked, PublicationFinalized,
     OperatorRepairsWorkspace, AgentWorks, AgentEnds, outside, vars
<1>2. ASSUME NEW p \in Process, NEW step, NEW head, NEW run, NEW aim,
             Becomes(p, At(step, head, run, aim)), step # "stage", UNCHANGED agent
      PROVE  Launch
  BY <1>2, BecomesOf
<1>3. ASSUME NEW p \in Process, Exit(p), UNCHANGED agent
      PROVE  Launch
  BY <1>3, ExitOf
<1>4. ASSUME NEW p \in Process,
             \/ FailAttempt(p) \/ StagingFails(p) \/ PrepareFails(p) \/ Crash(p)
             \/ AllocationConflict(p) \/ AllocationFails(p) \/ Reconcile(p)
      PROVE  Launch
  <2>1. Exit(p) /\ UNCHANGED outside
    BY <1>4, ReconcileLeaves
    DEF FailAttempt, StagingFails, PrepareFails, Crash, AllocationConflict, AllocationFails,
        FailStartedAttempt
  <2>q. QED
    BY <1>3, <2>1 DEF outside
<1>5. ASSUME NEW p \in Process,
             \/ OperatorFailsAttempt(p) \/ FindStartedAttempt(p) \/ RejectResult(p)
             \/ Dispatch(p) \/ AfterRun(p) \/ VerifyGitTruth(p) \/ PrepareWorkspace(p)
      PROVE  Launch
  BY <1>2, <1>3, <1>5
  DEF OperatorFailsAttempt, FindStartedAttempt, RejectResult, Dispatch, AfterRun,
      VerifyGitTruth, PrepareWorkspace, outside
<1>q. QED
  BY <1>1, <1>4, <1>5 DEF Next, HookStep

(* The steps that leave the task at closeout: a result brings it there, or *)
(* it was there.                                                           *)
LEMMA CloseoutCases ==
  ASSUME TypeOK, [Next]_vars, state' \in PublishingStates
  PROVE  state \in PublishingStates \/ \E p \in Process : Reconcile(p)
  BY StepCases
  DEF QueueTask, AllocateAttempt, PublicationFinalized, Quiet, taskRow, PublishingStates

(* The hook whose result brings the task to ARCHIVIST has the checkout to  *)
(* itself, so that no other is then about to launch an agent; and none is  *)
(* allocated an attempt afterwards.                                        *)
LEMMA QuietSteps ==
  ASSUME Inv, WorkspaceIsHeld, CloseoutIsQuiet, [Next]_vars
  PROVE  CloseoutIsQuiet'
<1>1. TypeOK
  BY DEF Inv
<1>2. ASSUME NEW p \in Process, Reconcile(p), state' \in PublishingStates
      PROVE  CloseoutIsQuiet'
  <2>1. process[p].step = "reconcile" /\ Exit(p) /\ UNCHANGED outside
    BY <1>2, ReconcileLeaves
    DEF Reconcile, Reconcilable, PlanningComplete, ImplementationComplete, ReviewApproved,
        AdversaryPass, ValidationPass, ArchiveComplete, CorrectionRequired,
        CorrectionComplete, BlockedReadOnly, BlockedImplementer
  <2>2. agent = 0 /\ \A q \in Process : process[q].step # "stage"
    BY <1>1, <2>1 DEF WorkspaceIsHeld
  <2>q. QED
    BY <1>1, <2>1, <2>2, ExitOf DEF CloseoutIsQuiet, outside
<1>3. ASSUME state \in PublishingStates
      PROVE  CloseoutIsQuiet'
  <2>1. /\ agent = 0 /\ \A p \in Process : process[p].step # "stage"
        /\ \A p \in Process : ~AllocateAttempt(p) /\ ~StageAttempt(p)
    BY <1>3, StatesOf DEF CloseoutIsQuiet, AllocateAttempt, MayAllocate, StageAttempt
  <2>q. QED
    BY <1>1, <2>1, NoneIsLaunched DEF CloseoutIsQuiet
<1>4. CASE state' \notin PublishingStates
  BY <1>4 DEF CloseoutIsQuiet
<1>q. QED
  BY <1>1, <1>2, <1>3, <1>4, CloseoutCases

(* A step that neither moves the HEAD nor starts, prepares or allocates.   *)
LEMMA LateStays ==
  ASSUME StaleFactsAreLate, UNCHANGED currentHead, started' \subseteq started,
         state' \in PublishingStates => state \in PublishingStates,
         \A p \in Process : /\ process'[p].step = "prepare" => process'[p] = process[p]
                            /\ process'[p].step = "allocate" => process'[p] = process[p]
  PROVE  StaleFactsAreLate'
  BY DEF StaleFactsAreLate

(* Nor a process that turns to another step than those of a preparation.   *)
LEMMA LateTurns ==
  ASSUME TypeOK, StaleFactsAreLate, NEW p \in Process, NEW step, NEW head, NEW run, NEW aim,
         Becomes(p, At(step, head, run, aim)), step \notin {"prepare", "allocate"},
         UNCHANGED <<state, currentHead>>, started' \subseteq started
  PROVE  StaleFactsAreLate'
<1>1. \A q \in Process : /\ process'[q].step = "prepare" => process'[q] = process[q]
                         /\ process'[q].step = "allocate" => process'[q] = process[q]
  BY BecomesOf
<1>q. QED
  BY <1>1, LateStays

LEMMA LateExits ==
  ASSUME TypeOK, StaleFactsAreLate, NEW p \in Process, Exit(p),
         UNCHANGED <<state, currentHead>>, started' \subseteq started
  PROVE  StaleFactsAreLate'
  BY LateTurns DEF Exit, Idle

(* What a result leaves: no attempt is started, no hook about to allocate  *)
(* one, and the HEAD does not move on the way to closeout.                 *)
LEMMA ReconcileSteps ==
  ASSUME Inv, WorkspaceIsHeld, NEW p \in Process, Reconcile(p)
  PROVE  /\ process[p].step = "reconcile" /\ process[p].run \in started /\ Exit(p)
         /\ started' = {}
         /\ \A q \in Process : process'[q].step # "allocate"
         /\ state' \in PublishingStates =>
               currentHead' = currentHead /\ HeadUnmoved(p)
<1>1. Reconcilable(p) /\ Exit(p) /\ started' = started \ {process[p].run}
  BY DEF Reconcile, PlanningComplete, ImplementationComplete, ReviewApproved, AdversaryPass,
     ValidationPass, ArchiveComplete, CorrectionRequired, CorrectionComplete,
     BlockedReadOnly, BlockedImplementer, FinishAttempt
<1>2. process[p].step = "reconcile" /\ process[p].run \in started /\ started' = {}
  BY <1>1 DEF Reconcilable, Inv, SingleAttempt
<1>3. \A q \in Process : process'[q].step # "allocate"
  BY <1>1, <1>2, ExitOf DEF WorkspaceIsHeld, Inv
<1>4. state \notin PublishingStates
  BY <1>2 DEF Inv, CloseoutComplete
<1>5. state' \in PublishingStates => currentHead' = currentHead /\ HeadUnmoved(p)
  BY <1>4 DEF Reconcile, PlanningComplete, ImplementationComplete, ReviewApproved,
     AdversaryPass, ValidationPass, ArchiveComplete, CorrectionRequired, CorrectionComplete,
     BlockedReadOnly, BlockedImplementer, Corrected, taskRow, PublishingStates
<1>q. QED
  BY <1>1, <1>2, <1>3, <1>5

LEMMA NextLate ==
  ASSUME Inv, WorkspaceIsHeld, StaleFactsAreLate, [Next]_vars
  PROVE  StaleFactsAreLate'
<1>0. TypeOK
  BY DEF Inv
<1>1. CASE \/ QueueTask \/ ResolveBlocker \/ PublicationBlocked \/ PublicationFinalized
           \/ OperatorRepairsWorkspace \/ AgentWorks \/ AgentEnds \/ UNCHANGED vars
  <2>1. /\ UNCHANGED <<currentHead, started, process>>
        /\ state' \in PublishingStates => state \in PublishingStates
    BY <1>1
    DEF QueueTask, ResolveBlocker, PublicationBlocked, PublicationFinalized, taskRow,
        OperatorRepairsWorkspace, AgentWorks, AgentEnds, attemptRows, database, vars,
        PublishingStates
  <2>q. QED
    BY <2>1, LateStays
<1>2. ASSUME NEW p \in Process, Reconcile(p)
      PROVE  StaleFactsAreLate'
  <2>1. \A q \in Process : process'[q].step = "prepare" => process'[q] = process[q]
    BY <1>0, <1>2, ReconcileSteps, ExitOf
  <2>2. \A q \in Process : process[q].step = "prepare" => process[q].head = currentHead
    BY <1>2, ReconcileSteps DEF StaleFactsAreLate
  <2>q. QED
    BY <1>2, <2>1, <2>2, ReconcileSteps DEF StaleFactsAreLate
<1>3. ASSUME NEW p \in Process,
             \/ FailAttempt(p) \/ StagingFails(p) \/ PrepareFails(p) \/ AllocationConflict(p)
             \/ AllocationFails(p) \/ StageAttempt(p) \/ Crash(p)
      PROVE  StaleFactsAreLate'
  <2>1. Exit(p) /\ UNCHANGED <<state, currentHead>> /\ started' \subseteq started
    BY <1>3
    DEF FailAttempt, StagingFails, FailStartedAttempt, PrepareFails, AllocationConflict,
        AllocationFails, StageAttempt, Crash, taskRow, attemptRows, database
  <2>q. QED
    BY <1>0, <2>1, LateExits
<1>4. ASSUME NEW p \in Process,
             \/ OperatorFailsAttempt(p) \/ FindStartedAttempt(p) \/ RejectResult(p)
             \/ AfterRun(p) \/ VerifyGitTruth(p)
      PROVE  StaleFactsAreLate'
  <2>1. UNCHANGED <<state, currentHead>> /\ started' \subseteq started
    BY <1>4
    DEF OperatorFailsAttempt, FindStartedAttempt, RejectResult, AfterRun, VerifyGitTruth,
        database
  <2>q. QED
    BY <1>0, <1>4, <2>1, LateExits, LateTurns
    DEF OperatorFailsAttempt, FindStartedAttempt, RejectResult, AfterRun, VerifyGitTruth
<1>5. ASSUME NEW p \in Process, Dispatch(p)
      PROVE  StaleFactsAreLate'
  <2>1. Becomes(p, At("prepare", currentHead, 0, 0)) /\ UNCHANGED <<state, currentHead, started>>
    BY <1>5 DEF Dispatch, database
  <2>q. QED
    BY <1>0, <2>1, BecomesOf DEF StaleFactsAreLate
<1>6. ASSUME NEW p \in Process, PrepareWorkspace(p)
      PROVE  StaleFactsAreLate'
  <2>1. Becomes(p, At("allocate", NoHead, 0, 0))
    BY <1>6 DEF PrepareWorkspace
  <2>2. \A q \in Process \ {p} : process[q].step # "prepare"
    BY <1>6 DEF PrepareWorkspace, WorkspaceInUse, Hook, WorkspaceIsHeld
  <2>q. QED
    BY <1>0, <2>1, <2>2, BecomesOf DEF StaleFactsAreLate
<1>7. ASSUME NEW p \in Process, AllocateAttempt(p)
      PROVE  StaleFactsAreLate'
  <2>1. /\ process[p].step = "allocate" /\ UNCHANGED currentHead
        /\ Becomes(p, At("stage", NoHead, NextRound, 0))
    BY <1>7 DEF AllocateAttempt, taskRow
  <2>q. QED
    BY <1>0, <2>1, BecomesOf DEF StaleFactsAreLate
<1>q. QED
  BY <1>1, <1>2, <1>3, <1>4, <1>5, <1>6, <1>7 DEF Next, HookStep

LEMMA NextKept ==
  ASSUME CheckoutInv, [Next]_vars
  PROVE  CheckoutIsKept'
<1>0. /\ Inv /\ TypeOK /\ WorkspaceIsHeld
      /\ state \in PublishingStates => currentHead # NoHead
      /\ state \in PublishingStates => SelectedHead = currentHead
  BY DEF CheckoutInv, Inv, CloseoutComplete, SelectedHead
<1>1. ASSUME NEW p \in Process, Reconcile(p), state' \in PublishingStates
      PROVE  workspace' = [head |-> currentHead', tree |-> "clean"]
  <2>1. /\ UNCHANGED <<currentHead, workspace>> /\ process[p].head = SelectedHead
        /\ workspace = [head |-> process[p].head, tree |-> "clean"]
    BY <1>0, <1>1, ReconcileSteps, ReconcileLeaves DEF WorkspaceIsHeld, HeadUnmoved, outside
  <2>2. currentHead' # NoHead
    BY <1>0, <1>1, NextInv DEF Inv, CloseoutComplete
  <2>q. QED
    BY <2>1, <2>2 DEF SelectedHead
<1>2. CASE state \in PublishingStates /\ \A p \in Process : ~Reconcile(p)
  <2>1. workspace = [head |-> currentHead, tree |-> "clean"] /\ agent = 0
    BY <1>2 DEF CheckoutInv, CheckoutIsKept, CloseoutIsQuiet
  <2>2. UNCHANGED currentHead
    <3>1. ~ \E p \in Process : Reconcile(p)
      BY <1>2
    <3>q. QED
      BY <3>1, HeadStays
  <2>3. ASSUME NEW p \in Process, PrepareWorkspace(p)
        PROVE  UNCHANGED workspace
    <3>1. process[p].head = currentHead /\ currentHead # NoHead
      BY <1>0, <1>2, <2>3 DEF PrepareWorkspace, CheckoutInv, StaleFactsAreLate
    <3>q. QED
      BY <2>3, <3>1 DEF PrepareWorkspace
  <2>4. ASSUME NEW p \in Process, HookStep(p)
        PROVE  UNCHANGED workspace
    BY <1>2, <2>3, <2>4
    DEF HookStep, FindStartedAttempt, FailAttempt, PrepareFails, AllocateAttempt,
        AllocationConflict, AllocationFails, StageAttempt, StagingFails, FailStartedAttempt,
        VerifyGitTruth, RejectResult, outside
  <2>5. workspace' \in {workspace, [head |-> SelectedHead, tree |-> "clean"]}
    BY <2>1, <2>4
    DEF Next, QueueTask, ResolveBlocker, PublicationBlocked, PublicationFinalized,
        OperatorRepairsWorkspace, AgentWorks, AgentEnds, OperatorFailsAttempt, Dispatch,
        AfterRun, Crash, outside, vars
  <2>q. QED
    BY <1>0, <1>2, <2>1, <2>2, <2>5 DEF CheckoutIsKept
<1>q. QED
  BY <1>0, <1>1, <1>2, CloseoutCases DEF CheckoutIsKept

LEMMA NextCheckout == CheckoutInv /\ [Next]_vars => CheckoutInv'
<1> SUFFICES ASSUME CheckoutInv, [Next]_vars
             PROVE  CheckoutInv'
  OBVIOUS
<1>1. Inv' /\ WorkspaceIsHeld'
  BY NextInv, NextHeld DEF CheckoutInv, Inv
<1>2. CloseoutIsQuiet' /\ StaleFactsAreLate' /\ CheckoutIsKept'
  BY QuietSteps, NextLate, NextKept DEF CheckoutInv
<1>q. QED
  BY <1>1, <1>2 DEF CheckoutInv

LEMMA InitCheckout == Init => CheckoutInv
<1> SUFFICES ASSUME Init
             PROVE  CheckoutInv
  OBVIOUS
<1>1. Inv
  BY InitInv
<1>2. WorkspaceIsHeld /\ CloseoutIsQuiet /\ StaleFactsAreLate /\ CheckoutIsKept
  BY DEF Init, WorkspaceIsHeld, CloseoutIsQuiet, StaleFactsAreLate, CheckoutIsKept,
         PublishingStates, Idle, At
<1>q. QED
  BY <1>1, <1>2 DEF CheckoutInv

(* What verify_workspace asks of the checkout holds at closeout: a hook    *)
(* that prepares late does so from the task's HEAD, and no agent writes.   *)
THEOREM CheckoutStaysAtHead == Spec => []CheckoutIsKept
<1>1. CheckoutInv => CheckoutIsKept
  BY DEF CheckoutInv
<1>q. QED
  BY <1>1, InitCheckout, NextCheckout, PTL DEF Spec

-----------------------------------------------------------------------------
(* The two windows that the code leaves open, and that nothing else does.  *)

(* No hook reconciles a result while another prepares from the facts it    *)
(* has read, and no attempt is being failed while it is staged.            *)
FactsStayCurrent ==
    \A p, q \in Process :
       /\ process[p].step = "prepare" => process[q].step # "reconcile"
       /\ process[p].step = "stage" => process[q].step # "failing"

(* The checkout is where the facts say, from the facts of prepare on up to *)
(* the launch.                                                             *)
PreparedAtHead ==
    \A p \in Process :
       /\ process[p].step = "prepare" => process[p].head = currentHead
       /\ process[p].step = "allocate" =>
             workspace = [head |-> SelectedHead, tree |-> "clean"]
       /\ process[p].step = "stage" =>
             workspace = [head |-> packet[process[p].run].head, tree |-> "clean"]

(* A process that turns to a step which asks nothing of the checkout.      *)
LEMMA TurningPrepared ==
  ASSUME TypeOK, PreparedAtHead, NEW p \in Process, NEW step, NEW head, NEW run, NEW aim,
         Becomes(p, At(step, head, run, aim)), step \notin {"prepare", "allocate", "stage"},
         UNCHANGED <<currentHead, packet, workspace>>
  PROVE  PreparedAtHead'
  BY BecomesOf DEF PreparedAtHead, SelectedHead

LEMMA ExitingPrepared ==
  ASSUME TypeOK, PreparedAtHead, NEW p \in Process, Exit(p),
         UNCHANGED <<currentHead, packet, workspace>>
  PROVE  PreparedAtHead'
  BY TurningPrepared DEF Exit, Idle

(* No attempt is failed that another hook is about to launch.              *)
LEMMA FailingPrepared ==
  ASSUME TypeOK, WorkspaceIsHeld, FactsStayCurrent, PreparedAtHead,
         NEW p \in Process, FailAttempt(p) \/ StagingFails(p)
  PROVE  PreparedAtHead'
<1>1. /\ Exit(p) /\ UNCHANGED <<currentHead, workspace>>
      /\ process[p].step \in {"failing", "stage"}
  BY DEF FailAttempt, StagingFails, FailStartedAttempt, taskRow, outside
<1>2. \A q \in Process \ {p} : process[q].step # "stage"
  BY <1>1 DEF WorkspaceIsHeld, FactsStayCurrent
<1>q. QED
  BY <1>1, <1>2, ExitOf DEF PreparedAtHead, SelectedHead

(* A result is reconciled when nobody prepares.                            *)
LEMMA ReconcilingPrepared ==
  ASSUME TypeOK, WorkspaceIsHeld, FactsStayCurrent, PreparedAtHead,
         NEW p \in Process, Reconcile(p)
  PROVE  PreparedAtHead'
<1>1. Exit(p) /\ process[p].step = "reconcile"
  BY ReconcileLeaves
  DEF Reconcile, Reconcilable, PlanningComplete, ImplementationComplete, ReviewApproved,
      AdversaryPass, ValidationPass, ArchiveComplete, CorrectionRequired,
      CorrectionComplete, BlockedReadOnly, BlockedImplementer
<1>2. \A q \in Process \ {p} : process[q].step \notin {"prepare", "allocate", "stage"}
  BY <1>1 DEF WorkspaceIsHeld, FactsStayCurrent
<1>q. QED
  BY <1>1, <1>2, ExitOf DEF PreparedAtHead

LEMMA NextPrepared ==
  ASSUME TypeOK, WorkspaceIsHeld, FactsStayCurrent, PreparedAtHead, [Next]_vars
  PROVE  PreparedAtHead'
<1>1. CASE \/ QueueTask \/ ResolveBlocker \/ PublicationBlocked \/ PublicationFinalized
           \/ AgentEnds \/ UNCHANGED vars
  BY <1>1
  DEF QueueTask, ResolveBlocker, PublicationBlocked, PublicationFinalized, AgentEnds,
      PreparedAtHead, SelectedHead, taskRow, attemptRows, database, outside, vars
<1>2. CASE OperatorRepairsWorkspace \/ AgentWorks
  <2>1. \A p \in Process : process[p].step \notin {"allocate", "stage"}
    BY <1>2 DEF OperatorRepairsWorkspace, AgentWorks, Hook, WorkspaceIsHeld
  <2>q. QED
    BY <1>2, <2>1 DEF OperatorRepairsWorkspace, AgentWorks, PreparedAtHead, database
<1>3. ASSUME NEW p \in Process,
             PrepareFails(p) \/ Crash(p) \/ AllocationConflict(p) \/ AllocationFails(p)
      PROVE  PreparedAtHead'
  BY <1>3, ExitingPrepared
  DEF PrepareFails, Crash, AllocationConflict, AllocationFails, taskRow, attemptRows, outside,
      database
<1>4. ASSUME NEW p \in Process,
             \/ OperatorFailsAttempt(p) \/ FindStartedAttempt(p) \/ RejectResult(p)
             \/ AfterRun(p) \/ VerifyGitTruth(p)
      PROVE  PreparedAtHead'
  <2>1. UNCHANGED <<currentHead, packet, workspace>>
    BY <1>4
    DEF OperatorFailsAttempt, FindStartedAttempt, RejectResult, AfterRun, VerifyGitTruth,
        database, outside
  <2>q. QED
    BY <1>4, <2>1, ExitingPrepared, TurningPrepared
    DEF OperatorFailsAttempt, FindStartedAttempt, RejectResult, AfterRun, VerifyGitTruth
<1>5. ASSUME NEW p \in Process, Dispatch(p)
      PROVE  PreparedAtHead'
  <2>1. Becomes(p, At("prepare", currentHead, 0, 0)) /\ UNCHANGED <<currentHead, packet, workspace>>
    BY <1>5 DEF Dispatch, database, outside
  <2>q. QED
    BY <2>1, BecomesOf DEF PreparedAtHead, SelectedHead
<1>6. ASSUME NEW p \in Process, PrepareWorkspace(p)
      PROVE  PreparedAtHead'
  <2>1. /\ Becomes(p, At("allocate", NoHead, 0, 0)) /\ UNCHANGED <<currentHead, packet>>
        /\ process[p].head = currentHead
    BY <1>6 DEF PrepareWorkspace, PreparedAtHead, database
  <2>2. workspace' = [head |-> SelectedHead, tree |-> "clean"]
    <3>1. CASE currentHead = NoHead
      <4>1. workspace.head # currentHead
        BY <3>1, LifecycleAssumption DEF TypeOK
      <4>q. QED
        BY <1>6, <2>1, <3>1, <4>1 DEF PrepareWorkspace, RetainedCheckout, SelectedHead
    <3>2. CASE currentHead # NoHead
      BY <1>6, <2>1, <3>2 DEF PrepareWorkspace, RetainedCheckout, SelectedHead, TypeOK
    <3>q. QED
      BY <3>1, <3>2
  <2>3. \A q \in Process \ {p} : process[q].step \notin {"allocate", "stage"}
    BY <1>6 DEF PrepareWorkspace, WorkspaceInUse, Hook, WorkspaceIsHeld
  <2>q. QED
    BY <2>1, <2>2, <2>3, BecomesOf DEF PreparedAtHead, SelectedHead
<1>7. ASSUME NEW p \in Process, AllocateAttempt(p)
      PROVE  PreparedAtHead'
  <2>1. /\ process[p].step = "allocate" /\ Becomes(p, At("stage", NoHead, NextRound, 0))
        /\ UNCHANGED <<currentHead, workspace>>
    BY <1>7 DEF AllocateAttempt, taskRow, outside
  <2>2. packet'[NextRound].head = SelectedHead
    <3>1. NextRound \in Attempt
      BY <1>7, LifecycleAssumption DEF AllocateAttempt, NextRound, Attempt, TypeOK
    <3>q. QED
      BY <1>7, <3>1 DEF AllocateAttempt, TypeOK
  <2>3. process'[p].run = NextRound
    BY <2>1 DEF Becomes, At, TypeOK
  <2>4. \A q \in Process \ {p} : process[q].step \notin {"allocate", "stage"}
    BY <2>1 DEF WorkspaceIsHeld
  <2>q. QED
    BY <2>1, <2>2, <2>3, <2>4, BecomesOf DEF PreparedAtHead, SelectedHead
<1>8. ASSUME NEW p \in Process, StageAttempt(p)
      PROVE  PreparedAtHead'
  BY <1>8, ExitingPrepared DEF StageAttempt, database
<1>q. QED
  BY <1>1, <1>2, <1>3, <1>4, <1>5, <1>6, <1>7, <1>8, FailingPrepared, ReconcilingPrepared
  DEF Next, HookStep

(* LaunchedAtSelectedHead fails only through those two windows: where the  *)
(* hooks stay out of them, every agent starts from the HEAD that its       *)
(* packet names, whatever crashes, commands and other hooks there are.     *)
THEOREM LaunchesAreCurrent == Spec /\ []FactsStayCurrent => LaunchedAtSelectedHead
<1> DEFINE Launched == agent' \notin {0, agent} =>
                          workspace.tree = "clean" /\ workspace.head = packet[agent'].head
<1>1. Init => WorkspaceIsHeld /\ PreparedAtHead
  BY DEF Init, WorkspaceIsHeld, PreparedAtHead, Idle, At
<1>2. ASSUME TypeOK, PreparedAtHead, [Next]_vars PROVE Launched
  <2>1. ASSUME NEW p \in Process, StageAttempt(p)
        PROVE  Launched
    BY <1>2, <2>1 DEF StageAttempt, PreparedAtHead
  <2>2. ASSUME \A p \in Process : ~StageAttempt(p)
        PROVE  agent' \in {0, agent}
    <3>1. ASSUME NEW p \in Process, HookStep(p)
          PROVE  UNCHANGED agent
      BY <2>2, <3>1, ReconcileLeaves
      DEF HookStep, FindStartedAttempt, FailAttempt, PrepareWorkspace, PrepareFails,
          AllocateAttempt, AllocationConflict, AllocationFails, StagingFails,
          FailStartedAttempt, VerifyGitTruth, RejectResult, outside
    <3>q. QED
      BY <1>2, <3>1
      DEF Next, QueueTask, ResolveBlocker, PublicationBlocked, PublicationFinalized,
          OperatorRepairsWorkspace, AgentWorks, AgentEnds, OperatorFailsAttempt, Dispatch,
          AfterRun, Crash, outside, vars
  <2>q. QED
    BY <2>1, <2>2
<1>q. QED
  BY <1>1, <1>2, NextHeld, NextPrepared, TypeCorrect, PTL DEF Spec, LaunchedAtSelectedHead

(* No hook is allocating while the operator's fail-attempt runs. *)
NoneAllocatedBeside ==
    \A p, q \in Process : process[p].aim # 0 => process[q].step # "allocate"

(* A command of the operator is alive only to fail an attempt, and while   *)
(* it is, none is started but the one it was launched for.                 *)
CommandsAreAimed ==
    \A p \in Process :
       process[p].aim # 0 =>
          /\ process[p].step \in {"fail", "failing"}
          /\ started \subseteq {process[p].aim}
          /\ process[p].step = "failing" => process[p].run = process[p].aim

(* What a process that is no command turns to.                             *)
LEMMA TurningAimed ==
  ASSUME TypeOK, CommandsAreAimed, NEW p \in Process, NEW step, NEW head, NEW run,
         Becomes(p, At(step, head, run, 0)), started' \subseteq started
  PROVE  CommandsAreAimed'
  BY BecomesOf DEF CommandsAreAimed

LEMMA ExitingAimed ==
  ASSUME TypeOK, CommandsAreAimed, NEW p \in Process, Exit(p), started' \subseteq started
  PROVE  CommandsAreAimed'
  BY TurningAimed DEF Exit, Idle

LEMMA NextAimed ==
  ASSUME TypeOK, SingleAttempt, CommandsAreAimed, NoneAllocatedBeside, [Next]_vars
  PROVE  CommandsAreAimed'
<1>1. CASE \/ QueueTask \/ ResolveBlocker \/ PublicationBlocked \/ PublicationFinalized
           \/ OperatorRepairsWorkspace \/ AgentWorks \/ AgentEnds \/ UNCHANGED vars
  BY <1>1
  DEF QueueTask, ResolveBlocker, PublicationBlocked, PublicationFinalized,
      OperatorRepairsWorkspace, AgentWorks, AgentEnds, CommandsAreAimed, attemptRows,
      database, vars
<1>2. ASSUME NEW p \in Process,
             \/ FailAttempt(p) \/ StagingFails(p) \/ PrepareFails(p) \/ AllocationConflict(p)
             \/ AllocationFails(p) \/ StageAttempt(p) \/ Crash(p) \/ Reconcile(p)
      PROVE  CommandsAreAimed'
  <2>1. Exit(p)
    BY <1>2, ReconcileLeaves
    DEF FailAttempt, StagingFails, FailStartedAttempt, PrepareFails, AllocationConflict,
        AllocationFails, StageAttempt, Crash
  <2>2. started' \subseteq started
    BY <1>2
    DEF FailAttempt, StagingFails, FailStartedAttempt, PrepareFails, AllocationConflict,
        AllocationFails, StageAttempt, Crash, Reconcile, PlanningComplete,
        ImplementationComplete, ReviewApproved, AdversaryPass, ValidationPass,
        ArchiveComplete, CorrectionRequired, CorrectionComplete, BlockedReadOnly,
        BlockedImplementer, FinishAttempt, attemptRows, database
  <2>q. QED
    BY <2>1, <2>2, ExitingAimed
<1>3. ASSUME NEW p \in Process,
             \/ Dispatch(p) \/ AfterRun(p) \/ PrepareWorkspace(p) \/ VerifyGitTruth(p)
             \/ RejectResult(p)
      PROVE  CommandsAreAimed'
  <2>1. started' \subseteq started
    BY <1>3 DEF Dispatch, AfterRun, PrepareWorkspace, VerifyGitTruth, RejectResult, database
  <2>q. QED
    BY <1>3, <2>1, TurningAimed
    DEF Dispatch, AfterRun, PrepareWorkspace, VerifyGitTruth, RejectResult
<1>4. ASSUME NEW p \in Process, OperatorFailsAttempt(p)
      PROVE  CommandsAreAimed'
  <2>1. PICK r \in started : Becomes(p, At("fail", NoHead, 0, r))
    BY <1>4 DEF OperatorFailsAttempt
  <2>2. UNCHANGED started /\ started \subseteq {r}
    BY <1>4 DEF OperatorFailsAttempt, database, SingleAttempt
  <2>q. QED
    BY <2>1, <2>2, BecomesOf DEF CommandsAreAimed
<1>5. ASSUME NEW p \in Process, FindStartedAttempt(p)
      PROVE  CommandsAreAimed'
  <2>1. UNCHANGED started
    BY <1>5 DEF FindStartedAttempt, database
  <2>2. CASE Exit(p)
    BY <2>1, <2>2, ExitingAimed
  <2>3. ASSUME NEW r \in started, Becomes(p, At("failing", NoHead, r, process[p].aim))
        PROVE  CommandsAreAimed'
    <3>1. process'[p].run = r
      BY <2>3 DEF Becomes, At, TypeOK
    <3>2. process[p].aim # 0 => r = process[p].aim
      BY <2>3 DEF CommandsAreAimed
    <3>q. QED
      BY <2>1, <2>3, <3>1, <3>2, BecomesOf DEF CommandsAreAimed
  <2>q. QED
    BY <1>5, <2>2, <2>3 DEF FindStartedAttempt
<1>6. ASSUME NEW p \in Process, AllocateAttempt(p)
      PROVE  CommandsAreAimed'
  <2>1. /\ Becomes(p, At("stage", NoHead, NextRound, 0))
        /\ \A q \in Process : process[q].aim = 0
    BY <1>6 DEF AllocateAttempt, NoneAllocatedBeside
  <2>q. QED
    BY <2>1, BecomesOf DEF CommandsAreAimed
<1>q. QED
  BY <1>1, <1>2, <1>3, <1>4, <1>5, <1>6 DEF Next, HookStep

(* ExactAttemptFailed fails only because an attempt may be allocated while *)
(* fail-attempt runs: where none is, the command fails the attempt that    *)
(* the operator saw, or nothing.                                           *)
THEOREM AimedAttemptsFail == Spec /\ []NoneAllocatedBeside => ExactAttemptFailed
<1> DEFINE Exact == \A p \in Process :
                       /\ process[p].step = "failing"
                       /\ process[p].aim # 0
                       /\ started' # started
                       /\ process[p] # process[p]'
                       => process[p].run = process[p].aim
<1>1. Init => CommandsAreAimed
  BY DEF Init, CommandsAreAimed, Idle, At
<1>2. CommandsAreAimed => Exact
  BY DEF CommandsAreAimed
<1>q. QED
  BY <1>1, <1>2, NextAimed, TypeCorrect, AttemptsAreExclusive, PTL DEF Spec, ExactAttemptFailed
=============================================================================
