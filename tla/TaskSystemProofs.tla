-------------------------- MODULE TaskSystemProofs --------------------------
(***************************************************************************)
(* Proofs about TaskSystem, for every value of its constants: what         *)
(* Lifecycle and Publication each leave to the other is what the other     *)
(* does, so that the theorems about each hold of the two together, and no  *)
(* effect leaves the host before it is earned.                             *)
(***************************************************************************)
EXTENDS TaskSystem, LifecycleProofs

(* The theorems about Publication, of its part of the system. *)
BrokerProofs == INSTANCE PublicationProofs WITH
    phase <- state,
    EarlierState <- ActiveStates \cup {"PREPARED"},
    LateHook <- Process,
    lateHooks <- Preparing

(* The inductive invariant. *)
SystemInv ==
    /\ CheckoutInv
    /\ BrokerProofs!PublicationInv

-----------------------------------------------------------------------------
(* What Publication assumes of its constants holds of their values here.   *)
LEMMA BrokerAssumption == BrokerProofs!PublicationAssumption
  BY TaskSystemAssumption, LifecycleAssumption
  DEF BrokerProofs!PublicationAssumption, ActiveStates

(* Broker and BrokerProofs name the same formulas: the definitions of       *)
(* Publication, read under the same substitution.                          *)
LEMMA SameBroker ==
  /\ Broker!Init <=> BrokerProofs!Init
  /\ Broker!Next <=> BrokerProofs!Next
  /\ Broker!vars = BrokerProofs!vars
  BY
  DEF Broker!Init, Broker!Next, Broker!vars, Broker!rows, Broker!github,
      Broker!Begin, Broker!Publish, Broker!Crash, Broker!Refuse,
      Broker!Admit, Broker!Eligible, Broker!Preflight, Broker!PriorAttempt,
      Broker!PreflightFails, Broker!InsertBlocker, Broker!StartPublication,
      Broker!CallFails, Broker!CallStep, Broker!FailUnconfirmed,
      Broker!TakeSnapshot, Broker!AdoptBranch, Broker!AtHead,
      Broker!FindNoBranch, Broker!RefuseBranch, Broker!PushBranch,
      Broker!LeaseHolds, Broker!LoseLease, Broker!ListPulls, Broker!Listed,
      Broker!CreatePull, Broker!ConfirmPull, Broker!ExactDraft,
      Broker!RereadBranch, Broker!RereadPull, Broker!SecondSnapshot,
      Broker!FinalizePublication, Broker!Finalized,
      Broker!FinalizationFails, Broker!CleanUp, Broker!FailPublication,
      Broker!Failable, Broker!Failed, Broker!LockFree, Broker!At,
      Broker!Goto, Broker!Exit, Broker!Idle, Broker!ResolveBlocker,
      Broker!LateHookEnds, Broker!BeforeCloseout, Broker!OthersPush,
      Broker!OthersDelete, Broker!OthersClose, Broker!OthersUndraft,
      Broker!OthersOpen, Broker!OthersProtect, Broker!Fingerprint,
      BrokerProofs!Init, BrokerProofs!Next, BrokerProofs!vars,
      BrokerProofs!rows, BrokerProofs!github, BrokerProofs!Begin,
      BrokerProofs!Publish, BrokerProofs!Crash, BrokerProofs!Refuse,
      BrokerProofs!Admit, BrokerProofs!Eligible, BrokerProofs!Preflight,
      BrokerProofs!PriorAttempt, BrokerProofs!PreflightFails,
      BrokerProofs!InsertBlocker, BrokerProofs!StartPublication,
      BrokerProofs!CallFails, BrokerProofs!CallStep,
      BrokerProofs!FailUnconfirmed, BrokerProofs!TakeSnapshot,
      BrokerProofs!AdoptBranch, BrokerProofs!AtHead,
      BrokerProofs!FindNoBranch, BrokerProofs!RefuseBranch,
      BrokerProofs!PushBranch, BrokerProofs!LeaseHolds,
      BrokerProofs!LoseLease, BrokerProofs!ListPulls, BrokerProofs!Listed,
      BrokerProofs!CreatePull, BrokerProofs!ConfirmPull,
      BrokerProofs!ExactDraft, BrokerProofs!RereadBranch,
      BrokerProofs!RereadPull, BrokerProofs!SecondSnapshot,
      BrokerProofs!FinalizePublication, BrokerProofs!Finalized,
      BrokerProofs!FinalizationFails, BrokerProofs!CleanUp,
      BrokerProofs!FailPublication, BrokerProofs!Failable,
      BrokerProofs!Failed, BrokerProofs!LockFree, BrokerProofs!At,
      BrokerProofs!Goto, BrokerProofs!Exit, BrokerProofs!Idle,
      BrokerProofs!ResolveBlocker, BrokerProofs!LateHookEnds,
      BrokerProofs!BeforeCloseout, BrokerProofs!OthersPush,
      BrokerProofs!OthersDelete, BrokerProofs!OthersClose,
      BrokerProofs!OthersUndraft, BrokerProofs!OthersOpen,
      BrokerProofs!OthersProtect, BrokerProofs!Fingerprint

-----------------------------------------------------------------------------
(* What a step of one process does to the hooks that may leave a blocker.  *)
LEMMA PreparingOf ==
  ASSUME TypeOK, NEW p \in Process, NEW step, NEW head, NEW run, NEW aim,
         Becomes(p, At(step, head, run, aim)), step \notin {"prepare", "allocate"}
  PROVE  Preparing' = Preparing \ {p}
  BY BecomesOf DEF Preparing

(* At closeout the steps of the lifecycle write no row but the blockers:   *)
(* a hook that is still there ends, or goes on without a trace.            *)
LEMMA CloseoutSteps ==
  ASSUME Inv, LifecycleStep, state \in PublishingStates
  PROVE  /\ UNCHANGED <<state, currentHead, changes, acceptances, roleRows, attemptRows>>
         /\ \/ ResolveBlocker /\ UNCHANGED Preparing
            \/ UNCHANGED <<blockers, Preparing>>
            \/ /\ \E p \in Preparing : Preparing' = Preparing \ {p}
               /\ InsertBlocker \/ UNCHANGED blockers
<1> DEFINE Rows == <<state, currentHead, changes, acceptances, roleRows, attemptRows>>
           Same == UNCHANGED Rows /\ UNCHANGED <<blockers, Preparing>>
           Ends == /\ UNCHANGED Rows
                   /\ \E p \in Preparing : Preparing' = Preparing \ {p}
                   /\ InsertBlocker \/ UNCHANGED blockers
<1>1. /\ TypeOK
      /\ started = {}
      /\ state \notin ActiveStates /\ state # "PREPARED"
  BY StatesOf DEF Inv, CloseoutComplete
<1>2. ~QueueTask
  BY <1>1 DEF QueueTask
<1>3. ASSUME ResolveBlocker
      PROVE  UNCHANGED Rows /\ UNCHANGED Preparing
  BY <1>3 DEF ResolveBlocker, taskRow, Preparing
<1>4. ASSUME OperatorRepairsWorkspace \/ AgentWorks \/ AgentEnds
      PROVE  Same
  BY <1>4 DEF OperatorRepairsWorkspace, AgentWorks, AgentEnds, database, roleRows,
              attemptRows, Preparing
<1>5. ASSUME NEW p \in Process, PrepareFails(p) \/ AllocationFails(p) \/ AllocationConflict(p)
      PROVE  Ends
  <2>1. p \in Preparing /\ Exit(p)
    BY <1>5 DEF PrepareFails, AllocationFails, AllocationConflict, Preparing
  <2>2. Preparing' = Preparing \ {p}
    BY <1>1, <2>1, PreparingOf DEF Exit, Idle
  <2>3. UNCHANGED Rows /\ (InsertBlocker \/ UNCHANGED blockers)
    BY <1>5 DEF PrepareFails, AllocationFails, AllocationConflict, taskRow, roleRows,
                attemptRows, database
  <2>q. QED
    BY <2>1, <2>2, <2>3
<1>6. ASSUME NEW p \in Process, Crash(p)
      PROVE  Same \/ Ends
  <2>1. Exit(p) /\ UNCHANGED Rows /\ UNCHANGED blockers
    BY <1>6 DEF Crash, database, roleRows, attemptRows
  <2>2. Preparing' = Preparing \ {p}
    BY <1>1, <2>1, PreparingOf DEF Exit, Idle
  <2>q. QED
    BY <2>1, <2>2
<1>7. ASSUME NEW p \in Process, FailAttempt(p) \/ StagingFails(p)
      PROVE  Same
  <2>1. FailStartedAttempt(p) /\ p \notin Preparing
    BY <1>7 DEF FailAttempt, StagingFails, Preparing
  <2>2. Exit(p) /\ UNCHANGED Rows /\ UNCHANGED blockers
    BY <1>1, <2>1 DEF FailStartedAttempt, taskRow, roleRows, attemptRows
  <2>3. Preparing' = Preparing \ {p}
    BY <1>1, <2>2, PreparingOf DEF Exit, Idle
  <2>q. QED
    BY <2>1, <2>2, <2>3
<1>8. ASSUME NEW p \in Process,
             AfterRun(p) \/ FindStartedAttempt(p) \/ VerifyGitTruth(p) \/ RejectResult(p)
      PROVE  Same
  <2>1. p \notin Preparing /\ UNCHANGED database
    BY <1>8 DEF AfterRun, FindStartedAttempt, VerifyGitTruth, RejectResult, Preparing
  <2>2. UNCHANGED Rows /\ UNCHANGED blockers
    BY <2>1 DEF database, roleRows, attemptRows
  <2>3. PICK step \in {"idle", "verify", "fail", "failing", "reconcile"} :
           \E head, run, aim : Becomes(p, At(step, head, run, aim))
    BY <1>8 DEF AfterRun, FindStartedAttempt, VerifyGitTruth, RejectResult, Exit, Idle
  <2>4. Preparing' = Preparing \ {p}
    BY <1>1, <2>3, PreparingOf
  <2>q. QED
    BY <2>1, <2>2, <2>4
<1>9. ASSUME NEW p \in Process, PrepareWorkspace(p)
      PROVE  Same
  <2>1. /\ process[p].step = "prepare" /\ UNCHANGED database
        /\ Becomes(p, At("allocate", NoHead, 0, 0))
    BY <1>9 DEF PrepareWorkspace
  <2>2. UNCHANGED Rows /\ UNCHANGED blockers
    BY <2>1 DEF database, roleRows, attemptRows
  <2>3. UNCHANGED Preparing
    BY <1>1, <2>1, BecomesOf DEF Preparing
  <2>q. QED
    BY <2>2, <2>3
<1>10. ASSUME NEW p \in Process, StageAttempt(p)
       PROVE  Same
  <2>1. p \notin Preparing /\ UNCHANGED database /\ Exit(p)
    BY <1>10 DEF StageAttempt, Preparing
  <2>2. UNCHANGED Rows /\ UNCHANGED blockers
    BY <2>1 DEF database, roleRows, attemptRows
  <2>3. Preparing' = Preparing \ {p}
    BY <1>1, <2>1, PreparingOf DEF Exit, Idle
  <2>q. QED
    BY <2>1, <2>2, <2>3
<1>11. ASSUME NEW p \in Process
       PROVE  ~OperatorFailsAttempt(p) /\ ~Dispatch(p) /\ ~AllocateAttempt(p)
  BY <1>1 DEF OperatorFailsAttempt, Dispatch, AllocateAttempt, MayAllocate
<1>12. ASSUME NEW p \in Process
       PROVE  ~Reconcile(p)
  BY <1>1 DEF Reconcile, Reconcilable, PlanningComplete, ImplementationComplete,
     ReviewApproved, AdversaryPass, ValidationPass, ArchiveComplete, CorrectionRequired,
     CorrectionComplete, BlockedReadOnly, BlockedImplementer
<1>q. QED
  BY <1>2, <1>3, <1>4, <1>5, <1>6, <1>7, <1>8, <1>9, <1>10, <1>11, <1>12
  DEF LifecycleStep, HookStep

(* Before closeout they leave the task before it, or at ARCHIVIST.         *)
LEMMA EarlierSteps ==
  ASSUME Inv, LifecycleStep, state \in ActiveStates \cup {"PREPARED"}
  PROVE  state' \in ActiveStates \cup {"PREPARED", "ARCHIVIST"}
<1>1. TypeOK /\ [Next]_vars /\ state # "ARCHIVIST"
  BY StatesOf DEF Inv, LifecycleStep, Next, PublishingStates
<1>2. CASE QueueTask
  BY <1>2 DEF QueueTask, ActiveStates
<1>3. ASSUME NEW p \in Process, AllocateAttempt(p) \/ Quiet
      PROVE  UNCHANGED state
  BY <1>3 DEF AllocateAttempt, taskRow, Quiet
<1>4. ASSUME NEW p \in Process, Reconcile(p)
      PROVE  state' \in ActiveStates \cup {"ARCHIVIST", state}
  BY <1>4 DEF Reconcile, PlanningComplete, ImplementationComplete, ReviewApproved,
     AdversaryPass, ValidationPass, ArchiveComplete, CorrectionRequired,
     CorrectionComplete, Corrected, BlockedReadOnly, BlockedImplementer, taskRow, ActiveStates
<1>q. QED
  BY <1>1, <1>2, <1>3, <1>4, StepCases DEF PublicationFinalized, Quiet

-----------------------------------------------------------------------------
(* The two sides of each step.                                             *)

(* Hooks, commands and agents take a step of Lifecycle, and do to the rows *)
(* of a publication what Publication lets the others do.                   *)
LEMMA LifecycleSteps ==
  ASSUME SystemInv, LifecycleStep
  PROVE  Next /\ [BrokerProofs!Next]_BrokerProofs!vars
<1>1. Next /\ UNCHANGED brokerRest
  BY DEF LifecycleStep, Next
<1>2. Inv /\ TypeOK /\ TypeOK'
  BY <1>1, NextTypeOK DEF SystemInv, CheckoutInv, Inv
<1>3. CASE state \in ActiveStates \cup {"PREPARED"}
  <2>1. state' \in ActiveStates \cup {"PREPARED"} \cup {"ARCHIVIST"}
    BY <1>2, <1>3, EarlierSteps
  <2>2. blockers' \in 0..MaxBlockers /\ Preparing' \in SUBSET Process
    BY <1>2 DEF TypeOK, Preparing
  <2>3. BrokerProofs!BeforeCloseout
    BY <1>1, <1>3, <2>1, <2>2
    DEF BrokerProofs!BeforeCloseout, BrokerProofs!github, brokerRest
  <2>q. QED
    BY <1>1, <2>3 DEF BrokerProofs!Next
<1>4. CASE state \in PublishingStates
  <2>1. UNCHANGED state
    BY <1>2, <1>4, CloseoutSteps
  <2>2. CASE ResolveBlocker /\ UNCHANGED Preparing
    <3>1. BrokerProofs!ResolveBlocker
      BY <1>1, <2>1, <2>2
      DEF ResolveBlocker, BrokerProofs!ResolveBlocker, BrokerProofs!github, brokerRest
    <3>q. QED
      BY <1>1, <3>1 DEF BrokerProofs!Next
  <2>3. CASE UNCHANGED <<blockers, Preparing>>
    BY <1>1, <2>1, <2>3 DEF BrokerProofs!vars, brokerRest
  <2>4. CASE /\ \E p \in Preparing : Preparing' = Preparing \ {p}
             /\ InsertBlocker \/ UNCHANGED blockers
    <3>1. BrokerProofs!LateHookEnds
      BY <1>1, <2>1, <2>4
      DEF InsertBlocker, BrokerProofs!InsertBlocker, BrokerProofs!LateHookEnds,
          BrokerProofs!github, brokerRest
    <3>q. QED
      BY <1>1, <3>1 DEF BrokerProofs!Next
  <2>q. QED
    BY <1>2, <1>4, <2>2, <2>3, <2>4, CloseoutSteps
<1>q. QED
  BY <1>2, <1>3, <1>4, StatesOf DEF TypeOK

(* A publisher writes the task's row or a blocker only when the task is at *)
(* ARCHIVIST: a publication is admitted there, and no step of Publication  *)
(* takes the task away from it under a publisher that was admitted.        *)
LEMMA PublisherSteps ==
  ASSUME SystemInv, NEW p \in Publisher, PublisherStep(p)
  PROVE  [Next]_vars /\ BrokerProofs!Next
<1>1. UNCHANGED lifecycleRest /\ Broker!Next
  BY DEF PublisherStep, Broker!Next
<1>2. UNCHANGED <<currentHead, changes, acceptances, finding, implRounds, archived,
                  version, rounds, started, packet, workspace, marker, agent, process>>
  BY <1>1 DEF lifecycleRest, roleRows, attemptRows, outside
<1>3. BrokerProofs!Sound(publisher[p])
  BY DEF SystemInv, BrokerProofs!PublicationInv, BrokerProofs!PublishersAreSound
<1>4. CASE Broker!PreflightFails(p)
  <2>1. state = "ARCHIVIST" /\ UNCHANGED state /\ InsertBlocker
    BY <1>3, <1>4
    DEF Broker!PreflightFails, Broker!InsertBlocker, InsertBlocker, BrokerProofs!Sound,
        BrokerProofs!AdmittedStep
  <2>2. PublicationBlocked
    BY <1>2, <2>1 DEF PublicationBlocked, taskRow, roleRows, attemptRows, outside
  <2>q. QED
    BY <1>1, <2>2, SameBroker DEF Next
<1>5. CASE Broker!FinalizePublication(p)
  <2>1. PublicationFinalized
    BY <1>2, <1>5
    DEF Broker!FinalizePublication, Broker!Eligible, PublicationFinalized, roleRows,
        attemptRows, outside
  <2>q. QED
    BY <1>1, <2>1, SameBroker DEF Next
<1>6. CASE Broker!FailPublication(p)
  <2>1. UNCHANGED state /\ (UNCHANGED blockers \/ (state = "ARCHIVIST" /\ InsertBlocker))
    BY <1>6
    DEF Broker!FailPublication, Broker!Failable, Broker!InsertBlocker, InsertBlocker
  <2>2. PublicationBlocked \/ UNCHANGED vars
    BY <1>2, <2>1 DEF PublicationBlocked, taskRow, roleRows, attemptRows, outside, vars
  <2>q. QED
    BY <1>1, <2>2, SameBroker DEF Next
<1>7. CASE ~(Broker!PreflightFails(p) \/ Broker!FinalizePublication(p) \/ Broker!FailPublication(p))
  <2>1. UNCHANGED <<state, blockers>>
    BY <1>7
    DEF PublisherStep, Broker!Publish, Broker!Begin, Broker!Crash, Broker!Refuse, Broker!Admit,
        Broker!Preflight, Broker!StartPublication, Broker!CallFails, Broker!TakeSnapshot,
        Broker!AdoptBranch, Broker!FindNoBranch, Broker!RefuseBranch, Broker!PushBranch,
        Broker!LoseLease, Broker!ListPulls, Broker!CreatePull, Broker!ConfirmPull,
        Broker!RereadBranch, Broker!RereadPull, Broker!SecondSnapshot,
        Broker!FinalizationFails, Broker!CleanUp, Broker!rows
  <2>q. QED
    BY <1>1, <1>2, <2>1, SameBroker DEF vars
<1>q. QED
  BY <1>4, <1>5, <1>6, <1>7

(* Other people touch nothing of the host's. *)
LEMMA OthersSteps ==
  ASSUME OthersStep
  PROVE  UNCHANGED vars /\ BrokerProofs!Next
<1>1. UNCHANGED lifecycleRest /\ UNCHANGED <<state, blockers>> /\ Broker!Next
  BY DEF OthersStep, Broker!Next, Broker!OthersPush, Broker!OthersDelete, Broker!OthersClose,
         Broker!OthersUndraft, Broker!OthersOpen, Broker!OthersProtect, Broker!rows
<1>q. QED
  BY <1>1, SameBroker DEF vars, lifecycleRest, roleRows, attemptRows, outside

(* Every step of the system is a step of both parts, or none.              *)
LEMMA BothSteps ==
  ASSUME SystemInv, [SystemNext]_systemVars
  PROVE  [Next]_vars /\ [BrokerProofs!Next]_BrokerProofs!vars
<1>1. ASSUME UNCHANGED systemVars
      PROVE  UNCHANGED vars /\ UNCHANGED BrokerProofs!vars
  BY <1>1 DEF systemVars, lifecycleRest, brokerRest, roleRows, attemptRows, outside, vars,
              BrokerProofs!vars, Preparing
<1>q. QED
  BY <1>1, LifecycleSteps, PublisherSteps, OthersSteps DEF SystemNext

-----------------------------------------------------------------------------
(* The inductive invariant.                                                *)

LEMMA InitSystem == SystemInit => SystemInv
<1> SUFFICES ASSUME SystemInit
             PROVE  SystemInv
  OBVIOUS
<1>1. CheckoutInv
  BY InitCheckout DEF SystemInit
<1>2. BrokerProofs!PublicationInv
  BY SameBroker, BrokerAssumption, BrokerProofs!InitialState DEF SystemInit
<1>q. QED
  BY <1>1, <1>2 DEF SystemInv

LEMMA NextSystem == SystemInv /\ [SystemNext]_systemVars => SystemInv'
<1> SUFFICES ASSUME SystemInv, [SystemNext]_systemVars
             PROVE  SystemInv'
  OBVIOUS
<1>1. [Next]_vars /\ [BrokerProofs!Next]_BrokerProofs!vars
  BY BothSteps
<1>2. CheckoutInv'
  BY <1>1, NextCheckout DEF SystemInv
<1>3. BrokerProofs!PublicationInv'
  BY <1>1, BrokerAssumption, BrokerProofs!StepsPreserve DEF SystemInv
<1>q. QED
  BY <1>2, <1>3 DEF SystemInv

(* The system's inductive invariant is those of its parts: what hooks,     *)
(* commands, agents and publishers do on shared rows keeps them both.      *)
THEOREM SystemInvariant == SystemSpec => []SystemInv
<1>1. SystemInit => SystemInv
  BY InitSystem
<1>2. SystemInv /\ [SystemNext]_systemVars => SystemInv'
  BY NextSystem
<1>q. QED
  BY <1>1, <1>2, PTL DEF SystemSpec

-----------------------------------------------------------------------------
(* The two parts implement each other's abstraction of them.               *)

(* The publishers do to the task's row what Lifecycle lets a publication   *)
(* do, so that each theorem about Lifecycle holds of the whole system.     *)
THEOREM SystemImplementsLifecycle == SystemSpec => ImplementsLifecycle
<1>1. SystemInit => Init
  BY DEF SystemInit
<1>2. SystemInv /\ [SystemNext]_systemVars => [Next]_vars
  BY BothSteps
<1>q. QED
  BY <1>1, <1>2, SystemInvariant, PTL DEF SystemSpec, Spec, ImplementsLifecycle

(* Hooks, commands and agents do to a publication's rows what Publication  *)
(* lets the lifecycle do, so that each theorem about Publication holds of  *)
(* the whole system.                                                       *)
THEOREM SystemImplementsPublication == SystemSpec => ImplementsPublication
<1>1. SystemInit => Broker!Init
  BY DEF SystemInit
<1>2. SystemInv /\ [SystemNext]_systemVars => [Broker!Next]_Broker!vars
  BY BothSteps, SameBroker DEF Broker!vars, BrokerProofs!vars
<1>q. QED
  BY <1>1, <1>2, SystemInvariant, PTL DEF SystemSpec, Broker!Spec, ImplementsPublication

(* No branch is pushed and no pull request opened for a head that does not *)
(* have its acceptances and its archival run, whatever hooks are late.     *)
THEOREM NothingLeavesUnearned == SystemSpec => []EffectsAreEarned
<1>1. ASSUME SystemInv
      PROVE  EffectsAreEarned
  <2> SUFFICES ASSUME \/ branch = "ours"
                      \/ \E n \in DOMAIN pulls : pulls[n].ours
                      \/ state = "READY_FOR_HUMAN_MERGE"
               PROVE  /\ state \in PublishingStates
                      /\ \A type \in AcceptanceType : CurrentAcceptance(type, currentHead)
                      /\ currentHead \in archived
                      /\ Licensed = {}
                      /\ started = {}
                      /\ agent = 0
    BY DEF EffectsAreEarned
  <2>1. state \in PublishingStates
    <3>1. CASE state = "READY_FOR_HUMAN_MERGE"
      BY <3>1 DEF PublishingStates
    <3>2. CASE state # "READY_FOR_HUMAN_MERGE"
      <4>1. intent.status # "none"
        BY <1>1, <3>2
        DEF SystemInv, BrokerProofs!PublicationInv, BrokerProofs!IntentCoversEffects
      <4>q. QED
        BY <1>1, <4>1, StatesOf
        DEF SystemInv, CheckoutInv, Inv, TypeOK, BrokerProofs!PublicationInv,
            BrokerProofs!NothingIsEarly
    <3>q. QED
      BY <3>1, <3>2
  <2>2. /\ Licensed = {} /\ currentHead # NoHead /\ currentHead \in archived
        /\ started = {} /\ agent = 0
    BY <1>1, <2>1
    DEF SystemInv, CheckoutInv, Inv, CloseoutComplete, CloseoutIsQuiet, PublishingStates,
        CorrectionStates
  <2>3. Evidence[state] = AcceptanceType
    BY <1>1, <2>1, EvidenceOf DEF SystemInv, CheckoutInv, Inv, TypeOK, PublishingStates
  <2>q. QED
    BY <1>1, <2>1, <2>2, <2>3 DEF SystemInv, CheckoutInv, Inv, ExactHeadEvidence, SelectedHead
<1>q. QED
  BY <1>1, SystemInvariant, PTL

(* What start_publication reads of the task stays as it was read, so that  *)
(* no hook, command or agent can take the evidence from under a publisher. *)
THEOREM CloseoutFreezes == SystemSpec => CloseoutIsFrozen
<1>1. ASSUME SystemInv, SystemNext, state \in PublishingStates
      PROVE  UNCHANGED <<currentHead, changes, acceptances, roleRows, attemptRows>>
  <2>1. CASE LifecycleStep
    BY <1>1, <2>1, CloseoutSteps DEF SystemInv, CheckoutInv
  <2>2. CASE ~LifecycleStep
    BY <1>1, <2>2 DEF SystemNext, PublisherStep, OthersStep, lifecycleRest
  <2>q. QED
    BY <2>1, <2>2
<1>q. QED
  BY <1>1, SystemInvariant, PTL DEF SystemSpec, CloseoutIsFrozen

(* The whole way, from task.py queue to a task that waits for a human:     *)
(* what is ready has every acceptance for exactly its head and, in a       *)
(* repository nobody else used, that head on the branch and exactly one    *)
(* open draft pull request, the recorded one.                              *)
THEOREM ReadyIsEarnedAndPublished ==
  SystemSpec => [](state = "READY_FOR_HUMAN_MERGE" =>
                     /\ \A type \in AcceptanceType : CurrentAcceptance(type, currentHead)
                     /\ currentHead \in archived
                     /\ ~disturbed => Broker!ExactDraft(intent.pull) /\ Len(pulls) = 1)
<1> DEFINE Ready == state = "READY_FOR_HUMAN_MERGE" =>
                      /\ \A type \in AcceptanceType : CurrentAcceptance(type, currentHead)
                      /\ currentHead \in archived
                      /\ ~disturbed => Broker!ExactDraft(intent.pull) /\ Len(pulls) = 1
<1>1. SystemSpec => BrokerProofs!Spec
  <2>1. SystemInit => BrokerProofs!Init
    BY SameBroker DEF SystemInit
  <2>2. SystemInv /\ [SystemNext]_systemVars => [BrokerProofs!Next]_BrokerProofs!vars
    BY BothSteps
  <2>q. QED
    BY <2>1, <2>2, SystemInvariant, PTL DEF SystemSpec, BrokerProofs!Spec
<1>2. BrokerProofs!Spec => []BrokerProofs!ReadyIsOnGitHub
  BY BrokerAssumption, BrokerProofs!ReadyHasItsEvidence
<1>3. EffectsAreEarned /\ BrokerProofs!ReadyIsOnGitHub => Ready
  BY DEF EffectsAreEarned, BrokerProofs!ReadyIsOnGitHub, BrokerProofs!ExactDraft,
         BrokerProofs!AtHead, Broker!ExactDraft, Broker!AtHead
<1>q. QED
  BY <1>1, <1>2, <1>3, NothingLeavesUnearned, PTL
=============================================================================
