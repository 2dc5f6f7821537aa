----------------------------- MODULE Lifecycle -----------------------------
(***************************************************************************)
(* The life of one task from PREPARED to ARCHIVIST, and what publication   *)
(* then does to its row: the task's rows in the control-plane database,    *)
(* the Architect attempts allocated by before_run, the retained Git        *)
(* workspace, and the short-lived host processes (hooks of the Runtime and *)
(* commands of the operator) that read, decide and then commit one BEGIN   *)
(* IMMEDIATE transaction each.                                             *)
(*                                                                         *)
(* A SQLite transaction is one step.  What a process reads outside of its  *)
(* transaction is a step of its own, kept in the process's local record.   *)
(***************************************************************************)
EXTENDS Integers, FiniteSets

CONSTANTS
    Commit,       \* commits that descend from the recorded base
    Base,         \* the task's recorded base_sha, one of them
    NoHead,       \* current_head IS NULL
    Finding,      \* identities a recorded finding may take
    Process,      \* host processes that may be alive at the same time
    MaxAttempts,  \* bound: Architect rows a task may have
    MaxBlockers   \* bound: blockers that may be open at once

ASSUME LifecycleAssumption ==
    /\ Base \in Commit
    /\ NoHead \notin Commit
    /\ MaxAttempts \in Nat
    /\ MaxBlockers \in Nat

VARIABLES
    state,         \* tasks.state
    currentHead,   \* tasks.current_head
    changes,       \* how many head_changed events the task has
    acceptances,   \* acceptance events: type, payload head, changes before it
    finding,       \* findings that carry a correction license, and its round
    implRounds,    \* last round of the IMPLEMENTER role
    archived,      \* head_sha of the finished ARCHIVIST runs
    version,       \* workpads.version, 0 without a row
    rounds,        \* last round of the ARCHITECT role: an attempt is its round
    started,       \* ARCHITECT runs whose status is 'started'
    packet,        \* what the inbox of a started attempt tells its agent
    blockers,      \* number of open blockers
    workspace,     \* the checkout: its HEAD and the condition of its tree
    marker,        \* attempt named by symphony-preparation.json, 0 for none
    agent,         \* attempt whose contained agent is running, 0 for none
    process        \* the host processes

database == <<state, currentHead, changes, acceptances, finding, implRounds,
              archived, version, rounds, started, packet, blockers>>
vars == <<state, currentHead, changes, acceptances, finding, implRounds,
          archived, version, rounds, started, packet, blockers,
          workspace, marker, agent, process>>

-----------------------------------------------------------------------------
(* The data.                                                               *)

ActiveStates == {"QUEUED", "PLANNED", "IMPLEMENTED", "REVIEW",
                 "ADVERSARIAL_REVIEW", "FINAL_MECHANICAL_ACCEPTANCE"}
PublishingStates == {"ARCHIVIST", "READY_FOR_HUMAN_MERGE"}
TaskState == ActiveStates \cup PublishingStates \cup {"PREPARED"}

(* The states in which a licensed finding sends the task to the IMPLEMENTER *)
CorrectionStates == {"IMPLEMENTED", "REVIEW", "ADVERSARIAL_REVIEW"}

AcceptanceType == {"review_accepted", "adversary_accepted", "validation_passed"}
Acceptance == [type : AcceptanceType, head : Commit, changes : Nat]

(* Elsewhere: not on the task's branch, or at a commit off its base.       *)
Tree == {"clean", "elsewhere", "dirty"}

Attempt == 1..MaxAttempts
Packet == [state : TaskState, version : Nat, head : Commit]

Step == {"idle",
         "prepare",    \* before_run has read the task's facts
         "allocate",   \* the workspace is prepared and the marker rewritten
         "stage",      \* the attempt row is committed, its files are not written
         "verify",     \* after_run has read the marker and the started run
         "reconcile",  \* after_run has established the Git truth
         "fail",       \* about to look for the started attempt
         "failing"}    \* has read the started attempt, about to fail it
At(step, head, run, aim) == [step |-> step, head |-> head, run |-> run, aim |-> aim]
Idle == At("idle", NoHead, 0, 0)

(* head and run are what the process has read; aim is the attempt the      *)
(* operator launched it for, 0 for a hook.                                 *)
ProcessRecord == [step : Step, head : Commit \cup {NoHead},
                  run : 0..MaxAttempts, aim : 0..MaxAttempts]

SelectedHead == IF currentHead = NoHead THEN Base ELSE currentHead
NoPacket == [state |-> "PREPARED", version |-> 0, head |-> Base]

Licensed == {f \in Finding : finding[f].status = "licensed"}
\* Mutant: the mechanical validation is not a phase that asks for corrections.
CorrectingBeforeValidation == state \in {"IMPLEMENTED", "REVIEW"} /\ Licensed # {}

(* A licensed correction is what the next result must complete or block. *)
Correcting == state \in CorrectionStates /\ Licensed # {}

(* An acceptance counts for a head while no head_changed event follows it. *)
CurrentAcceptance(type, head) ==
    [type |-> type, head |-> head, changes |-> changes] \in acceptances

Init ==
    /\ state = "PREPARED"
    /\ currentHead = NoHead
    /\ changes = 0
    /\ acceptances = {}
    /\ finding = [f \in Finding |-> [status |-> "unused", round |-> 0]]
    /\ implRounds = 0
    /\ archived = {}
    /\ version = 0
    /\ rounds = 0
    /\ started = {}
    /\ packet = [r \in Attempt |-> NoPacket]
    /\ blockers = 0
    /\ workspace = [head |-> Base, tree |-> "clean"]
    /\ marker = 0
    /\ agent = 0
    /\ process = [p \in Process |-> Idle]

-----------------------------------------------------------------------------
(* Helpers of the actions.                                                 *)

Becomes(p, record) == process' = [process EXCEPT ![p] = record]
Exit(p) == Becomes(p, Idle)

InsertBlocker ==
    /\ blockers < MaxBlockers
    /\ blockers' = blockers + 1

\* Mutant: process_owns_workspace finds nobody.
WorkspaceNeverInUse(p) == FALSE

(* Hooks run in the workspace, the operator's commands do not. *)
Hook(q) == process[q].step # "idle" /\ process[q].aim = 0

(* Another hook or the agent's launcher has the workspace as its directory. *)
WorkspaceInUse(p) == agent # 0 \/ \E q \in Process \ {p} : Hook(q)

taskRow == <<state, currentHead, changes, acceptances>>
roleRows == <<finding, implRounds, archived>>
attemptRows == <<version, rounds, started, packet>>
outside == <<workspace, marker, agent>>

\* Mutant: a run is failed whether it is still started or not.
FailAnyAttempt(p) ==
    /\ started' = started \ {process[p].run}
    /\ packet' = [packet EXCEPT ![process[p].run] = NoPacket]
    /\ InsertBlocker
    /\ Exit(p)
    /\ UNCHANGED <<taskRow, roleRows, version, rounds, outside>>

(* _fail_started_attempt: a run that is still started when the transaction *)
(* looks at it is failed, and leaves a blocker.                            *)
FailStartedAttempt(p) ==
    /\ IF process[p].run \in started
       THEN /\ started' = started \ {process[p].run}
            /\ packet' = [packet EXCEPT ![process[p].run] = NoPacket]
            /\ InsertBlocker
       ELSE UNCHANGED <<started, packet, blockers>>
    /\ Exit(p)
    /\ UNCHANGED <<taskRow, roleRows, version, rounds, outside>>

-----------------------------------------------------------------------------
(* The operator's commands.                                                *)

(* task.py queue *)
QueueTask ==
    /\ state = "PREPARED"
    /\ state' = "QUEUED"
    /\ version' = IF version = 0 THEN 1 ELSE version
    /\ UNCHANGED <<currentHead, changes, acceptances, roleRows, rounds, started,
                   packet, blockers, outside, process>>

(* task.py resolve-blocker *)
ResolveBlocker ==
    /\ blockers > 0
    /\ blockers' = blockers - 1
    /\ UNCHANGED <<taskRow, roleRows, attemptRows, outside, process>>

(* The operator sees an attempt started with no agent alive, and launches  *)
(* task.py fail-attempt, which is given the task and not the attempt.      *)
OperatorFailsAttempt(p) ==
    /\ process[p].step = "idle"
    /\ agent = 0
    /\ \E r \in started : Becomes(p, At("fail", NoHead, 0, r))
    /\ UNCHANGED <<database, outside>>

\* Mutant: the attempt to fail is the one the preparation marker names.
FindMarkedAttempt(p) ==
    /\ process[p].step = "fail"
    /\ Becomes(p, At("failing", NoHead, marker, process[p].aim))
    /\ UNCHANGED <<database, outside>>

(* fail_attempt: the started run is read before its transaction begins ... *)
FindStartedAttempt(p) ==
    /\ process[p].step = "fail"
    /\ \/ /\ started = {}
          /\ Exit(p)
       \/ \E r \in started : Becomes(p, At("failing", NoHead, r, process[p].aim))
    /\ UNCHANGED <<database, outside>>

(* ... and what is failed is that run. *)
FailAttempt(p) ==
    /\ process[p].step = "failing"
    /\ FailStartedAttempt(p)

-----------------------------------------------------------------------------
(* before_run: prepare, then prepare_attempt.                              *)

(* The Runtime dispatches an active task that has no open blocker, one     *)
(* agent at a time; prepare starts by reading the task's facts.            *)
Dispatch(p) ==
    /\ process[p].step = "idle"
    /\ agent = 0
    /\ state \in ActiveStates
    /\ blockers = 0
    /\ rounds < MaxAttempts
    /\ Becomes(p, At("prepare", currentHead, 0, 0))
    /\ UNCHANGED <<database, outside>>

\* Mutant: a retained checkout is taken as it is.
AnyCheckout(p) == process[p].head # NoHead

(* A continuation needs the retained checkout at the current_head it read. *)
RetainedCheckout(p) == process[p].head = workspace.head

(* Without an accepted head the branch is reset to the base, wherever the  *)
(* clean checkout is; with one the retained checkout must be at it         *)
(* already.  Both rewrite the marker.                                      *)
PrepareWorkspace(p) ==
    /\ process[p].step = "prepare"
    /\ ~WorkspaceInUse(p)
    /\ \/ /\ process[p].head = NoHead
          /\ workspace.tree # "dirty"
          /\ workspace' = [head |-> Base, tree |-> "clean"]
       \/ /\ RetainedCheckout(p)
          /\ workspace.tree = "clean"
          /\ UNCHANGED workspace
    /\ marker' = 0
    /\ Becomes(p, At("allocate", NoHead, 0, 0))
    /\ UNCHANGED <<database, agent>>

(* A divergent, dirty, locked or unreachable checkout: prepare records an  *)
(* infrastructure blocker and before_run stops.                            *)
PrepareFails(p) ==
    /\ process[p].step = "prepare"
    /\ InsertBlocker
    /\ Exit(p)
    /\ UNCHANGED <<taskRow, roleRows, attemptRows, outside>>

\* Mutant: the started attempts are not looked at in the transaction.
MayAllocateBesideAnother == state \in ActiveStates /\ blockers = 0

(* What the allocating transaction requires of the rows it reads. *)
MayAllocate ==
    /\ state \in ActiveStates
    /\ blockers = 0
    /\ started = {}

\* Mutant: the first round is zero.
NextRoundFromZero == rounds

(* _next_round of the ARCHITECT role. *)
NextRound == rounds + 1

(* One transaction checks, allocates the round and the row, and reads the  *)
(* packet the agent will be given.                                         *)
AllocateAttempt(p) ==
    /\ process[p].step = "allocate"
    /\ MayAllocate
    /\ rounds < MaxAttempts
    /\ version' = IF version = 0 THEN 1 ELSE version
    /\ rounds' = NextRound
    /\ started' = started \cup {NextRound}
    /\ packet' = [packet EXCEPT ![NextRound] =
                     [state |-> state, version |-> version', head |-> SelectedHead]]
    /\ Becomes(p, At("stage", NoHead, NextRound, 0))
    /\ UNCHANGED <<taskRow, roleRows, blockers, outside>>

(* The loser of an allocation race exits without a blocker. *)
AllocationConflict(p) ==
    /\ process[p].step = "allocate"
    /\ ~MayAllocate
    /\ Exit(p)
    /\ UNCHANGED <<database, outside>>

(* Any other failure rolls back and is compensated by a blocker. *)
AllocationFails(p) ==
    /\ process[p].step = "allocate"
    /\ InsertBlocker
    /\ Exit(p)
    /\ UNCHANGED <<taskRow, roleRows, attemptRows, outside>>

(* The inbox and the marker are written, before_run succeeds, and the      *)
(* Runtime starts the agent of the attempt.                                *)
StageAttempt(p) ==
    /\ process[p].step = "stage"
    /\ agent = 0
    /\ marker' = process[p].run
    /\ agent' = process[p].run
    /\ Exit(p)
    /\ UNCHANGED <<database, workspace>>

(* A failure to stage fails that very attempt, if it is still started. *)
StagingFails(p) ==
    /\ process[p].step = "stage"
    /\ FailStartedAttempt(p)

-----------------------------------------------------------------------------
(* The contained agent, and what may happen to the host.                   *)

(* It may leave the checkout at any commit on the base, or in a condition  *)
(* that verify_git_truth refuses: dirty, or elsewhere than on the task's   *)
(* branch and base.                                                        *)
AgentWorks ==
    /\ agent # 0
    /\ \E head \in Commit, tree \in Tree :
          workspace' = [head |-> head, tree |-> tree]
    /\ UNCHANGED <<database, marker, agent, process>>

(* It ends by itself, by its time limit, or with the Runtime. *)
AgentEnds ==
    /\ agent # 0
    /\ agent' = 0
    /\ UNCHANGED <<database, workspace, marker, process>>

(* The operator repairs a checkout that preparation refuses. *)
OperatorRepairsWorkspace ==
    /\ agent = 0
    /\ ~ \E p \in Process : Hook(p)
    /\ workspace' = [head |-> SelectedHead, tree |-> "clean"]
    /\ UNCHANGED <<database, marker, agent, process>>

(* task.py publish, the rest of which Publication models: a publication    *)
(* that fails leaves a blocker ...                                         *)
PublicationBlocked ==
    /\ state = "ARCHIVIST"
    /\ InsertBlocker
    /\ UNCHANGED <<taskRow, roleRows, attemptRows, outside, process>>

(* ... and finalize_publication moves a task that has none.                *)
PublicationFinalized ==
    /\ state = "ARCHIVIST"
    /\ blockers = 0
    /\ state' = "READY_FOR_HUMAN_MERGE"
    /\ UNCHANGED <<currentHead, changes, acceptances, roleRows, attemptRows,
                   blockers, outside, process>>

Crash(p) ==
    /\ process[p].step # "idle"
    /\ Exit(p)
    /\ UNCHANGED <<database, outside>>

-----------------------------------------------------------------------------
(* after_run: reconcile, or fail the attempt.                              *)

(* The Runtime calls the hook when no agent runs, possibly again, possibly *)
(* never; the marker must name a started attempt.                          *)
AfterRun(p) ==
    /\ process[p].step = "idle"
    /\ agent = 0
    /\ IF marker \in started
       THEN Becomes(p, At("verify", NoHead, marker, 0))
       ELSE Becomes(p, At("fail", NoHead, 0, 0))
    /\ UNCHANGED <<database, outside>>

(* verify_git_truth, still outside of the transaction. *)
VerifyGitTruth(p) ==
    /\ process[p].step = "verify"
    /\ workspace.tree = "clean"
    /\ Becomes(p, At("reconcile", workspace.head, process[p].run, 0))
    /\ UNCHANGED <<database, outside>>

(* A missing, malformed or refused result, an unacceptable checkout, a     *)
(* stale attempt: the transaction rolls back and the hook turns to         *)
(* fail_attempt_for_workspace, which looks for the started attempt anew.   *)
RejectResult(p) ==
    /\ process[p].step \in {"verify", "reconcile"}
    /\ Becomes(p, At("fail", NoHead, 0, 0))
    /\ UNCHANGED <<database, outside>>

(* The result's echo of its packet must still describe the task's rows.    *)
Reconcilable(p) ==
    /\ process[p].step = "reconcile"
    /\ process[p].run \in started
    /\ packet[process[p].run] =
          [state |-> state, version |-> version, head |-> SelectedHead]

(* The tail of every accepted result: the attempt is finished and the      *)
(* workpad's version is compared and set.                                  *)
FinishAttempt(p) ==
    /\ started' = started \ {process[p].run}
    /\ packet' = [packet EXCEPT ![process[p].run] = NoPacket]
    /\ version' = version + 1
    /\ Exit(p)
    /\ UNCHANGED <<rounds, outside>>

Accept(type, head) ==
    acceptances' = acceptances \cup
                      {[type |-> type, head |-> head, changes |-> changes]}

\* Mutant: no head_changed event goes with the new HEAD.
MoveHeadQuietly(head) ==
    /\ currentHead' = IF head = SelectedHead THEN currentHead ELSE head
    /\ UNCHANGED changes

(* An IMPLEMENTER packet moves current_head to a different HEAD. *)
MoveHead(head) ==
    /\ currentHead' = IF head = SelectedHead THEN currentHead ELSE head
    /\ changes' = IF head = SelectedHead THEN changes ELSE changes + 1

(* No IMPLEMENTER packet: the phase is read-only for Git. *)
HeadUnmoved(p) == process[p].head = SelectedHead

PlanningComplete(p) ==
    /\ Reconcilable(p)
    /\ state = "QUEUED"
    /\ HeadUnmoved(p)
    /\ state' = "PLANNED"
    /\ FinishAttempt(p)
    /\ UNCHANGED <<currentHead, changes, acceptances, roleRows, blockers>>

ImplementationComplete(p) ==
    /\ Reconcilable(p)
    /\ state = "PLANNED"
    /\ ~HeadUnmoved(p)
    /\ MoveHead(process[p].head)
    /\ implRounds' = implRounds + 1
    /\ state' = "IMPLEMENTED"
    /\ FinishAttempt(p)
    /\ UNCHANGED <<acceptances, finding, archived, blockers>>

ReviewApproved(p) ==
    /\ Reconcilable(p)
    /\ state = "IMPLEMENTED"
    /\ ~Correcting
    /\ HeadUnmoved(p)
    /\ Accept("review_accepted", process[p].head)
    /\ state' = "REVIEW"
    /\ FinishAttempt(p)
    /\ UNCHANGED <<currentHead, changes, roleRows, blockers>>

AdversaryPass(p) ==
    /\ Reconcilable(p)
    /\ state = "REVIEW"
    /\ ~Correcting
    /\ HeadUnmoved(p)
    /\ CurrentAcceptance("review_accepted", process[p].head)
    /\ Accept("adversary_accepted", process[p].head)
    /\ state' = "ADVERSARIAL_REVIEW"
    /\ FinishAttempt(p)
    /\ UNCHANGED <<currentHead, changes, roleRows, blockers>>

ValidationPass(p) ==
    /\ Reconcilable(p)
    /\ state = "ADVERSARIAL_REVIEW"
    /\ ~Correcting
    /\ HeadUnmoved(p)
    /\ CurrentAcceptance("review_accepted", process[p].head)
    /\ CurrentAcceptance("adversary_accepted", process[p].head)
    /\ Accept("validation_passed", process[p].head)
    /\ state' = "FINAL_MECHANICAL_ACCEPTANCE"
    /\ FinishAttempt(p)
    /\ UNCHANGED <<currentHead, changes, roleRows, blockers>>

ArchiveComplete(p) ==
    /\ Reconcilable(p)
    /\ state = "FINAL_MECHANICAL_ACCEPTANCE"
    /\ HeadUnmoved(p)
    /\ CurrentAcceptance("review_accepted", process[p].head)
    /\ CurrentAcceptance("adversary_accepted", process[p].head)
    /\ archived' = archived \cup {process[p].head}
    /\ state' = "ARCHIVIST"
    /\ FinishAttempt(p)
    /\ UNCHANGED <<currentHead, changes, acceptances, finding, implRounds, blockers>>

(* The reviewer, the adversary or the mechanical validation finds work for *)
(* the IMPLEMENTER: its findings are licensed for that role's next round.  *)
CorrectionRequired(p) ==
    /\ Reconcilable(p)
    /\ state \in CorrectionStates
    /\ ~Correcting
    /\ HeadUnmoved(p)
    /\ \E F \in SUBSET {f \in Finding : finding[f].status = "unused"} :
          /\ F # {}
          /\ finding' = [f \in Finding |->
                            IF f \in F
                            THEN [status |-> "licensed", round |-> implRounds + 1]
                            ELSE finding[f]]
    /\ FinishAttempt(p)
    /\ UNCHANGED <<taskRow, implRounds, archived, blockers>>

\* Mutant: a corrected task goes on from the phase that asked for it.
CorrectedInPhase == state

(* Every correction goes back to the reviewer. *)
Corrected == "IMPLEMENTED"

(* The correction resolves exactly the licensed findings, each licensed    *)
(* for the round of this IMPLEMENTER run.                                  *)
CorrectionComplete(p) ==
    /\ Reconcilable(p)
    /\ Correcting
    /\ ~HeadUnmoved(p)
    /\ \A f \in Licensed : finding[f].round = implRounds + 1
    /\ finding' = [f \in Finding |-> IF f \in Licensed
                                     THEN [status |-> "resolved", round |-> 0]
                                     ELSE finding[f]]
    /\ implRounds' = implRounds + 1
    /\ MoveHead(process[p].head)
    /\ state' = Corrected
    /\ FinishAttempt(p)
    /\ UNCHANGED <<acceptances, archived, blockers>>

\* Mutant: only reported findings record a blocker.
LeaveReportedBlocker == blockers' \in blockers..MaxBlockers

(* A blocked result leaves an open blocker: each of its findings may       *)
(* record one, and one is recorded for it when none is open.               *)
LeaveBlocker ==
    /\ blockers' \in blockers..MaxBlockers
    /\ blockers' > 0

(* Blocked before or without an IMPLEMENTER run; an ARCHIVIST run may have *)
(* been recorded.                                                          *)
BlockedReadOnly(p) ==
    /\ Reconcilable(p)
    /\ HeadUnmoved(p)
    /\ LeaveBlocker
    /\ \/ UNCHANGED archived
       \/ /\ state = "FINAL_MECHANICAL_ACCEPTANCE"
          /\ archived' = archived \cup {process[p].head}
    /\ FinishAttempt(p)
    /\ UNCHANGED <<taskRow, finding, implRounds>>

\* Mutant: the license keeps the round the blocked run consumed.
KeptRound == implRounds + 1

(* _rollover_blocked_correction: the round after the blocked run's own. *)
RolloverRound == implRounds + 2

(* Blocked in an IMPLEMENTER run: the round is consumed, a partial commit  *)
(* becomes current_head, and the licenses roll over to the next round.     *)
BlockedImplementer(p) ==
    /\ Reconcilable(p)
    /\ state = "PLANNED" \/ Correcting
    /\ LeaveBlocker
    /\ \A f \in Licensed : finding[f].round = implRounds + 1
    /\ finding' = [f \in Finding |-> IF f \in Licensed
                                     THEN [finding[f] EXCEPT !.round = RolloverRound]
                                     ELSE finding[f]]
    /\ implRounds' = implRounds + 1
    /\ MoveHead(process[p].head)
    /\ FinishAttempt(p)
    /\ UNCHANGED <<state, acceptances, archived>>

Reconcile(p) ==
    \/ PlanningComplete(p)
    \/ ImplementationComplete(p)
    \/ ReviewApproved(p)
    \/ AdversaryPass(p)
    \/ ValidationPass(p)
    \/ ArchiveComplete(p)
    \/ CorrectionRequired(p)
    \/ CorrectionComplete(p)
    \/ BlockedReadOnly(p)
    \/ BlockedImplementer(p)

-----------------------------------------------------------------------------
HookStep(p) ==
    \/ FindStartedAttempt(p)
    \/ FailAttempt(p)
    \/ PrepareWorkspace(p)
    \/ PrepareFails(p)
    \/ AllocateAttempt(p)
    \/ AllocationConflict(p)
    \/ AllocationFails(p)
    \/ StageAttempt(p)
    \/ StagingFails(p)
    \/ VerifyGitTruth(p)
    \/ RejectResult(p)
    \/ Reconcile(p)

Next ==
    \/ QueueTask
    \/ ResolveBlocker
    \/ PublicationBlocked
    \/ PublicationFinalized
    \/ OperatorRepairsWorkspace
    \/ AgentWorks
    \/ AgentEnds
    \/ \E p \in Process :
          \/ OperatorFailsAttempt(p)
          \/ Dispatch(p)
          \/ AfterRun(p)
          \/ HookStep(p)
          \/ Crash(p)

Spec == Init /\ [][Next]_vars

-----------------------------------------------------------------------------
(* Properties.                                                             *)

(* Every row, file and process holds a value of its type, attempts are     *)
(* numbered without gaps, and only an allocated attempt is started, named  *)
(* by the marker, running, or what a process works on.                     *)
TypeOK ==
    /\ state \in TaskState
    /\ currentHead \in Commit \cup {NoHead}
    /\ changes \in Nat
    /\ acceptances \in SUBSET Acceptance
    /\ finding \in [Finding -> [status : {"unused", "licensed", "resolved"}, round : Nat]]
    /\ implRounds \in Nat
    /\ archived \in SUBSET Commit
    /\ version \in Nat
    /\ rounds \in 0..MaxAttempts
    /\ started \in SUBSET (1..rounds)
    /\ packet \in [Attempt -> Packet]
    /\ blockers \in 0..MaxBlockers
    /\ workspace \in [head : Commit, tree : Tree]
    /\ marker \in 0..rounds
    /\ agent \in 0..rounds
    /\ process \in [Process -> ProcessRecord]
    /\ \A p \in Process : process[p].run \in 0..rounds

(* Hooks that race for a task never leave two of its Architect attempts    *)
(* started (_allocate_architect_attempt decides inside its transaction).   *)
SingleAttempt == \A r, s \in started : r = s

(* While an attempt is started nobody else rewrites what its packet says,  *)
(* so that an honest result is never refused as stale by _reconcile.       *)
PacketIsCurrent ==
    \A r \in started :
       packet[r] = [state |-> state, version |-> version, head |-> SelectedHead]

(* The acceptances a state stands for. *)
Evidence ==
    [s \in TaskState |->
        CASE s = "REVIEW" -> {"review_accepted"}
          [] s = "ADVERSARIAL_REVIEW" -> {"review_accepted", "adversary_accepted"}
          [] s \in PublishingStates \cup {"FINAL_MECHANICAL_ACCEPTANCE"} -> AcceptanceType
          [] OTHER -> {}]

(* A task with no correction owed has, in every state, each acceptance the *)
(* state stands for, given to exactly the selected HEAD after its last     *)
(* change: no review of an earlier HEAD carries a later one forward,       *)
(* through corrections, partial commits and returns to an old commit.      *)
ExactHeadEvidence ==
    Licensed = {} => \A type \in Evidence[state] : CurrentAcceptance(type, SelectedHead)

(* A task that reaches closeout owes no correction, has an accepted HEAD,  *)
(* and from ARCHIVIST on has a finished ARCHIVIST run for that HEAD and no *)
(* attempt: what start_publication will ask for.                           *)
CloseoutComplete ==
    /\ state \in CorrectionStates \cup PublishingStates \cup {"FINAL_MECHANICAL_ACCEPTANCE"}
          => currentHead # NoHead
    /\ state \notin CorrectionStates => Licensed = {}
    /\ state \in PublishingStates => currentHead \in archived /\ started = {}

(* At closeout the checkout is what publication will bundle: clean and at  *)
(* the accepted HEAD, although a hook that began before may still prepare  *)
(* it, from facts that it read then.                                       *)
CheckoutIsKept ==
    state \in PublishingStates => workspace = [head |-> currentHead, tree |-> "clean"]

(* A correction license always names the round the next IMPLEMENTER run    *)
(* will get; were it to name another, no result could ever complete or     *)
(* block the correction and the task would be stuck.                       *)
LicenseForNextRound == \A f \in Licensed : finding[f].round = implRounds + 1

(* An attempt never ends without a trace: the task moves, or its licenses  *)
(* do, or a blocker is open, so that the Runtime does not dispatch the     *)
(* same work again and again.                                              *)
AttemptLeavesTrace ==
    [][started \ started' # {} =>
         \/ <<state, currentHead, Licensed>> # <<state, currentHead, Licensed>>'
         \/ blockers' > 0]_vars

(* The Git truth is read before the transaction that records it; at the    *)
(* commit it still is the truth: an accepted HEAD is the clean checkout's. *)
AcceptedHeadIsCheckedOut ==
    [][currentHead' # currentHead =>
         workspace.tree = "clean" /\ currentHead' = workspace.head]_vars

(* No attempt starts on a task with an open blocker, although the Runtime  *)
(* looked for one before the hooks ran.                                    *)
NoAttemptPastBlocker ==
    [][started' \ started # {} => blockers = 0 /\ blockers' = 0]_vars

(* The agent of a new attempt starts from the HEAD its packet names.       *)
LaunchedAtSelectedHead ==
    [][agent' \notin {0, agent} =>
         workspace.tree = "clean" /\ workspace.head = packet[agent'].head]_vars

(* task.py fail-attempt fails exactly the attempt that the operator found  *)
(* started with no agent alive.                                            *)
ExactAttemptFailed ==
    [][\A p \in Process :
         /\ process[p].step = "failing"
         /\ process[p].aim # 0
         /\ started' # started
         /\ process[p] # process[p]'
         => process[p].run = process[p].aim]_vars

-----------------------------------------------------------------------------
(* The contract: TaskContract is implemented under this mapping.           *)

Contract == INSTANCE TaskContract WITH
    phase <- state,
    head <- SelectedHead,
    evidence <- {type \in AcceptanceType : CurrentAcceptance(type, SelectedHead)},
    owed <- Licensed # {},
    busy <- started # {}

(* Every interleaving of hooks, commands, agents and crashes is seen by a  *)
(* reader of the task's row as a behaviour of the contract.                *)
ImplementsContract == Contract!Spec

-----------------------------------------------------------------------------
(* Fairness: a hook that is not killed takes its next step, an agent ends  *)
(* by its time limit, and the operator follows the recovery procedure:     *)
(* blockers are resolved, and a started attempt with no agent is failed by *)
(* a command that is not killed each time at the same point.               *)
Fairness ==
    /\ \A p \in Process :
          /\ WF_vars(HookStep(p))
          /\ SF_vars(OperatorFailsAttempt(p))
          /\ SF_vars(FindStartedAttempt(p))
          /\ SF_vars(FailAttempt(p))
    /\ WF_vars(AgentEnds)
    /\ WF_vars(ResolveBlocker)

FairSpec == Spec /\ Fairness

(* No crash between the allocation of an attempt and its after_run leaves  *)
(* the task with an attempt that stays started, and undispatchable, for    *)
(* ever.                                                                   *)
AttemptEnds == started # {} ~> started = {}
=============================================================================
