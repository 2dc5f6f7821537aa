----------------------------- MODULE TaskSystem -----------------------------
(***************************************************************************)
(* One task from PREPARED to READY_FOR_HUMAN_MERGE: Lifecycle's hooks,     *)
(* commands and agents and Publication's publishers on the same rows.      *)
(* They share tasks.state and the blockers; each keeps the rest of its own *)
(* state.  Where Lifecycle lets a publication do anything it might, and    *)
(* Publication a lifecycle, here the other one acts.                       *)
(***************************************************************************)
EXTENDS Lifecycle, Sequences

CONSTANTS
    Publisher,     \* processes that may run task.py publish at the same time
    OthersAct,     \* whether people use the repository meanwhile
    MaxPulls       \* bound: pull requests of the task branch

ASSUME TaskSystemAssumption ==
    /\ OthersAct \in BOOLEAN
    /\ MaxPulls \in Nat

VARIABLES published, intent, branch, pulls, protection, disturbed, publisher

lifecycleRest == <<currentHead, changes, acceptances, roleRows, attemptRows,
                   outside, process>>
brokerRest == <<published, intent, branch, pulls, protection, disturbed, publisher>>
systemVars == <<state, blockers, lifecycleRest, brokerRest>>

-----------------------------------------------------------------------------
(* The hooks that may still record a blocker when the task is at closeout: *)
(* prepare's own, and that of an allocation that fails.                    *)
Preparing == {p \in Process : process[p].step \in {"prepare", "allocate"}}

Broker == INSTANCE Publication WITH
    phase <- state,
    EarlierState <- ActiveStates \cup {"PREPARED"},
    LateHook <- Process,
    lateHooks <- Preparing

SystemInit ==
    /\ Init
    /\ Broker!Init

(* Everything that is not a publication. *)
LifecycleStep ==
    /\ \/ QueueTask
       \/ ResolveBlocker
       \/ OperatorRepairsWorkspace
       \/ AgentWorks
       \/ AgentEnds
       \/ \E p \in Process :
             \/ OperatorFailsAttempt(p)
             \/ Dispatch(p)
             \/ AfterRun(p)
             \/ HookStep(p)
             \/ Crash(p)
    /\ UNCHANGED brokerRest

(* What verify_workspace and process_owns_workspace ask before the intent: *)
(* nobody works in the checkout, and it is clean and at the task's head.   *)
WorkspaceAtHead ==
    /\ agent = 0
    /\ ~ \E p \in Process : Hook(p)
    /\ workspace = [head |-> currentHead, tree |-> "clean"]

PublisherStep(p) ==
    /\ UNCHANGED lifecycleRest
    /\ Broker!Begin(p) \/ Broker!Publish(p) \/ Broker!Crash(p)
    /\ publisher[p].step = "preflight" /\ publisher'[p].step = "start" => WorkspaceAtHead

OthersStep ==
    /\ UNCHANGED lifecycleRest
    /\ \/ Broker!OthersPush
       \/ Broker!OthersDelete
       \/ Broker!OthersClose
       \/ Broker!OthersUndraft
       \/ Broker!OthersOpen
       \/ Broker!OthersProtect

SystemNext ==
    \/ LifecycleStep
    \/ \E p \in Publisher : PublisherStep(p)
    \/ OthersStep

SystemSpec == SystemInit /\ [][SystemNext]_systemVars

-----------------------------------------------------------------------------
(* Properties.                                                             *)

(* Nothing leaves the host before it is earned, and what has left it stays *)
(* earned: as long as there is a branch or a pull request that a publisher *)
(* made, or the task is ready, the task's head has all of its acceptances  *)
(* and its archival run, no correction is owed, and no attempt or agent is *)
(* left that could move it.                                                *)
EffectsAreEarned ==
    \/ branch = "ours"
    \/ \E n \in DOMAIN pulls : pulls[n].ours
    \/ state = "READY_FOR_HUMAN_MERGE"
    => /\ state \in PublishingStates
       /\ \A type \in AcceptanceType : CurrentAcceptance(type, currentHead)
       /\ currentHead \in archived
       /\ Licensed = {}
       /\ started = {}
       /\ agent = 0

(* From closeout on the rows that start_publication reads are frozen, so   *)
(* that a publisher may act on what it has read of them, and Publication   *)
(* may leave them out.                                                     *)
CloseoutIsFrozen ==
    [][(state \in PublishingStates) =>
         UNCHANGED <<currentHead, changes, acceptances, roleRows, attemptRows>>]_systemVars

(* The publishers do to the task what Lifecycle says a publication may do: *)
(* none but a task at ARCHIVIST gets a blocker or a new state from them.   *)
ImplementsLifecycle == Spec

(* Hooks, commands and agents do to the rows of a publication what         *)
(* Publication says they may do: at closeout they end, some with a         *)
(* blocker, and none begins.                                               *)
ImplementsPublication == Broker!Spec
=============================================================================
