---------------------------- MODULE Publication ----------------------------
(***************************************************************************)
(* task.py publish: the broker that takes a task at ARCHIVIST to a branch  *)
(* and one draft pull request on GitHub, and then to READY_FOR_HUMAN_MERGE *)
(* in one transaction.  Publishers are host processes: each holds the      *)
(* task's lock while it runs, may be killed at any point, and may lose the *)
(* answer of a call that took effect.                                      *)
(*                                                                         *)
(* Before ARCHIVIST nothing is published: state, blockers and hooks then   *)
(* change as Lifecycle lets them.  The task's head, its acceptances and    *)
(* its archival run do not change at ARCHIVIST (CloseoutIsFrozen of        *)
(* TaskSystem), so the head is left out: a remote head is the task's or it *)
(* is not.  TaskSystem composes this module with Lifecycle.                *)
(***************************************************************************)
EXTENDS Integers, Sequences

CONSTANTS
    Publisher,     \* processes that may run task.py publish at the same time
    OthersAct,     \* whether people use the repository meanwhile
    MaxPulls,      \* bound: pull requests of the task branch
    MaxBlockers,   \* bound: blockers that may be open at once
    EarlierState,  \* the values of tasks.state before ARCHIVIST
    LateHook       \* host processes that may be hooks of the Runtime

ASSUME PublicationAssumption ==
    /\ OthersAct \in BOOLEAN
    /\ MaxPulls \in Nat
    /\ MaxBlockers \in Nat
    /\ EarlierState \cap {"ARCHIVIST", "READY_FOR_HUMAN_MERGE"} = {}

VARIABLES
    phase,       \* tasks.state
    published,   \* whether tasks.published_head is the task's head
    intent,      \* the publications row: its status and pull request
    blockers,    \* number of open blockers
    lateHooks,   \* hooks of a started preparation: may still record a blocker
    branch,      \* the task branch on GitHub
    pulls,       \* the pull requests of the task branch, by number
    protection,  \* fingerprint of the default branch's ruleset
    disturbed,   \* history: whether somebody else has changed any of these
    publisher    \* the publishers

rows == <<phase, published, intent, blockers, lateHooks>>
github == <<branch, pulls, protection, disturbed>>
vars == <<phase, published, intent, blockers, lateHooks, branch, pulls,
          protection, disturbed, publisher>>

-----------------------------------------------------------------------------
(* A branch at the task's head may have been pushed by a publisher         *)
(* ("ours") or by somebody else ("same"); "other" is any other head.       *)
Branch == {"absent", "ours", "same", "other"}
AtHead == branch \in {"ours", "same"}

(* right: its base is the task's base_ref and its head is in this          *)
(* repository.  The head of an open pull request is its branch's.          *)
Pull == [open : BOOLEAN, draft : BOOLEAN, right : BOOLEAN, ours : BOOLEAN]

Fingerprint == {"A", "B"}
Intent == [status : {"none", "started", "failed", "published"}, pull : 0..MaxPulls]

CallStep == {"snapshot", "push", "lease", "list", "create", "confirm",
             "remote", "reread", "second"}
Step == CallStep \cup {"idle", "read", "preflight", "start", "finalize",
                       "cleanup", "failing"}

(* allow: an existing branch may be adopted; seen: the ruleset fingerprint *)
(* of Snapshot A; pull: the pull request it works with; exact: the remote  *)
(* head it read was the task's.                                            *)
PublisherRecord == [step : Step, allow : BOOLEAN, seen : Fingerprint,
                    pull : 0..MaxPulls, exact : BOOLEAN]
Idle == [step |-> "idle", allow |-> FALSE, seen |-> "A", pull |-> 0, exact |-> FALSE]

Init ==
    /\ phase \in EarlierState
    /\ published = FALSE
    /\ intent = [status |-> "none", pull |-> 0]
    /\ blockers = 0
    /\ lateHooks = {}
    /\ branch = "absent"
    /\ pulls = <<>>
    /\ protection = "A"
    /\ disturbed = FALSE
    /\ publisher = [p \in Publisher |-> Idle]

-----------------------------------------------------------------------------
(* Helpers of the actions.                                                 *)

At(p, step) == publisher[p].step = step
Goto(p, step) == publisher' = [publisher EXCEPT ![p].step = step]
Exit(p) == publisher' = [publisher EXCEPT ![p] = Idle]

InsertBlocker == blockers < MaxBlockers /\ blockers' = blockers + 1

(* The pull request number is known to the handler of a failure only once  *)
(* reconcile_pull_request has returned it.                                 *)
FailUnconfirmed(p) ==
    publisher' = [publisher EXCEPT ![p] = [@ EXCEPT !.step = "failing", !.pull = 0]]

\* Mutant: the lock's path is taken for the lock.
LockNeverHeld(p) == TRUE

(* publication_lock: non-blocking, released with the process. *)
LockFree(p) == \A q \in Publisher \ {p} : At(q, "idle")

(* _validate_pull_request *)
ExactDraft(n) ==
    /\ n \in DOMAIN pulls
    /\ pulls[n].open
    /\ pulls[n].draft
    /\ pulls[n].right
    /\ AtHead

-----------------------------------------------------------------------------
(* Before the intent: a failure leaves a blocker and no trace elsewhere.   *)

Begin(p) ==
    /\ At(p, "idle")
    /\ LockFree(p)
    /\ Goto(p, "read")
    /\ UNCHANGED <<rows, github>>

\* Mutant: any task without a blocker may be published.
EligibleUnblocked == blockers = 0

(* A published task is reported again; one that is not eligible is refused *)
(* without a blocker.                                                      *)
Eligible == phase = "ARCHIVIST" /\ blockers = 0

Refuse(p) ==
    /\ At(p, "read")
    /\ ~Eligible
    /\ Exit(p)
    /\ UNCHANGED <<rows, github>>

Admit(p) ==
    /\ At(p, "read")
    /\ Eligible
    /\ Goto(p, "preflight")
    /\ UNCHANGED <<rows, github>>

\* Mutant: only an intent left by a crash makes the branch adoptable.
PriorCrash == intent.status = "started"

(* The publications row of an earlier attempt. *)
PriorAttempt == intent.status \in {"started", "failed"}

(* The workspace and the deployment are as they should be. *)
Preflight(p) ==
    /\ At(p, "preflight")
    /\ publisher' = [publisher EXCEPT ![p] = [@ EXCEPT !.step = "start",
                                                       !.allow = PriorAttempt]]
    /\ UNCHANGED <<rows, github>>

\* Mutant: the refusal of a task that is not eligible leaves a blocker too.
AnyRefusalBlocks(p) ==
    /\ publisher[p].step \in {"read", "preflight", "start"}
    /\ InsertBlocker
    /\ Exit(p)
    /\ UNCHANGED <<phase, published, intent, lateHooks, github>>

(* They are not, or start_publication refuses: record_blocker. *)
PreflightFails(p) ==
    /\ publisher[p].step \in {"preflight", "start"}
    /\ InsertBlocker
    /\ Exit(p)
    /\ UNCHANGED <<phase, published, intent, lateHooks, github>>

(* start_publication; a row that a crash left started is taken as it is. *)
StartPublication(p) ==
    /\ At(p, "start")
    /\ Eligible
    /\ intent.status # "published"
    /\ intent' = [intent EXCEPT !.status = "started"]
    /\ Goto(p, "snapshot")
    /\ UNCHANGED <<phase, published, blockers, lateHooks, github>>

-----------------------------------------------------------------------------
(* The branch and the pull request.                                        *)

(* Any call may fail without an effect, the key check and the bundle among *)
(* them.                                                                   *)
CallFails(p) ==
    /\ publisher[p].step \in CallStep
    /\ IF publisher[p].step \in {"remote", "reread", "second"}
       THEN Goto(p, "failing")
       ELSE FailUnconfirmed(p)
    /\ UNCHANGED <<rows, github>>

TakeSnapshot(p) ==
    /\ At(p, "snapshot")
    /\ publisher' = [publisher EXCEPT ![p] = [@ EXCEPT !.step = "push",
                                                       !.seen = protection]]
    /\ UNCHANGED <<rows, github>>

(* _publish_branch reads the remote head first. *)
AdoptBranch(p) ==
    /\ At(p, "push")
    /\ AtHead
    /\ publisher[p].allow
    /\ Goto(p, "list")
    /\ UNCHANGED <<rows, github>>

FindNoBranch(p) ==
    /\ At(p, "push")
    /\ branch = "absent"
    /\ Goto(p, "lease")
    /\ UNCHANGED <<rows, github>>

RefuseBranch(p) ==
    /\ At(p, "push")
    /\ branch = "other" \/ (AtHead /\ ~publisher[p].allow)
    /\ FailUnconfirmed(p)
    /\ UNCHANGED <<rows, github>>

\* Mutant: a forced push.
NoLease == TRUE

(* The push is a compare-and-swap that expects the branch to be absent. *)
LeaseHolds == branch = "absent"

PushBranch(p) ==
    /\ At(p, "lease")
    /\ LeaseHolds
    /\ branch' = "ours"
    /\ Goto(p, "list") \/ FailUnconfirmed(p)     \* its answer may be lost
    /\ UNCHANGED <<rows, pulls, protection, disturbed>>

LoseLease(p) ==
    /\ At(p, "lease")
    /\ ~LeaseHolds
    /\ FailUnconfirmed(p)
    /\ UNCHANGED <<rows, github>>

(* The listing asks for pull requests in every state. *)
Listed == DOMAIN pulls

(* None: one is opened.  One of the right identity: it is confirmed.       *)
(* Anything else contradicts the publication.                              *)
ListPulls(p) ==
    /\ At(p, "list")
    /\ \/ /\ Listed = {}
          /\ Goto(p, "create")
       \/ \E n \in Listed :
             /\ Listed = {n}
             /\ pulls[n].right
             /\ publisher' = [publisher EXCEPT ![p] = [@ EXCEPT !.step = "confirm",
                                                                !.pull = n]]
       \/ /\ \/ \E m, n \in Listed : m # n
             \/ \E n \in Listed : ~pulls[n].right
          /\ FailUnconfirmed(p)
    /\ UNCHANGED <<rows, github>>

(* GitHub refuses a second open pull request and one without its branch.   *)
CreatePull(p) ==
    /\ At(p, "create")
    /\ Len(pulls) < MaxPulls
    /\ branch # "absent"
    /\ ~ \E n \in DOMAIN pulls : pulls[n].open /\ pulls[n].right
    /\ pulls' = Append(pulls, [open |-> TRUE, draft |-> TRUE, right |-> TRUE, ours |-> TRUE])
    /\ \/ /\ AtHead
          /\ publisher' = [publisher EXCEPT ![p] = [@ EXCEPT !.step = "confirm",
                                                             !.pull = Len(pulls')]]
       \/ FailUnconfirmed(p)
    /\ UNCHANGED <<rows, branch, protection, disturbed>>

ConfirmPull(p) ==
    /\ At(p, "confirm")
    /\ IF ExactDraft(publisher[p].pull) THEN Goto(p, "remote") ELSE FailUnconfirmed(p)
    /\ UNCHANGED <<rows, github>>

-----------------------------------------------------------------------------
(* The re-checks, the finalization, and the failure.                       *)

RereadBranch(p) ==
    /\ At(p, "remote")
    /\ publisher' = [publisher EXCEPT ![p] = [@ EXCEPT !.step = "reread",
                                                       !.exact = AtHead]]
    /\ UNCHANGED <<rows, github>>

RereadPull(p) ==
    /\ At(p, "reread")
    /\ Goto(p, IF ExactDraft(publisher[p].pull) THEN "second" ELSE "failing")
    /\ UNCHANGED <<rows, github>>

SecondSnapshot(p) ==
    /\ At(p, "second")
    /\ Goto(p, IF publisher[p].seen = protection /\ publisher[p].exact
               THEN "finalize" ELSE "failing")
    /\ UNCHANGED <<rows, github>>

\* Mutant: the number of the pull request is not written.
FinalizedAsRecorded(p) == [intent EXCEPT !.status = "published"]

Finalized(p) == [status |-> "published", pull |-> publisher[p].pull]

(* finalize_publication: the row, published_head and the state in one      *)
(* transaction, or none of them.                                           *)
FinalizePublication(p) ==
    /\ At(p, "finalize")
    /\ Eligible
    /\ intent.status = "started"
    /\ intent' = Finalized(p)
    /\ published' = TRUE
    /\ phase' = "READY_FOR_HUMAN_MERGE"
    /\ Goto(p, "cleanup")
    /\ UNCHANGED <<blockers, lateHooks, github>>

FinalizationFails(p) ==
    /\ At(p, "finalize")
    /\ Goto(p, "failing")
    /\ UNCHANGED <<rows, github>>

(* The key's and the database's contexts are left after the commit, and    *)
(* may still raise.                                                        *)
CleanUp(p) ==
    /\ At(p, "cleanup")
    /\ Exit(p) \/ Goto(p, "failing")
    /\ UNCHANGED <<rows, github>>

\* Mutant: the failure of a finalized publication is recorded.
FailableAlways == TRUE

(* What fail_publication requires of the rows. *)
Failable == phase = "ARCHIVIST" /\ ~published /\ intent.status # "published"

\* Mutant: a failed intent is withdrawn.
Withdrawn(p) == [status |-> "none", pull |-> 0]

(* The failed row keeps the pull request that is known. *)
Failed(p) ==
    [status |-> "failed",
     pull |-> IF publisher[p].pull # 0 THEN publisher[p].pull ELSE intent.pull]

FailPublication(p) ==
    /\ At(p, "failing")
    /\ IF Failable
       THEN intent' = Failed(p) /\ InsertBlocker
       ELSE UNCHANGED <<intent, blockers>>
    /\ Exit(p)
    /\ UNCHANGED <<phase, published, lateHooks, github>>

Crash(p) ==
    /\ ~At(p, "idle")
    /\ Exit(p)
    /\ UNCHANGED <<rows, github>>

-----------------------------------------------------------------------------
(* The operator, late hooks, and the people who use the repository.        *)

\* Mutant: a blocker is resolved whether it is open or not.
ResolveAgain ==
    /\ blockers' = blockers - 1
    /\ UNCHANGED <<phase, published, intent, lateHooks, github, publisher>>

ResolveBlocker ==
    /\ blockers > 0
    /\ blockers' = blockers - 1
    /\ UNCHANGED <<phase, published, intent, lateHooks, github, publisher>>

(* A hook that began before closeout ends after it, and may leave a        *)
(* blocker.                                                                *)
LateHookEnds ==
    /\ \E h \in lateHooks : lateHooks' = lateHooks \ {h}
    /\ InsertBlocker \/ UNCHANGED blockers
    /\ UNCHANGED <<phase, published, intent, github, publisher>>

(* The lifecycle's part of the task, up to its closeout. *)
BeforeCloseout ==
    /\ phase \in EarlierState
    /\ phase' \in EarlierState \cup {"ARCHIVIST"}
    /\ blockers' \in 0..MaxBlockers
    /\ lateHooks' \in SUBSET LateHook
    /\ UNCHANGED <<published, intent, github, publisher>>

OthersPush ==
    /\ OthersAct /\ disturbed' = TRUE
    /\ branch' \in {"same", "other"}
    /\ branch' # branch
    /\ ~(branch = "ours" /\ branch' = "same")
    /\ UNCHANGED <<rows, pulls, protection, publisher>>

(* GitHub closes the pull requests of a deleted branch. *)
OthersDelete ==
    /\ OthersAct /\ disturbed' = TRUE
    /\ branch # "absent"
    /\ branch' = "absent"
    /\ pulls' = [n \in DOMAIN pulls |-> [pulls[n] EXCEPT !.open = FALSE]]
    /\ UNCHANGED <<rows, protection, publisher>>

OthersClose ==
    /\ OthersAct /\ disturbed' = TRUE
    /\ \E n \in DOMAIN pulls :
          /\ pulls[n].open
          /\ pulls' = [pulls EXCEPT ![n].open = FALSE]
    /\ UNCHANGED <<rows, branch, protection, publisher>>

OthersUndraft ==
    /\ OthersAct /\ disturbed' = TRUE
    /\ \E n \in DOMAIN pulls :
          /\ pulls[n].draft
          /\ pulls' = [pulls EXCEPT ![n].draft = FALSE]
    /\ UNCHANGED <<rows, branch, protection, publisher>>

OthersOpen ==
    /\ OthersAct /\ disturbed' = TRUE
    /\ Len(pulls) < MaxPulls
    /\ branch # "absent"
    /\ \E right \in BOOLEAN :
          /\ ~ \E n \in DOMAIN pulls : pulls[n].open /\ pulls[n].right = right
          /\ pulls' = Append(pulls, [open |-> TRUE, draft |-> TRUE,
                                     right |-> right, ours |-> FALSE])
    /\ UNCHANGED <<rows, branch, protection, publisher>>

OthersProtect ==
    /\ OthersAct /\ disturbed' = TRUE
    /\ protection' \in Fingerprint \ {protection}
    /\ UNCHANGED <<rows, branch, pulls, publisher>>

-----------------------------------------------------------------------------
Publish(p) ==
    \/ Refuse(p)
    \/ Admit(p)
    \/ Preflight(p)
    \/ PreflightFails(p)
    \/ StartPublication(p)
    \/ CallFails(p)
    \/ TakeSnapshot(p)
    \/ AdoptBranch(p)
    \/ FindNoBranch(p)
    \/ RefuseBranch(p)
    \/ PushBranch(p)
    \/ LoseLease(p)
    \/ ListPulls(p)
    \/ CreatePull(p)
    \/ ConfirmPull(p)
    \/ RereadBranch(p)
    \/ RereadPull(p)
    \/ SecondSnapshot(p)
    \/ FinalizePublication(p)
    \/ FinalizationFails(p)
    \/ CleanUp(p)
    \/ FailPublication(p)

Next ==
    \/ \E p \in Publisher : Begin(p) \/ Publish(p) \/ Crash(p)
    \/ ResolveBlocker
    \/ LateHookEnds
    \/ BeforeCloseout
    \/ OthersPush
    \/ OthersDelete
    \/ OthersClose
    \/ OthersUndraft
    \/ OthersOpen
    \/ OthersProtect

Spec == Init /\ [][Next]_vars

-----------------------------------------------------------------------------
(* Properties.                                                             *)

(* Rows, remote objects and publishers hold values of their types.         *)
TypeOK ==
    /\ phase \in EarlierState \cup {"ARCHIVIST", "READY_FOR_HUMAN_MERGE"}
    /\ published \in BOOLEAN
    /\ intent \in Intent
    /\ blockers \in 0..MaxBlockers
    /\ lateHooks \in SUBSET LateHook
    /\ branch \in Branch
    /\ pulls \in Seq(Pull)
    /\ Len(pulls) \in 0..MaxPulls
    /\ protection \in Fingerprint
    /\ disturbed \in BOOLEAN
    /\ publisher \in [Publisher -> PublisherRecord]

(* The row, published_head and the state agree, whichever publisher        *)
(* crashed, raced or failed late.                                          *)
RowsAgree ==
    /\ phase = "READY_FOR_HUMAN_MERGE" <=> intent.status = "published"
    /\ published <=> intent.status = "published"

(* As long as nobody else uses the repository, a task that is ready for a  *)
(* human has its head on the branch and exactly one pull request, the      *)
(* recorded one, open and draft: crashes, retries and lost answers never   *)
(* lead to a second one or to a READY whose evidence is missing.           *)
ReadyIsOnGitHub ==
    phase = "READY_FOR_HUMAN_MERGE" /\ ~disturbed =>
        /\ ExactDraft(intent.pull)
        /\ Len(pulls) = 1

(* The publishers of a task open one pull request at most, even when its   *)
(* creation was not acknowledged or somebody closed it since.              *)
OnePullRequest ==
    \A m, n \in DOMAIN pulls : pulls[m].ours /\ pulls[n].ours => m = n

(* The durable intent precedes every external effect and outlives the      *)
(* failure of its attempt, so that a retry recognises its own branch.      *)
IntentCoversEffects ==
    branch = "ours" \/ (\E n \in DOMAIN pulls : pulls[n].ours)
       => intent.status # "none"

(* A head that somebody else pushed is never overwritten, not even when it *)
(* appears between the inspection of the branch and the push.              *)
ForeignHeadKept == [][branch' = "ours" => branch \in {"absent", "ours"}]_vars

(* A finalized publication is final: no late failure, retry or concurrent  *)
(* publisher downgrades it.                                                *)
PublishedIsFinal ==
    [][intent.status = "published" => UNCHANGED <<phase, published, intent>>]_vars

-----------------------------------------------------------------------------
(* Fairness: the operator publishes again while the task is not ready and  *)
(* resolves blockers, a process that is not killed goes on, and no call    *)
(* fails, and no process is killed, each time at the same point.           *)
Fairness ==
    /\ WF_vars(ResolveBlocker)
    /\ \A p \in Publisher :
          /\ WF_vars(Publish(p))
          /\ SF_vars(Begin(p))
          /\ SF_vars(Admit(p))
          /\ SF_vars(Preflight(p))
          /\ SF_vars(StartPublication(p))
          /\ SF_vars(TakeSnapshot(p))
          /\ SF_vars(AdoptBranch(p))
          /\ SF_vars(FindNoBranch(p))
          /\ SF_vars(PushBranch(p) /\ At(p, "list")')
          /\ SF_vars(ListPulls(p))
          /\ SF_vars(CreatePull(p) /\ At(p, "confirm")')
          /\ SF_vars(ConfirmPull(p))
          /\ SF_vars(RereadBranch(p))
          /\ SF_vars(RereadPull(p))
          /\ SF_vars(SecondSnapshot(p))
          /\ SF_vars(FinalizePublication(p))

FairSpec == Spec /\ Fairness

(* No crash, lost answer or failed attempt leaves rows or remote objects   *)
(* that a later attempt cannot take up: a task at closeout becomes ready.  *)
EventuallyReady == phase = "ARCHIVIST" ~> phase = "READY_FOR_HUMAN_MERGE"
=============================================================================
