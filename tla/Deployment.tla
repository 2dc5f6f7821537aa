----------------------------- MODULE Deployment -----------------------------
(***************************************************************************)
(* deploy.py: staging a generated runtime and putting it at the target by  *)
(* two renames, while project.py (verify_deployment) and the contained     *)
(* supervisor (_validate_deployment) read whatever the target's path names *)
(* at each of their reads, and the operator's checkout moves on.           *)
(***************************************************************************)
EXTENDS Naturals

CONSTANTS
    Deployer,    \* deploy.py processes that may run at the same time
    Reader,      \* commands and supervisors that check the deployment
    Release,     \* reviewed commits of the source checkout
    NoRelease,
    MaxFailures  \* bound: deployers that are killed or meet an error

ASSUME DeploymentAssumption == NoRelease \notin Release /\ MaxFailures \in Nat

VARIABLES
    checkout,    \* the commit of the source checkout
    target,      \* the tree at the deployment's path
    previous,    \* the trees kept as <target>.previous.<time>
    deploy,      \* the deployers: step and staged tree
    reader,      \* the readers: what they have read
    installed,   \* history: whether there has been a deployment
    failures     \* how many deployers have failed

vars == <<checkout, target, previous, deploy, reader, installed, failures>>

-----------------------------------------------------------------------------
(* A tree: where its files come from, the source contract and the commit   *)
(* that its manifest records; sealed once DEPLOYMENT.json is written.      *)
Tree == [files : Release, contract : Release \cup {NoRelease},
         commit : Release, sealed : BOOLEAN]
Nothing == [files |-> NoRelease, contract |-> NoRelease, commit |-> NoRelease,
            sealed |-> FALSE]

Deployers == [step : {"idle", "copy", "seal", "look", "aside", "install"},
              commit : Release \cup {NoRelease}, stage : Tree \cup {Nothing}]
NotDeploying == [step |-> "idle", commit |-> NoRelease, stage |-> Nothing]

(* manifest and files: the trees in which DEPLOYMENT.json, and the files,  *)
(* were read.  A start compares with the checkout, a supervisor goes on to *)
(* import the containment from the path.                                   *)
Readers == [kind : {"none", "start", "supervisor"},
            step : {"idle", "manifest", "files", "contract", "import", "accepted"},
            manifest : Tree \cup {Nothing}, files : Tree \cup {Nothing},
            used : Tree \cup {Nothing}]
NotReading == [kind |-> "none", step |-> "idle", manifest |-> Nothing,
               files |-> Nothing, used |-> Nothing]

Init ==
    /\ checkout \in Release
    /\ target = Nothing
    /\ previous = {}
    /\ deploy = [d \in Deployer |-> NotDeploying]
    /\ reader = [r \in Reader |-> NotReading]
    /\ installed = FALSE
    /\ failures = 0

Exists(tree) == tree # Nothing

DeployAt(d, step) == deploy[d].step = step
DeployTo(d, step) == deploy' = [deploy EXCEPT ![d].step = step]
TreesUnchanged == UNCHANGED <<checkout, target, previous, installed>>
OnlyDeploys == TreesUnchanged /\ UNCHANGED <<reader, failures>>

-----------------------------------------------------------------------------
(* The operator checks out another release, between deployments.           *)
Switch ==
    /\ \A d \in Deployer : DeployAt(d, "idle")
    /\ checkout' \in Release
    /\ UNCHANGED <<target, previous, deploy, reader, installed, failures>>

(* The checkout is clean, its commit is read, the stage created.           *)
Begin(d) ==
    /\ DeployAt(d, "idle")
    /\ deploy' = [deploy EXCEPT ![d] = [@ EXCEPT !.step = "copy", !.commit = checkout]]
    /\ OnlyDeploys

CopyFiles(d) ==
    /\ DeployAt(d, "copy")
    /\ deploy' = [deploy EXCEPT ![d] =
                    [@ EXCEPT !.step = "seal",
                              !.stage = [files |-> checkout, contract |-> NoRelease,
                                         commit |-> deploy[d].commit, sealed |-> FALSE]]]
    /\ OnlyDeploys

(* DEPLOYMENT.json is written. *)
Sealed(tree, contract) == [tree EXCEPT !.contract = contract, !.sealed = TRUE]

\* Mutant: the staged tree is installed before it has its manifest.
SealNothing(d) ==
    /\ DeployAt(d, "seal")
    /\ DeployTo(d, "look")
    /\ OnlyDeploys

\* Mutant: the manifest takes the contract from the tree installed before.
SealOldContract(d) ==
    /\ DeployAt(d, "seal")
    /\ deploy' = [deploy EXCEPT ![d] =
                    [@ EXCEPT !.step = "look",
                              !.stage = Sealed(deploy[d].stage,
                                               IF Exists(target) THEN target.contract
                                               ELSE checkout)]]
    /\ OnlyDeploys

(* The inventory, the contract's digest and DEPLOYMENT.json.               *)
Seal(d) ==
    /\ DeployAt(d, "seal")
    /\ deploy' = [deploy EXCEPT ![d] =
                    [@ EXCEPT !.step = "look", !.stage = Sealed(deploy[d].stage, checkout)]]
    /\ OnlyDeploys

\* Mutant: there has been a deployment, so there is one.
LookOnce(d) ==
    /\ DeployAt(d, "look")
    /\ DeployTo(d, IF installed THEN "aside" ELSE "install")
    /\ OnlyDeploys

(* target.exists() *)
Look(d) ==
    /\ DeployAt(d, "look")
    /\ DeployTo(d, IF Exists(target) THEN "aside" ELSE "install")
    /\ OnlyDeploys

\* Mutant: what is at the target is removed.
RemoveTarget(d) ==
    /\ DeployAt(d, "aside")
    /\ Exists(target)
    /\ target' = Nothing
    /\ DeployTo(d, "install")
    /\ UNCHANGED <<checkout, previous, reader, installed, failures>>

MoveAside(d) ==
    /\ DeployAt(d, "aside")
    /\ Exists(target)
    /\ previous' = previous \cup {target}
    /\ target' = Nothing
    /\ DeployTo(d, "install")
    /\ UNCHANGED <<checkout, reader, installed, failures>>

(* The rename of the stage succeeds onto nothing only: a directory that    *)
(* somebody else has installed meanwhile is not empty.                     *)
Install(d) ==
    /\ DeployAt(d, "install")
    /\ ~Exists(target)
    /\ target' = deploy[d].stage
    /\ deploy' = [deploy EXCEPT ![d] = NotDeploying]
    /\ installed' = TRUE
    /\ UNCHANGED <<checkout, previous, reader, failures>>

Raises(d) ==
    /\ deploy' = [deploy EXCEPT ![d] = NotDeploying]
    /\ TreesUnchanged /\ UNCHANGED reader

(* Another deployer has moved the target aside, or installed its own: the  *)
(* rename raises and the stage is removed.                                 *)
Overtaken(d) ==
    /\ \/ DeployAt(d, "aside") /\ ~Exists(target)
       \/ DeployAt(d, "install") /\ Exists(target)
    /\ Raises(d)
    /\ UNCHANGED failures

(* Any other step that raises (a copy, the rename onto a backup of the     *)
(* same second) removes the stage too; a kill leaves it where nobody       *)
(* looks.                                                                  *)
Fail(d) ==
    /\ ~DeployAt(d, "idle")
    /\ failures < MaxFailures
    /\ failures' = failures + 1
    /\ Raises(d)

-----------------------------------------------------------------------------
(* Reading the path.  A supervisor's own script is there too.  Absent or   *)
(* unsealed trees, and manifests that do not fit the files, refuse.        *)

Reads(r, step) == reader[r].step = step
ReaderMoves(r, record) ==
    /\ reader' = [reader EXCEPT ![r] = record]
    /\ TreesUnchanged /\ UNCHANGED <<deploy, failures>>

Refuses(r) == ReaderMoves(r, NotReading)

StartReading(r) ==
    /\ Reads(r, "idle")
    /\ \E kind \in {"start", "supervisor"} :
          /\ kind = "supervisor" => Exists(target)
          /\ ReaderMoves(r, [reader[r] EXCEPT !.kind = kind, !.step = "manifest"])

ReadManifest(r) ==
    /\ Reads(r, "manifest")
    /\ IF target.sealed
       THEN ReaderMoves(r, [reader[r] EXCEPT !.step = "files", !.manifest = target])
       ELSE Refuses(r)

\* Mutant: the files are there, whatever their digests.
FilesExist(r) == Exists(target)

(* verify_manifest: every file there and none more, by digest.             *)
FilesMatch(r) == Exists(target) /\ target.files = reader[r].manifest.files

CheckFiles(r) ==
    /\ Reads(r, "files")
    /\ IF FilesMatch(r)
       THEN ReaderMoves(r, [reader[r] EXCEPT
                              !.files = target,
                              !.step = IF reader[r].kind = "start" THEN "contract"
                                       ELSE "import"])
       ELSE Refuses(r)

(* verify_deployment: the checkout's contract is the one deployed.         *)
CheckContract(r) ==
    /\ Reads(r, "contract")
    /\ IF reader[r].manifest.contract = checkout
       THEN ReaderMoves(r, [reader[r] EXCEPT !.step = "accepted", !.used = reader[r].files])
       ELSE Refuses(r)

(* _load_containment: from the path, which may name another tree by now.   *)
Import(r) ==
    /\ Reads(r, "import")
    /\ IF Exists(target)
       THEN ReaderMoves(r, [reader[r] EXCEPT !.step = "accepted", !.used = target])
       ELSE Refuses(r)

DoneReading(r) == Reads(r, "accepted") /\ Refuses(r)

-----------------------------------------------------------------------------
Next ==
    \/ Switch
    \/ \E d \in Deployer : \/ Begin(d) \/ CopyFiles(d) \/ Seal(d) \/ Look(d)
                           \/ MoveAside(d) \/ Install(d) \/ Overtaken(d) \/ Fail(d)
    \/ \E r \in Reader : \/ StartReading(r) \/ ReadManifest(r) \/ CheckFiles(r)
                         \/ CheckContract(r) \/ Import(r) \/ DoneReading(r)

Spec == Init /\ [][Next]_vars

(* A deployer goes on, and an operator who finds nothing installed deploys *)
(* again.                                                                  *)
FairSpec ==
    /\ Spec
    /\ \A d \in Deployer :
          /\ WF_vars(Begin(d) /\ ~Exists(target))
          /\ WF_vars(\/ CopyFiles(d) \/ Seal(d) \/ Look(d)
                     \/ MoveAside(d) \/ Install(d) \/ Overtaken(d))

-----------------------------------------------------------------------------
(* Trees, deployers and readers have their types.                          *)
TypeOK ==
    /\ checkout \in Release
    /\ target \in Tree \cup {Nothing}
    /\ previous \subseteq Tree
    /\ deploy \in [Deployer -> Deployers]
    /\ reader \in [Reader -> Readers]
    /\ installed \in BOOLEAN
    /\ failures \in 0..MaxFailures

(* What the path names is nothing, or a tree complete with its manifest    *)
(* and made from one checkout: whatever is killed, fails or overlaps.      *)
TargetIsWhole ==
    Exists(target) => /\ target.sealed
                      /\ target.contract = target.files
                      /\ target.commit = target.files

(* Once there has been a deployment a complete one is at the target or     *)
(* kept beside it, whichever of the two renames a kill fell between.       *)
DeploymentSurvives ==
    installed => \E tree \in previous \cup {target} : tree.sealed

(* A start that has accepted the deployment works with files of the        *)
(* checkout it was started from, though a deployer replaced the tree       *)
(* between its reads.                                                      *)
AcceptedIsCheckout ==
    [][\A r \in Reader : CheckContract(r) /\ reader'[r].step = "accepted"
                            => reader'[r].used.files = checkout]_vars

(* A supervisor never imports a containment that no manifest covers: the   *)
(* tree it is taken from is complete, and it had accepted a tree before.   *)
ImportIsCovered ==
    \A r \in Reader :
        reader[r].step = "accepted" => /\ reader[r].used.sealed
                                       /\ reader[r].files.files = reader[r].manifest.files

(* A kill between the renames leaves nothing at the target; deploying      *)
(* again repairs it.                                                       *)
TargetReturns == []<>Exists(target)
=============================================================================
