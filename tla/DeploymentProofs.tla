-------------------------- MODULE DeploymentProofs --------------------------
(***************************************************************************)
(* Proofs about Deployment, for any number of deployers and readers: what  *)
(* the path names is complete, it is never lost, and whoever accepts a     *)
(* deployment has accepted one made from one checkout.                     *)
(***************************************************************************)
EXTENDS Deployment, TLAPS

(* A tree that is complete with its manifest and made from one checkout.   *)
Whole(tree) ==
    /\ tree \in Tree
    /\ tree.sealed
    /\ tree.contract = tree.files
    /\ tree.commit = tree.files

(* A deployment works from one checkout: the operator does not switch      *)
(* during one.  From the seal on its stage is complete.                    *)
StagesAreWhole ==
    \A d \in Deployer :
       /\ ~DeployAt(d, "idle") => deploy[d].commit = checkout
       /\ DeployAt(d, "seal") => /\ deploy[d].stage \in Tree
                                 /\ deploy[d].stage.files = checkout
                                 /\ deploy[d].stage.commit = checkout
       /\ deploy[d].step \in {"look", "aside", "install"} => Whole(deploy[d].stage)

(* The trees at the path and beside it are whole, and there is one once    *)
(* there has been a deployment.                                            *)
TreesAreWhole ==
    /\ target = Nothing \/ Whole(target)
    /\ \A tree \in previous : Whole(tree)
    /\ installed => target # Nothing \/ previous # {}

(* What a reader goes on with has been checked.                            *)
ReadsAreChecked ==
    \A r \in Reader :
       /\ Reads(r, "files") => Whole(reader[r].manifest)
       /\ reader[r].step \in {"contract", "import"} =>
             /\ Whole(reader[r].manifest)
             /\ Whole(reader[r].files)
             /\ reader[r].files.files = reader[r].manifest.files
       /\ Reads(r, "accepted") =>
             /\ Whole(reader[r].used)
             /\ reader[r].files.files = reader[r].manifest.files

(* The inductive invariant.                                                *)
DeploymentInv == TypeOK /\ StagesAreWhole /\ TreesAreWhole /\ ReadsAreChecked

-----------------------------------------------------------------------------
(* A tree is not nothing.                                                  *)
LEMMA NothingIsNoTree ==
  /\ Nothing \notin Tree
  /\ ~Nothing.sealed
  BY DeploymentAssumption DEF Nothing, Tree

(* What the invariant says of a tree that exists.                          *)
LEMMA ExistingIsWhole ==
  ASSUME TreesAreWhole, Exists(target)
  PROVE  Whole(target)
  BY DEF TreesAreWhole, Exists

(* The trees stay as they are: so do the facts about them.                 *)
LEMMA SameTrees ==
  ASSUME TreesAreWhole, TreesUnchanged
  PROVE  TreesAreWhole'
  BY DEF TreesAreWhole, TreesUnchanged, Whole, Tree, Nothing

(* The readers stay as they are: so do the facts about them.               *)
LEMMA SameReaders ==
  ASSUME ReadsAreChecked, UNCHANGED reader
  PROVE  ReadsAreChecked'
  BY DEF ReadsAreChecked, Reads, Whole, Tree

(* The deployers stay as they are, and the checkout too.                   *)
LEMMA SameDeployers ==
  ASSUME StagesAreWhole, UNCHANGED <<deploy, checkout>>
  PROVE  StagesAreWhole'
  BY DEF StagesAreWhole, DeployAt, Whole, Tree

(* The invariant holds at first.                                           *)
LEMMA InitDeployment == Init => DeploymentInv
<1> SUFFICES ASSUME Init
             PROVE  DeploymentInv
  OBVIOUS
<1>1. TypeOK
  <2>1. NotDeploying \in Deployers
    BY DEF NotDeploying, Deployers
  <2>2. NotReading \in Readers
    BY DEF NotReading, Readers
  <2>3. /\ deploy \in [Deployer -> Deployers]
        /\ reader \in [Reader -> Readers]
    BY <2>1, <2>2 DEF Init
  <2>4. /\ checkout \in Release
        /\ target \in Tree \cup {Nothing}
        /\ previous \subseteq Tree
        /\ failures \in 0..MaxFailures
    BY DeploymentAssumption DEF Init
  <2>5. installed \in BOOLEAN
    BY DEF Init
  <2>q. QED
    BY <2>3, <2>4, <2>5 DEF TypeOK
<1>2. StagesAreWhole
  BY DEF Init, StagesAreWhole, DeployAt, NotDeploying
<1>3. TreesAreWhole
  BY DEF Init, TreesAreWhole
<1>4. ReadsAreChecked
  BY DEF Init, ReadsAreChecked, Reads, NotReading
<1>q. QED
  BY <1>1, <1>2, <1>3, <1>4 DEF DeploymentInv

-----------------------------------------------------------------------------
(* A deployer's record that is replaced by a sound one leaves the facts    *)
(* about deployers true.                                                   *)
LEMMA DeployerMoves ==
  ASSUME TypeOK, StagesAreWhole, NEW d \in Deployer, NEW record \in Deployers,
         deploy' = [deploy EXCEPT ![d] = record], checkout' = checkout,
         record.step # "idle" => record.commit = checkout,
         record.step = "seal" => /\ record.stage \in Tree
                                 /\ record.stage.files = checkout
                                 /\ record.stage.commit = checkout,
         record.step \in {"look", "aside", "install"} => Whole(record.stage)
  PROVE  /\ deploy' \in [Deployer -> Deployers]
         /\ StagesAreWhole'
<1>1. deploy' \in [Deployer -> Deployers]
  BY DEF TypeOK
<1>2. ASSUME NEW e \in Deployer
      PROVE  /\ deploy'[e].step # "idle" => deploy'[e].commit = checkout
             /\ deploy'[e].step = "seal" => /\ deploy'[e].stage \in Tree
                                            /\ deploy'[e].stage.files = checkout
                                            /\ deploy'[e].stage.commit = checkout
             /\ deploy'[e].step \in {"look", "aside", "install"} => Whole(deploy'[e].stage)
  <2>1. CASE e = d
    BY <2>1 DEF TypeOK
  <2>2. CASE e # d
    BY <2>2 DEF TypeOK, StagesAreWhole, DeployAt
  <2>q. QED
    BY <2>1, <2>2
<1>q. QED
  BY <1>1, <1>2 DEF StagesAreWhole, DeployAt, Whole, Tree

(* A deployer that only turns to another of the steps with a whole stage.  *)
LEMMA DeployerGoesOn ==
  ASSUME TypeOK, StagesAreWhole, NEW d \in Deployer, NEW step \in {"look", "aside", "install"},
         deploy[d].step \in {"look", "aside", "install"},
         DeployTo(d, step), checkout' = checkout
  PROVE  /\ deploy' \in [Deployer -> Deployers]
         /\ StagesAreWhole'
<1> DEFINE record == [deploy[d] EXCEPT !.step = step]
<1>1. deploy[d] \in Deployers
  BY DEF TypeOK
<1>2. /\ record \in Deployers
      /\ record.step = step
      /\ record.commit = deploy[d].commit
      /\ record.stage = deploy[d].stage
  BY <1>1 DEF Deployers
<1>3. /\ deploy[d].commit = checkout
      /\ Whole(deploy[d].stage)
  BY DEF StagesAreWhole, DeployAt
<1>4. deploy' = [deploy EXCEPT ![d] = record]
  BY DEF DeployTo
<1>q. QED
  BY <1>2, <1>3, <1>4, DeployerMoves

(* A reader's record that is replaced by a checked one.                    *)
LEMMA ReaderGoesOn ==
  ASSUME DeploymentInv, NEW r \in Reader, NEW record \in Readers, ReaderMoves(r, record),
         record.step = "files" => Whole(record.manifest),
         record.step \in {"contract", "import"} =>
             /\ Whole(record.manifest)
             /\ Whole(record.files)
             /\ record.files.files = record.manifest.files,
         record.step = "accepted" =>
             /\ Whole(record.used)
             /\ record.files.files = record.manifest.files
  PROVE  DeploymentInv'
<1>1. TypeOK'
  BY DEF DeploymentInv, TypeOK, ReaderMoves, TreesUnchanged
<1>2. StagesAreWhole'
  BY SameDeployers DEF DeploymentInv, ReaderMoves, TreesUnchanged
<1>3. TreesAreWhole'
  BY SameTrees DEF DeploymentInv, ReaderMoves
<1>4. ASSUME NEW q \in Reader
      PROVE  /\ reader'[q].step = "files" => Whole(reader'[q].manifest)
             /\ reader'[q].step \in {"contract", "import"} =>
                   /\ Whole(reader'[q].manifest)
                   /\ Whole(reader'[q].files)
                   /\ reader'[q].files.files = reader'[q].manifest.files
             /\ reader'[q].step = "accepted" =>
                   /\ Whole(reader'[q].used)
                   /\ reader'[q].files.files = reader'[q].manifest.files
  <2>1. CASE q = r
    BY <2>1 DEF DeploymentInv, TypeOK, ReaderMoves
  <2>2. CASE q # r
    BY <2>2 DEF DeploymentInv, TypeOK, ReaderMoves, ReadsAreChecked, Reads
  <2>q. QED
    BY <2>1, <2>2
<1>5. ReadsAreChecked'
  BY <1>4 DEF ReadsAreChecked, Reads, Whole, Tree
<1>q. QED
  BY <1>1, <1>2, <1>3, <1>5 DEF DeploymentInv

-----------------------------------------------------------------------------
(* The operator switches only between deployments.                         *)
LEMMA SwitchStep ==
  ASSUME DeploymentInv, Switch
  PROVE  DeploymentInv'
<1>1. TypeOK'
  BY DEF DeploymentInv, TypeOK, Switch
<1>2. StagesAreWhole'
  BY DEF DeploymentInv, StagesAreWhole, Switch, DeployAt
<1>3. TreesAreWhole'
  BY DEF DeploymentInv, TreesAreWhole, Switch, Whole, Tree, Nothing
<1>4. ReadsAreChecked'
  BY SameReaders DEF DeploymentInv, Switch
<1>q. QED
  BY <1>1, <1>2, <1>3, <1>4 DEF DeploymentInv

(* A deployer's own step, that leaves trees and readers alone.             *)
LEMMA DeployerOnly ==
  ASSUME DeploymentInv, NEW d \in Deployer, NEW record \in Deployers,
         deploy' = [deploy EXCEPT ![d] = record], TreesUnchanged, UNCHANGED reader,
         failures' \in 0..MaxFailures,
         record.step # "idle" => record.commit = checkout,
         record.step = "seal" => /\ record.stage \in Tree
                                 /\ record.stage.files = checkout
                                 /\ record.stage.commit = checkout,
         record.step \in {"look", "aside", "install"} => Whole(record.stage)
  PROVE  DeploymentInv'
<1>1. /\ deploy' \in [Deployer -> Deployers]
      /\ StagesAreWhole'
  BY DeployerMoves DEF DeploymentInv, TreesUnchanged
<1>2. TypeOK'
  BY <1>1 DEF DeploymentInv, TypeOK, TreesUnchanged
<1>3. TreesAreWhole'
  BY SameTrees DEF DeploymentInv
<1>4. ReadsAreChecked'
  BY SameReaders DEF DeploymentInv
<1>q. QED
  BY <1>1, <1>2, <1>3, <1>4 DEF DeploymentInv

(* The stage is built ...                                                  *)
LEMMA StagingStep ==
  ASSUME DeploymentInv, NEW d \in Deployer, Begin(d) \/ CopyFiles(d) \/ Seal(d)
  PROVE  DeploymentInv'
<1>0. /\ TypeOK
      /\ deploy[d] \in Deployers
      /\ checkout \in Release
      /\ failures \in 0..MaxFailures
  BY DEF DeploymentInv, TypeOK
<1>1. CASE Begin(d)
  <2> DEFINE record == [deploy[d] EXCEPT !.step = "copy", !.commit = checkout]
  <2>1. /\ record \in Deployers
        /\ record.step = "copy"
        /\ record.commit = checkout
    BY <1>0 DEF Deployers
  <2>2. deploy' = [deploy EXCEPT ![d] = record]
    BY <1>1 DEF Begin
  <2>3. TreesUnchanged /\ UNCHANGED <<reader, failures>>
    BY <1>1 DEF Begin, OnlyDeploys
  <2> HIDE DEF record
  <2>q. QED
    BY <1>0, <2>1, <2>2, <2>3, DeployerOnly
<1>2. CASE CopyFiles(d)
  <2> DEFINE stage == [files |-> checkout, contract |-> NoRelease,
                       commit |-> deploy[d].commit, sealed |-> FALSE]
             record == [deploy[d] EXCEPT !.step = "seal", !.stage = stage]
  <2>1. deploy[d].commit = checkout
    BY <1>2 DEF CopyFiles, DeploymentInv, StagesAreWhole, DeployAt
  <2>2. stage \in Tree
    BY <1>0, <2>1 DEF Tree
  <2>3. /\ stage.files = checkout
        /\ stage.commit = checkout
    BY <2>1
  <2>4. deploy' = [deploy EXCEPT ![d] = record]
    BY <1>2 DEF CopyFiles
  <2> HIDE DEF stage
  <2>5. /\ record \in Deployers
        /\ record.step = "seal"
        /\ record.commit = deploy[d].commit
        /\ record.stage = stage
    BY <1>0, <2>2 DEF Deployers
  <2>6. TreesUnchanged /\ UNCHANGED <<reader, failures>>
    BY <1>2 DEF CopyFiles, OnlyDeploys
  <2> HIDE DEF record
  <2>q. QED
    BY <1>0, <2>1, <2>2, <2>3, <2>4, <2>5, <2>6, DeployerOnly
<1>3. CASE Seal(d)
  <2> DEFINE stage == Sealed(deploy[d].stage, checkout)
             record == [deploy[d] EXCEPT !.step = "look", !.stage = stage]
  <2>1. /\ deploy[d].commit = checkout
        /\ deploy[d].stage \in Tree
        /\ deploy[d].stage.files = checkout
        /\ deploy[d].stage.commit = checkout
    BY <1>3 DEF Seal, DeploymentInv, StagesAreWhole, DeployAt
  <2>2. /\ stage \in Tree
        /\ stage.sealed = TRUE
        /\ stage.contract = checkout
        /\ stage.files = checkout
        /\ stage.commit = checkout
    BY <1>0, <2>1 DEF Tree, Sealed
  <2>3. deploy' = [deploy EXCEPT ![d] = record]
    BY <1>3 DEF Seal
  <2> HIDE DEF stage
  <2>4. Whole(stage)
    BY <2>2 DEF Whole
  <2>5. /\ record \in Deployers
        /\ record.step = "look"
        /\ record.commit = deploy[d].commit
        /\ record.stage = stage
    BY <1>0, <2>2 DEF Deployers
  <2>6. TreesUnchanged /\ UNCHANGED <<reader, failures>>
    BY <1>3 DEF Seal, OnlyDeploys
  <2> HIDE DEF record
  <2>q. QED
    BY <1>0, <2>1, <2>3, <2>4, <2>5, <2>6, DeployerOnly
<1>q. QED
  BY <1>1, <1>2, <1>3

(* ... or given up.                                                        *)
LEMMA RaisingStep ==
  ASSUME DeploymentInv, NEW d \in Deployer, Overtaken(d) \/ Fail(d)
  PROVE  DeploymentInv'
<1>1. /\ NotDeploying \in Deployers
      /\ NotDeploying.step = "idle"
  BY DEF NotDeploying, Deployers
<1>2. Raises(d)
  BY DEF Overtaken, Fail
<1>3. failures' \in 0..MaxFailures
  BY DeploymentAssumption DEF DeploymentInv, TypeOK, Overtaken, Fail
<1>q. QED
  BY <1>1, <1>2, <1>3, DeployerOnly DEF Raises

(* The swap.                                                               *)
LEMMA SwapStep ==
  ASSUME DeploymentInv, NEW d \in Deployer, Look(d) \/ MoveAside(d) \/ Install(d)
  PROVE  DeploymentInv'
<1>0. TypeOK /\ StagesAreWhole /\ TreesAreWhole /\ ReadsAreChecked
  BY DEF DeploymentInv
<1>1. CASE Look(d)
  <2>1. /\ deploy' \in [Deployer -> Deployers]
        /\ StagesAreWhole'
    BY <1>0, <1>1, DeployerGoesOn DEF Look, DeployAt, OnlyDeploys, TreesUnchanged
  <2>2. TypeOK'
    BY <1>0, <1>1, <2>1 DEF Look, OnlyDeploys, TreesUnchanged, TypeOK
  <2>3. TreesAreWhole' /\ ReadsAreChecked'
    BY <1>0, <1>1, SameTrees, SameReaders DEF Look, OnlyDeploys
  <2>q. QED
    BY <2>1, <2>2, <2>3 DEF DeploymentInv
<1>2. CASE MoveAside(d)
  <2>1. /\ deploy' \in [Deployer -> Deployers]
        /\ StagesAreWhole'
    BY <1>0, <1>2, DeployerGoesOn DEF MoveAside, DeployAt
  <2>2. Whole(target) /\ target \in Tree
    BY <1>0, <1>2, ExistingIsWhole DEF MoveAside, Whole
  <2>3. TypeOK'
    BY <1>0, <1>2, <2>1, <2>2 DEF MoveAside, TypeOK
  <2>4. TreesAreWhole'
    <3>1. target' = Nothing /\ previous' = previous \cup {target}
      BY <1>2 DEF MoveAside
    <3>2. \A tree \in previous' : Whole(tree)
      BY <1>0, <2>2, <3>1 DEF TreesAreWhole
    <3>q. QED
      BY <3>1, <3>2 DEF TreesAreWhole, Whole, Tree, Nothing
  <2>5. ReadsAreChecked'
    BY <1>0, <1>2, SameReaders DEF MoveAside
  <2>q. QED
    BY <2>1, <2>3, <2>4, <2>5 DEF DeploymentInv
<1>3. CASE Install(d)
  <2>1. /\ NotDeploying \in Deployers
        /\ NotDeploying.step = "idle"
    BY DEF NotDeploying, Deployers
  <2>2. /\ deploy' \in [Deployer -> Deployers]
        /\ StagesAreWhole'
    BY <1>0, <1>3, <2>1, DeployerMoves DEF Install
  <2>3. Whole(deploy[d].stage)
    BY <1>0, <1>3 DEF Install, StagesAreWhole, DeployAt
  <2>4. TypeOK'
    BY <1>0, <1>3, <2>2, <2>3 DEF Install, TypeOK, Whole
  <2>5. TreesAreWhole'
    <3>1. target' = deploy[d].stage /\ previous' = previous
      BY <1>3 DEF Install
    <3>2. Whole(target') /\ target' # Nothing
      BY <2>3, <3>1, NothingIsNoTree DEF Whole
    <3>q. QED
      BY <1>0, <3>1, <3>2 DEF TreesAreWhole, Whole, Tree, Nothing
  <2>6. ReadsAreChecked'
    BY <1>0, <1>3, SameReaders DEF Install
  <2>q. QED
    BY <2>2, <2>4, <2>5, <2>6 DEF DeploymentInv
<1>q. QED
  BY <1>1, <1>2, <1>3

(* The readers.                                                            *)
LEMMA ReaderStep ==
  ASSUME DeploymentInv, NEW r \in Reader,
         \/ StartReading(r) \/ ReadManifest(r) \/ CheckFiles(r)
         \/ CheckContract(r) \/ Import(r) \/ DoneReading(r)
  PROVE  DeploymentInv'
<1>0. /\ TreesAreWhole /\ ReadsAreChecked
      /\ reader[r] \in Readers
      /\ target \in Tree \cup {Nothing}
  BY DEF DeploymentInv, TypeOK
<1>1. ASSUME Refuses(r)
      PROVE  DeploymentInv'
  <2>1. /\ NotReading \in Readers
        /\ NotReading.step = "idle"
    BY DEF NotReading, Readers
  <2>q. QED
    BY <1>1, <2>1, ReaderGoesOn DEF Refuses
<1>2. CASE StartReading(r)
  <2>1. PICK kind \in {"start", "supervisor"} :
           ReaderMoves(r, [reader[r] EXCEPT !.kind = kind, !.step = "manifest"])
    BY <1>2 DEF StartReading
  <2> DEFINE record == [reader[r] EXCEPT !.kind = kind, !.step = "manifest"]
  <2>2. record \in Readers /\ record.step = "manifest"
    BY <1>0 DEF Readers
  <2> HIDE DEF record
  <2>q. QED
    BY <2>1, <2>2, ReaderGoesOn DEF record
<1>3. CASE ReadManifest(r) /\ ~Refuses(r)
  <2> DEFINE record == [reader[r] EXCEPT !.step = "files", !.manifest = target]
  <2>1. ReaderMoves(r, record) /\ target.sealed
    BY <1>3 DEF ReadManifest
  <2>2. Whole(target)
    BY <1>0, <2>1, NothingIsNoTree DEF TreesAreWhole
  <2>3. /\ record \in Readers
        /\ record.step = "files"
        /\ record.manifest = target
    BY <1>0 DEF Readers
  <2> HIDE DEF record
  <2>q. QED
    BY <2>1, <2>2, <2>3, ReaderGoesOn
<1>4. CASE CheckFiles(r) /\ ~Refuses(r)
  <2> DEFINE step == IF reader[r].kind = "start" THEN "contract" ELSE "import"
             record == [reader[r] EXCEPT !.files = target, !.step = step]
  <2>1. /\ ReaderMoves(r, record)
        /\ Exists(target)
        /\ target.files = reader[r].manifest.files
    BY <1>4 DEF CheckFiles, FilesMatch
  <2>2. Whole(target) /\ Whole(reader[r].manifest)
    BY <1>0, <1>4, <2>1, ExistingIsWhole DEF CheckFiles, ReadsAreChecked
  <2>3. step \in {"contract", "import"}
    OBVIOUS
  <2> HIDE DEF step
  <2>4. /\ record \in Readers
        /\ record.step = step
        /\ record.manifest = reader[r].manifest
        /\ record.files = target
    BY <1>0, <2>3 DEF Readers
  <2> HIDE DEF record
  <2>q. QED
    BY <2>1, <2>2, <2>3, <2>4, ReaderGoesOn
<1>5. CASE CheckContract(r) /\ ~Refuses(r)
  <2> DEFINE record == [reader[r] EXCEPT !.step = "accepted", !.used = reader[r].files]
  <2>1. ReaderMoves(r, record)
    BY <1>5 DEF CheckContract
  <2>2. /\ Whole(reader[r].files)
        /\ reader[r].files.files = reader[r].manifest.files
    BY <1>0, <1>5 DEF CheckContract, ReadsAreChecked, Reads
  <2>3. /\ record \in Readers
        /\ record.step = "accepted"
        /\ record.used = reader[r].files
        /\ record.files = reader[r].files
        /\ record.manifest = reader[r].manifest
    BY <1>0 DEF Readers
  <2> HIDE DEF record
  <2>q. QED
    BY <2>1, <2>2, <2>3, ReaderGoesOn
<1>6. CASE Import(r) /\ ~Refuses(r)
  <2> DEFINE record == [reader[r] EXCEPT !.step = "accepted", !.used = target]
  <2>1. ReaderMoves(r, record) /\ Exists(target)
    BY <1>6 DEF Import
  <2>2. /\ Whole(target)
        /\ reader[r].files.files = reader[r].manifest.files
    BY <1>0, <1>6, <2>1, ExistingIsWhole DEF Import, ReadsAreChecked, Reads
  <2>3. /\ record \in Readers
        /\ record.step = "accepted"
        /\ record.used = target
        /\ record.files = reader[r].files
        /\ record.manifest = reader[r].manifest
    BY <1>0 DEF Readers
  <2> HIDE DEF record
  <2>q. QED
    BY <2>1, <2>2, <2>3, ReaderGoesOn
<1>7. CASE DoneReading(r)
  BY <1>1, <1>7 DEF DoneReading
<1>q. QED
  BY <1>1, <1>2, <1>3, <1>4, <1>5, <1>6, <1>7

-----------------------------------------------------------------------------
(* Every step keeps the invariant.                                         *)
LEMMA NextDeployment == DeploymentInv /\ [Next]_vars => DeploymentInv'
<1> SUFFICES ASSUME DeploymentInv, [Next]_vars
             PROVE  DeploymentInv'
  OBVIOUS
<1>1. CASE Next
  BY <1>1, SwitchStep, StagingStep, SwapStep, RaisingStep, ReaderStep DEF Next
<1>2. CASE UNCHANGED vars
  <2>1. TypeOK'
    BY <1>2 DEF DeploymentInv, TypeOK, vars
  <2>2. StagesAreWhole' /\ TreesAreWhole' /\ ReadsAreChecked'
    BY <1>2, SameDeployers, SameTrees, SameReaders DEF DeploymentInv, vars, TreesUnchanged
  <2>q. QED
    BY <2>1, <2>2 DEF DeploymentInv
<1>q. QED
  BY <1>1, <1>2

(* The inductive invariant is one.                                         *)
THEOREM DeploymentInvariant == Spec => []DeploymentInv
<1>1. QED
  BY InitDeployment, NextDeployment, PTL DEF Spec

(* Trees, deployers and readers keep their types.                          *)
THEOREM DeploymentTypes == Spec => []TypeOK
<1>1. DeploymentInv => TypeOK
  BY DEF DeploymentInv
<1>q. QED
  BY <1>1, DeploymentInvariant, PTL

(* os.replace of a sealed stage: whatever is killed, fails or overlaps,    *)
(* nobody ever finds a partial installation or one of two checkouts.       *)
THEOREM TargetStaysWhole == Spec => []TargetIsWhole
<1>1. DeploymentInv => TargetIsWhole
  BY ExistingIsWhole DEF DeploymentInv, TargetIsWhole, Whole
<1>q. QED
  BY <1>1, DeploymentInvariant, PTL

(* The tree that a deployment replaces is kept until the next is in place, *)
(* so no kill between the renames loses both.                              *)
THEOREM DeploymentIsNotLost == Spec => []DeploymentSurvives
<1>1. DeploymentInv => DeploymentSurvives
  BY DEF DeploymentInv, TreesAreWhole, DeploymentSurvives, Whole
<1>q. QED
  BY <1>1, DeploymentInvariant, PTL

(* A supervisor imports from a complete tree, after a tree was accepted.   *)
THEOREM ImportsAreCovered == Spec => []ImportIsCovered
<1>1. DeploymentInv => ImportIsCovered
  BY DEF DeploymentInv, ReadsAreChecked, ImportIsCovered, Whole, Reads
<1>q. QED
  BY <1>1, DeploymentInvariant, PTL

(* A start that accepts a deployment was started from the checkout that    *)
(* its files were made from, whatever was swapped between its reads.       *)
THEOREM AcceptedAreOfCheckout == Spec => AcceptedIsCheckout
<1>1. ASSUME DeploymentInv, NEW r \in Reader, CheckContract(r),
             reader'[r].step = "accepted"
      PROVE  reader'[r].used.files = checkout
  <2> DEFINE record == [reader[r] EXCEPT !.step = "accepted", !.used = reader[r].files]
  <2>0. reader \in [Reader -> Readers] /\ reader[r] \in Readers
    BY <1>1 DEF DeploymentInv, TypeOK
  <2>1. CASE reader[r].manifest.contract = checkout
    <3>1. reader' = [reader EXCEPT ![r] = record]
      BY <1>1, <2>1 DEF CheckContract, ReaderMoves
    <3>2. record.used = reader[r].files
      BY <2>0 DEF Readers
    <3> HIDE DEF record
    <3>3. reader'[r].used = reader[r].files
      BY <2>0, <3>1, <3>2
    <3>4. /\ Whole(reader[r].manifest)
          /\ reader[r].files.files = reader[r].manifest.files
      BY <1>1 DEF CheckContract, DeploymentInv, ReadsAreChecked, Reads
    <3>q. QED
      BY <2>1, <3>3, <3>4 DEF Whole
  <2>2. CASE reader[r].manifest.contract # checkout
    <3>1. reader'[r] = NotReading
      BY <1>1, <2>0, <2>2 DEF CheckContract, Refuses, ReaderMoves
    <3>q. QED
      BY <1>1, <3>1 DEF NotReading
  <2>q. QED
    BY <2>1, <2>2
<1>2. DeploymentInv /\ [Next]_vars =>
        [\A r \in Reader : CheckContract(r) /\ reader'[r].step = "accepted"
                             => reader'[r].used.files = checkout]_vars
  BY <1>1
<1>q. QED
  BY <1>2, DeploymentInvariant, PTL DEF Spec, AcceptedIsCheckout
=============================================================================
