--------------------------- MODULE ContractProofs ---------------------------
(***************************************************************************)
(* Lifecycle implements TaskContract, for every value of its constants.    *)
(***************************************************************************)
EXTENDS LifecycleProofs

(* The evidence of the refinement mapping. *)
GivenEvidence == {type \in AcceptanceType : CurrentAcceptance(type, SelectedHead)}

(* Acceptances belong to the past: none counts from a head yet to come.    *)
AcceptancesPast == \A a \in acceptances : a.changes <= changes

ContractInv == Inv /\ AcceptancesPast

(* An accepted or blocked result adds at most one acceptance of now.       *)
LEMMA NextAcceptancesPast ==
  ASSUME ContractInv, [Next]_vars
  PROVE  AcceptancesPast'
<1> USE DEF AcceptancesPast
<1>1. CASE ~ \E p \in Process : Reconcile(p)
  BY <1>1, EvidenceRowsStay DEF ContractInv
<1>2. ASSUME NEW p \in Process, Reconcile(p) PROVE AcceptancesPast'
  <2>1. changes \in Nat /\ \A a \in acceptances : a.changes \in Nat
    BY DEF ContractInv, Inv, TypeOK, Acceptance
  <2>2. CASE UNCHANGED <<changes, acceptances>>
    BY <2>2 DEF ContractInv
  <2>3. ASSUME NEW head, MoveHead(head), UNCHANGED acceptances
        PROVE  AcceptancesPast'
    BY <2>1, <2>3 DEF ContractInv, MoveHead
  <2>4. ASSUME NEW type, NEW head, Accept(type, head), UNCHANGED changes
        PROVE  AcceptancesPast'
    BY <2>1, <2>4 DEF ContractInv, Accept
  <2>q. QED
    BY <1>2, <2>2, <2>3, <2>4
    DEF Reconcile, PlanningComplete, ImplementationComplete, ReviewApproved,
        AdversaryPass, ValidationPass, ArchiveComplete, CorrectionRequired,
        CorrectionComplete, BlockedReadOnly, BlockedImplementer, taskRow
<1>q. QED
  BY <1>1, <1>2

LEMMA ContractInvariance == Spec => []ContractInv
<1>1. Init => ContractInv
  BY InitInv DEF ContractInv, Init, AcceptancesPast
<1>2. ContractInv /\ [Next]_vars => ContractInv'
  BY NextInv, NextAcceptancesPast DEF ContractInv
<1>q. QED
  BY <1>1, <1>2, PTL DEF Spec

(* A new HEAD leaves no evidence behind.                                   *)
LEMMA MoveHeadClears ==
  ASSUME ContractInv, NEW p \in Process, Reconcilable(p), ~HeadUnmoved(p),
         MoveHead(process[p].head), UNCHANGED acceptances
  PROVE  SelectedHead' # SelectedHead /\ GivenEvidence' = {}
<1>1. process[p].head \in Commit /\ process[p].head # SelectedHead
  BY DEF ContractInv, Inv, GitTruthIsCommit, Reconcilable, HeadUnmoved
<1>2. currentHead' = process[p].head /\ changes' = changes + 1
  BY <1>1 DEF MoveHead
<1>3. SelectedHead' = process[p].head
  BY <1>1, <1>2, LifecycleAssumption DEF SelectedHead
<1>4. changes \in Nat /\ \A a \in acceptances : a.changes # changes + 1
  BY DEF ContractInv, AcceptancesPast, Inv, TypeOK, Acceptance
<1>5. \A type, head : ~CurrentAcceptance(type, head)'
  BY <1>2, <1>4 DEF CurrentAcceptance
<1>q. QED
  BY <1>1, <1>3, <1>5 DEF GivenEvidence

(* An acceptance of the selected HEAD is one more piece of evidence.       *)
LEMMA AcceptAdds ==
  ASSUME NEW p \in Process, HeadUnmoved(p), NEW type \in AcceptanceType,
         Accept(type, process[p].head), UNCHANGED <<currentHead, changes>>
  PROVE  GivenEvidence' = GivenEvidence \cup {type}
<1>1. UNCHANGED SelectedHead
  BY DEF SelectedHead
<1>2. \A t \in AcceptanceType :
         CurrentAcceptance(t, SelectedHead)' <=>
            CurrentAcceptance(t, SelectedHead) \/ t = type
  BY <1>1 DEF CurrentAcceptance, Accept, HeadUnmoved
<1>q. QED
  BY <1>2 DEF GivenEvidence

(* The rows that a reader of the contract sees stay as they are.           *)
LEMMA ContractRowsStay ==
  ASSUME UNCHANGED <<state, currentHead, changes, acceptances, finding>>
  PROVE  UNCHANGED <<state, SelectedHead, GivenEvidence, Licensed>>
  BY DEF SelectedHead, GivenEvidence, CurrentAcceptance, Licensed

(* An accepted or blocked result is a step of the contract.                *)
LEMMA ReconcileImplements ==
  ASSUME ContractInv, NEW p \in Process, Reconcile(p)
  PROVE  Contract!Next
<1>1. /\ started # {}
      /\ started' = {}
      /\ Reconcilable(p)
  BY ReconcileEnds
  DEF ContractInv, Inv, Reconcile, Reconcilable, PlanningComplete, ImplementationComplete,
      ReviewApproved, AdversaryPass, ValidationPass, ArchiveComplete,
      CorrectionRequired, CorrectionComplete, BlockedReadOnly, BlockedImplementer
<1>2. Contract!End
  BY <1>1 DEF Contract!End
<1> USE DEF Contract!Next
<1>3. CASE PlanningComplete(p)
  <2>1. UNCHANGED <<SelectedHead, GivenEvidence, Licensed>>
    BY <1>3 DEF PlanningComplete, roleRows, SelectedHead, GivenEvidence, CurrentAcceptance, Licensed
  <2>q. QED
    BY <1>2, <1>3, <2>1 DEF PlanningComplete, Contract!Plan, GivenEvidence
<1>4. CASE ImplementationComplete(p)
  <2>1. SelectedHead' # SelectedHead /\ GivenEvidence' = {}
    BY <1>1, <1>4, MoveHeadClears DEF ImplementationComplete
  <2>2. Contract!NewHead /\ UNCHANGED Licensed
    BY <1>4, <2>1 DEF ImplementationComplete, Contract!NewHead, GivenEvidence, Licensed
  <2>q. QED
    BY <1>2, <1>4, <2>2 DEF ImplementationComplete, Contract!Implement
<1>5. CASE ReviewApproved(p)
  <2>1. UNCHANGED <<SelectedHead, Licensed>>
    BY <1>5 DEF ReviewApproved, roleRows, SelectedHead, Licensed
  <2>2. Licensed = {}
    BY <1>5 DEF ReviewApproved, Correcting, CorrectionStates
  <2>3. GivenEvidence' = GivenEvidence \cup {"review_accepted"}
    BY <1>5, AcceptAdds DEF ReviewApproved, AcceptanceType
  <2>4. {} \subseteq GivenEvidence
    BY <1>5 DEF ReviewApproved, GivenEvidence, AcceptanceType, HeadUnmoved
  <2>q. QED
    BY <1>2, <1>5, <2>1, <2>2, <2>3, <2>4
    DEF ReviewApproved, Contract!Review, Contract!Advance, GivenEvidence
<1>6. CASE AdversaryPass(p)
  <2>1. UNCHANGED <<SelectedHead, Licensed>>
    BY <1>6 DEF AdversaryPass, roleRows, SelectedHead, Licensed
  <2>2. Licensed = {}
    BY <1>6 DEF AdversaryPass, Correcting, CorrectionStates
  <2>3. GivenEvidence' = GivenEvidence \cup {"adversary_accepted"}
    BY <1>6, AcceptAdds DEF AdversaryPass, AcceptanceType
  <2>4. {"review_accepted"} \subseteq GivenEvidence
    BY <1>6 DEF AdversaryPass, GivenEvidence, AcceptanceType, HeadUnmoved
  <2>q. QED
    BY <1>2, <1>6, <2>1, <2>2, <2>3, <2>4
    DEF AdversaryPass, Contract!Attack, Contract!Advance, GivenEvidence
<1>7. CASE ValidationPass(p)
  <2>1. UNCHANGED <<SelectedHead, Licensed>>
    BY <1>7 DEF ValidationPass, roleRows, SelectedHead, Licensed
  <2>2. Licensed = {}
    BY <1>7 DEF ValidationPass, Correcting, CorrectionStates
  <2>3. GivenEvidence' = GivenEvidence \cup {"validation_passed"}
    BY <1>7, AcceptAdds DEF ValidationPass, AcceptanceType
  <2>4. {"review_accepted", "adversary_accepted"} \subseteq GivenEvidence
    BY <1>7 DEF ValidationPass, GivenEvidence, AcceptanceType, HeadUnmoved
  <2>q. QED
    BY <1>2, <1>7, <2>1, <2>2, <2>3, <2>4
    DEF ValidationPass, Contract!Validate, Contract!Advance, GivenEvidence
<1>8. CASE ArchiveComplete(p)
  <2>1. UNCHANGED <<SelectedHead, GivenEvidence, Licensed>>
    BY <1>8 DEF ArchiveComplete, SelectedHead, GivenEvidence, CurrentAcceptance, Licensed
  <2>2. state = "FINAL_MECHANICAL_ACCEPTANCE" /\ Licensed = {}
    BY <1>8 DEF ArchiveComplete, ContractInv, Inv, CloseoutComplete, CorrectionStates
  <2>3. GivenEvidence = {"review_accepted", "adversary_accepted", "validation_passed"}
    BY <2>2, EvidenceOf
    DEF ContractInv, Inv, ExactHeadEvidence, GivenEvidence, AcceptanceType
  <2>q. QED
    BY <1>2, <1>8, <2>1, <2>2, <2>3
    DEF ArchiveComplete, Contract!Close, Contract!Advance, GivenEvidence
<1>9. CASE CorrectionRequired(p)
  <2>1. UNCHANGED <<state, SelectedHead, GivenEvidence>>
    BY <1>9 DEF CorrectionRequired, taskRow, SelectedHead, GivenEvidence, CurrentAcceptance
  <2>2. Licensed = {} /\ Licensed' # {}
    BY <1>9 DEF CorrectionRequired, Correcting, Licensed
  <2>q. QED
    BY <1>2, <1>9, <2>1, <2>2
    DEF CorrectionRequired, CorrectionStates, Contract!Owe, GivenEvidence
<1>10. CASE CorrectionComplete(p)
  <2>1. SelectedHead' # SelectedHead /\ GivenEvidence' = {}
    BY <1>1, <1>10, MoveHeadClears DEF CorrectionComplete
  <2>2. Licensed # {} /\ Licensed' = {}
    BY <1>10 DEF CorrectionComplete, Correcting, Licensed
  <2>q. QED
    BY <1>2, <1>10, <2>1, <2>2
    DEF CorrectionComplete, Corrected, Contract!Correct, Contract!NewHead, GivenEvidence
<1>11. CASE BlockedReadOnly(p)
  <2>1. UNCHANGED <<state, SelectedHead, GivenEvidence, Licensed>>
    BY <1>11 DEF BlockedReadOnly, taskRow, SelectedHead, GivenEvidence, CurrentAcceptance, Licensed
  <2>q. QED
    BY <1>2, <2>1 DEF Contract!GiveUp, GivenEvidence
<1>12. CASE BlockedImplementer(p)
  <2>1. /\ state' = state
        /\ state = "PLANNED" \/ Licensed # {}
        /\ MoveHead(process[p].head) /\ UNCHANGED acceptances
    BY <1>12 DEF BlockedImplementer, Correcting
  <2>2. Licensed' = Licensed
    BY <1>12 DEF BlockedImplementer, Licensed, ContractInv, Inv, TypeOK
  <2>3. CASE HeadUnmoved(p)
    <3>1. UNCHANGED <<SelectedHead, GivenEvidence>>
      BY <2>1, <2>3 DEF HeadUnmoved, MoveHead, SelectedHead, GivenEvidence, CurrentAcceptance
    <3>q. QED
      BY <1>2, <2>1, <2>2, <3>1 DEF Contract!GiveUp, GivenEvidence
  <2>4. CASE ~HeadUnmoved(p)
    <3>1. SelectedHead' # SelectedHead /\ GivenEvidence' = {}
      BY <1>1, <2>1, <2>4, MoveHeadClears
    <3>q. QED
      BY <1>2, <2>1, <2>2, <3>1 DEF Contract!PartialCommit, Contract!NewHead, GivenEvidence
  <2>q. QED
    BY <2>3, <2>4
<1>q. QED
  BY <1>3, <1>4, <1>5, <1>6, <1>7, <1>8, <1>9, <1>10, <1>11, <1>12 DEF Reconcile

(* Every step of the lifecycle is a step of the contract or invisible.     *)
LEMMA NextImplements ==
  ASSUME ContractInv, [Next]_vars
  PROVE  [Contract!Next]_(Contract!contractVars)
<1> USE DEF Contract!Next, Contract!contractVars
<1>1. CASE QueueTask
  <2>1. UNCHANGED <<SelectedHead, GivenEvidence, Licensed, started>>
    BY <1>1 DEF QueueTask, roleRows, SelectedHead, GivenEvidence, CurrentAcceptance, Licensed
  <2>q. QED
    BY <1>1, <2>1 DEF QueueTask, Contract!Activate, GivenEvidence
<1>2. ASSUME NEW p \in Process, AllocateAttempt(p)
      PROVE  Contract!Next
  <2>1. UNCHANGED <<state, SelectedHead, GivenEvidence, Licensed>>
    BY <1>2, ContractRowsStay DEF AllocateAttempt, taskRow, roleRows
  <2>2. started = {} /\ started' # {} /\ state \in ActiveStates
    BY <1>2 DEF AllocateAttempt, MayAllocate
  <2>q. QED
    BY <2>1, <2>2 DEF Contract!Start, GivenEvidence, ActiveStates
<1>3. ASSUME NEW p \in Process, Reconcile(p)
      PROVE  Contract!Next
  BY <1>3, ReconcileImplements
<1>4. CASE Quiet
  <2>1. UNCHANGED <<state, SelectedHead, GivenEvidence, Licensed>>
    BY <1>4, ContractRowsStay DEF Quiet
  <2>2. started # {} \/ (started = {} /\ started' = {})
    BY <1>4 DEF Quiet
  <2>q. QED
    BY <2>1, <2>2 DEF Contract!GiveUp, Contract!End, GivenEvidence
<1>5. CASE PublicationFinalized
  <2>1. UNCHANGED <<SelectedHead, GivenEvidence, Licensed, started>>
    BY <1>5 DEF PublicationFinalized, roleRows, attemptRows, SelectedHead, GivenEvidence,
                CurrentAcceptance, Licensed
  <2>2. state = "ARCHIVIST" /\ Licensed = {} /\ started = {}
    BY <1>5 DEF PublicationFinalized, ContractInv, Inv, CloseoutComplete, CorrectionStates,
                PublishingStates
  <2>3. GivenEvidence = {"review_accepted", "adversary_accepted", "validation_passed"}
    BY <2>2, EvidenceOf
    DEF ContractInv, Inv, ExactHeadEvidence, GivenEvidence, AcceptanceType
  <2>q. QED
    BY <1>5, <2>1, <2>2, <2>3 DEF PublicationFinalized, Contract!Release, GivenEvidence
<1>q. QED
  BY <1>1, <1>2, <1>3, <1>4, <1>5, StepCases DEF ContractInv, Inv

(* However hooks, commands, agents and crashes interleave, a reader of the *)
(* task's row sees a behaviour of the contract.                            *)
THEOREM ContractImplemented == Spec => ImplementsContract
<1>1. Init => Contract!Init
  BY DEF Init, Contract!Init, SelectedHead, Licensed, CurrentAcceptance
<1>2. ContractInv /\ [Next]_vars => [Contract!Next]_(Contract!contractVars)
  BY NextImplements
<1>q. QED
  BY <1>1, <1>2, ContractInvariance, PTL DEF Spec, ImplementsContract, Contract!Spec
=============================================================================
