-------------------------- MODULE PublicationProofs --------------------------
(***************************************************************************)
(* Proofs about Publication, for any number of publishers, blockers and    *)
(* late hooks, and whatever other people do: rows and remote objects agree *)
(* and no second pull request is opened.                                   *)
(***************************************************************************)
EXTENDS Publication, TLAPS

(* The steps on a task found eligible, those between start_publication and *)
(* finalize_publication, and those that work with a pull request.          *)
StartedStep == {"snapshot", "push", "lease", "list", "create", "confirm",
                "remote", "reread", "second", "finalize"}
AdmittedStep == {"preflight", "start"} \cup StartedStep
PullStep == {"confirm", "remote", "reread", "second", "finalize"}

(* The lock: one publisher at most is under way.                           *)
LockHeld == \A p, q \in Publisher : p # q => At(p, "idle") \/ At(q, "idle")

NoneIsOurs == \A n \in DOMAIN pulls : ~pulls[n].ours

(* What a publisher may rely on at its step.                               *)
Sound(record) ==
    /\ record.step \in AdmittedStep => phase = "ARCHIVIST"
    /\ record.step \in StartedStep => intent.status = "started"
    /\ record.step = "create" => NoneIsOurs
    /\ ~disturbed /\ record.step = "create" => pulls = <<>>
    /\ ~disturbed /\ record.step \in PullStep => record.pull = 1 /\ Len(pulls) = 1
PublishersAreSound == \A p \in Publisher : Sound(publisher[p])

(* No intent is written before closeout. *)
NothingIsEarly == phase \in EarlierState => intent.status = "none"

(* As long as nobody else acts, the branch and the pull request are ours,  *)
(* and as they were made.                                                  *)
UndisturbedIsOurs ==
    ~disturbed =>
        /\ branch \in {"absent", "ours"}
        /\ Len(pulls) <= 1
        /\ Len(pulls) = 1 => /\ branch = "ours"
                             /\ pulls[1].open /\ pulls[1].draft /\ pulls[1].right
        /\ phase = "READY_FOR_HUMAN_MERGE" => intent.pull = 1 /\ Len(pulls) = 1

(* The inductive invariant.                                                *)
PublicationInv ==
    /\ TypeOK /\ LockHeld /\ PublishersAreSound /\ RowsAgree
    /\ IntentCoversEffects /\ OnePullRequest /\ UndisturbedIsOurs /\ NothingIsEarly

-----------------------------------------------------------------------------
(* A publisher that is not under way relies on nothing.                    *)
LEMMA IdleIsSound ==
  /\ Idle \in PublisherRecord
  /\ Idle.step = "idle"
  /\ \A record : record.step = "idle" => Sound(record)
  BY PublicationAssumption
     DEF Idle, PublisherRecord, Step, CallStep, Fingerprint, Sound, AdmittedStep,
         StartedStep, PullStep

(* The step of a publisher that holds the lock, or takes it.               *)
LEMMA PublisherSteps ==
  ASSUME TypeOK, LockHeld, NEW p \in Publisher, NEW record \in PublisherRecord,
         ~At(p, "idle") \/ LockFree(p), publisher' = [publisher EXCEPT ![p] = record],
         Sound(record)'
  PROVE  /\ publisher' \in [Publisher -> PublisherRecord]
         /\ LockHeld'
         /\ PublishersAreSound'
<1>0. /\ publisher'[p] = record
      /\ \A q \in Publisher \ {p} : publisher'[q] = publisher[q]
      /\ publisher' \in [Publisher -> PublisherRecord]
  BY DEF TypeOK
<1>1. \A q \in Publisher \ {p} : publisher'[q].step = "idle"
  BY <1>0 DEF LockHeld, LockFree, At
<1>2. LockHeld'
  BY <1>1 DEF LockHeld, At
<1>3. ASSUME NEW q \in Publisher
      PROVE  Sound(publisher[q])'
  <2>1. CASE q = p
    BY <1>0, <2>1
  <2>2. CASE q # p
    BY <1>1, <2>2 DEF Sound, AdmittedStep, StartedStep, PullStep
  <2>q. QED
    BY <2>1, <2>2
<1>q. QED
  BY <1>0, <1>2, <1>3 DEF PublishersAreSound

(* A step that changes neither rows nor GitHub.                            *)
LEMMA QuietSteps ==
  ASSUME PublicationInv, NEW p \in Publisher, NEW record \in PublisherRecord,
         ~At(p, "idle") \/ LockFree(p), publisher' = [publisher EXCEPT ![p] = record],
         UNCHANGED <<rows, github>>, Sound(record)
  PROVE  PublicationInv'
<1>1. Sound(record)'
  BY DEF Sound, NoneIsOurs, rows, github
<1>2. /\ publisher' \in [Publisher -> PublisherRecord]
      /\ LockHeld' /\ PublishersAreSound'
  BY <1>1, PublisherSteps DEF PublicationInv
<1>3. TypeOK'
  BY <1>2 DEF PublicationInv, TypeOK, rows, github
<1>4. /\ RowsAgree' /\ IntentCoversEffects' /\ OnePullRequest' /\ UndisturbedIsOurs'
      /\ NothingIsEarly'
  BY DEF PublicationInv, RowsAgree, IntentCoversEffects, OnePullRequest,
         UndisturbedIsOurs, NothingIsEarly, rows, github
<1>q. QED
  BY <1>2, <1>3, <1>4 DEF PublicationInv

(* A publisher that leaves.                                                *)
LEMMA ExitQuietly ==
  ASSUME PublicationInv, NEW p \in Publisher, ~At(p, "idle"), Exit(p),
         UNCHANGED <<rows, github>>
  PROVE  PublicationInv'
  BY IdleIsSound, QuietSteps DEF Exit

(* What a publisher's record becomes.                                      *)
LEMMA RecordTypes ==
  ASSUME TypeOK, NEW p \in Publisher, NEW step \in Step
  PROVE  /\ [publisher[p] EXCEPT !.step = step] \in PublisherRecord
         /\ [publisher[p] EXCEPT !.step = step].step = step
         /\ [publisher[p] EXCEPT !.step = step].pull = publisher[p].pull
         /\ publisher[p].pull \in 0..MaxPulls
  BY DEF TypeOK, PublisherRecord

(* A publisher that goes on from a step to another of the same demands, or *)
(* fewer.                                                                  *)
LEMMA GoesOn ==
  ASSUME PublicationInv, NEW p \in Publisher, NEW step \in Step \ {"create"},
         Goto(p, step), UNCHANGED <<rows, github>>,
         ~At(p, "idle") \/ LockFree(p),
         step \in AdmittedStep => publisher[p].step \in AdmittedStep \/ phase = "ARCHIVIST",
         step \in StartedStep => publisher[p].step \in StartedStep,
         step \in PullStep => publisher[p].step \in PullStep
  PROVE  PublicationInv'
<1> DEFINE record == [publisher[p] EXCEPT !.step = step]
<1>1. /\ record \in PublisherRecord
      /\ record.step = step /\ record.pull = publisher[p].pull
  BY RecordTypes DEF PublicationInv
<1>2. publisher' = [publisher EXCEPT ![p] = record]
  BY DEF Goto
<1>3. Sound(publisher[p])
  BY DEF PublicationInv, PublishersAreSound
<1> HIDE DEF record
<1>4. Sound(record)
  BY <1>1, <1>3 DEF Sound, AdmittedStep, StartedStep, PullStep
<1>q. QED
  BY <1>1, <1>2, <1>4, QuietSteps

(* A failure that knows no pull request.                                   *)
LEMMA FailsUnconfirmed ==
  ASSUME TypeOK, NEW p \in Publisher, FailUnconfirmed(p)
  PROVE  \E record \in PublisherRecord :
            /\ record.step = "failing"
            /\ publisher' = [publisher EXCEPT ![p] = record]
<1> DEFINE record == [publisher[p] EXCEPT !.step = "failing", !.pull = 0]
<1>1. publisher[p] \in PublisherRecord
  BY DEF TypeOK
<1>2. "failing" \in Step /\ 0 \in 0..MaxPulls
  BY PublicationAssumption DEF Step
<1>3. record \in PublisherRecord /\ record.step = "failing"
  BY <1>1, <1>2 DEF PublisherRecord
<1>4. publisher' = [publisher EXCEPT ![p] = record]
  BY DEF FailUnconfirmed
<1> HIDE DEF record
<1>q. QED
  BY <1>3, <1>4

(* Failing demands nothing.                                                *)
LEMMA FailsQuietly ==
  ASSUME PublicationInv, NEW p \in Publisher, ~At(p, "idle"), FailUnconfirmed(p),
         UNCHANGED <<rows, github>>
  PROVE  PublicationInv'
<1>1. PICK record \in PublisherRecord :
         /\ record.step = "failing"
         /\ publisher' = [publisher EXCEPT ![p] = record]
  BY FailsUnconfirmed DEF PublicationInv
<1>2. Sound(record)
  BY <1>1 DEF Sound, AdmittedStep, StartedStep, PullStep
<1>q. QED
  BY <1>1, <1>2, QuietSteps

-----------------------------------------------------------------------------
(* Steps that change neither rows nor GitHub, one lemma for each part of a *)
(* publication.                                                            *)
LEMMA StepsBeforeTheIntent ==
  ASSUME PublicationInv, NEW p \in Publisher,
         Begin(p) \/ Refuse(p) \/ Admit(p) \/ Preflight(p) \/ Crash(p)
  PROVE  PublicationInv'
<1>1. CASE Begin(p)
  BY <1>1, GoesOn DEF Begin, Step, AdmittedStep, StartedStep, PullStep
<1>2. CASE Refuse(p)
  BY <1>2, ExitQuietly DEF Refuse, At
<1>3. CASE Admit(p)
  BY <1>3, GoesOn DEF Admit, Eligible, At, Step, AdmittedStep, StartedStep, PullStep
<1>4. CASE Preflight(p)
  <2> DEFINE record == [publisher[p] EXCEPT !.step = "start", !.allow = PriorAttempt]
  <2>1. publisher[p] \in PublisherRecord /\ "start" \in Step /\ PriorAttempt \in BOOLEAN
    BY DEF PublicationInv, TypeOK, Step, PriorAttempt
  <2>2. record \in PublisherRecord /\ record.step = "start"
    BY <2>1 DEF PublisherRecord
  <2>3. publisher' = [publisher EXCEPT ![p] = record] /\ UNCHANGED <<rows, github>>
    BY <1>4 DEF Preflight
  <2> HIDE DEF record
  <2>4. phase = "ARCHIVIST"
    BY <1>4 DEF Preflight, At, PublicationInv, PublishersAreSound, Sound, AdmittedStep
  <2>5. Sound(record)
    BY <2>2, <2>4 DEF Sound, AdmittedStep, StartedStep, PullStep
  <2>q. QED
    BY <1>4, <2>2, <2>3, <2>5, QuietSteps DEF Preflight, At
<1>5. CASE Crash(p)
  BY <1>5, ExitQuietly DEF Crash
<1>q. QED
  BY <1>1, <1>2, <1>3, <1>4, <1>5

LEMMA StepsOfTheBranch ==
  ASSUME PublicationInv, NEW p \in Publisher,
         \/ TakeSnapshot(p) \/ AdoptBranch(p) \/ FindNoBranch(p)
         \/ RefuseBranch(p) \/ LoseLease(p)
  PROVE  PublicationInv'
<1>1. CASE TakeSnapshot(p)
  <2> DEFINE record == [publisher[p] EXCEPT !.step = "push", !.seen = protection]
  <2>1. publisher[p] \in PublisherRecord /\ "push" \in Step /\ protection \in Fingerprint
    BY DEF PublicationInv, TypeOK, Step, CallStep
  <2>2. record \in PublisherRecord /\ record.step = "push"
    BY <2>1 DEF PublisherRecord
  <2>3. /\ publisher' = [publisher EXCEPT ![p] = record] /\ UNCHANGED <<rows, github>>
        /\ publisher[p].step = "snapshot"
    BY <1>1 DEF TakeSnapshot, At
  <2>4. Sound(publisher[p])
    BY DEF PublicationInv, PublishersAreSound
  <2> HIDE DEF record
  <2>5. Sound(record)
    BY <2>2, <2>3, <2>4 DEF Sound, AdmittedStep, StartedStep, PullStep
  <2>q. QED
    BY <2>2, <2>3, <2>5, QuietSteps DEF At
<1>2. CASE AdoptBranch(p)
  BY <1>2, GoesOn DEF AdoptBranch, At, Step, CallStep, AdmittedStep, StartedStep, PullStep
<1>3. CASE FindNoBranch(p)
  BY <1>3, GoesOn DEF FindNoBranch, At, Step, CallStep, AdmittedStep, StartedStep, PullStep
<1>4. CASE RefuseBranch(p)
  BY <1>4, FailsQuietly DEF RefuseBranch, At
<1>5. CASE LoseLease(p)
  BY <1>5, FailsQuietly DEF LoseLease, At
<1>q. QED
  BY <1>1, <1>2, <1>3, <1>4, <1>5

LEMMA StepsOfThePull ==
  ASSUME PublicationInv, NEW p \in Publisher,
         ConfirmPull(p) \/ RereadPull(p) \/ SecondSnapshot(p) \/ RereadBranch(p)
  PROVE  PublicationInv'
<1>1. CASE ConfirmPull(p)
  <2>1. CASE Goto(p, "remote")
    BY <1>1, <2>1, GoesOn DEF ConfirmPull, At, Step, CallStep, AdmittedStep, StartedStep, PullStep
  <2>2. CASE FailUnconfirmed(p)
    BY <1>1, <2>2, FailsQuietly DEF ConfirmPull, At
  <2>q. QED
    BY <1>1, <2>1, <2>2 DEF ConfirmPull
<1>2. CASE RereadPull(p)
  BY <1>2, GoesOn DEF RereadPull, At, Step, CallStep, AdmittedStep, StartedStep, PullStep
<1>3. CASE SecondSnapshot(p)
  BY <1>3, GoesOn DEF SecondSnapshot, At, Step, CallStep, AdmittedStep, StartedStep, PullStep
<1>4. CASE RereadBranch(p)
  <2> DEFINE record == [publisher[p] EXCEPT !.step = "reread", !.exact = AtHead]
  <2>1. publisher[p] \in PublisherRecord /\ "reread" \in Step /\ AtHead \in BOOLEAN
    BY DEF PublicationInv, TypeOK, Step, CallStep, AtHead
  <2>2. /\ record \in PublisherRecord /\ record.step = "reread"
        /\ record.pull = publisher[p].pull
    BY <2>1 DEF PublisherRecord
  <2>3. /\ publisher' = [publisher EXCEPT ![p] = record] /\ UNCHANGED <<rows, github>>
        /\ publisher[p].step = "remote"
    BY <1>4 DEF RereadBranch, At
  <2>4. Sound(publisher[p])
    BY DEF PublicationInv, PublishersAreSound
  <2> HIDE DEF record
  <2>5. Sound(record)
    BY <2>2, <2>3, <2>4 DEF Sound, AdmittedStep, StartedStep, PullStep
  <2>q. QED
    BY <2>2, <2>3, <2>5, QuietSteps DEF At
<1>q. QED
  BY <1>1, <1>2, <1>3, <1>4

LEMMA StepsThatEnd ==
  ASSUME PublicationInv, NEW p \in Publisher,
         CallFails(p) \/ FinalizationFails(p) \/ CleanUp(p)
  PROVE  PublicationInv'
<1>1. CASE CallFails(p)
  <2>1. CASE Goto(p, "failing")
    BY <1>1, <2>1, GoesOn DEF CallFails, At, Step, CallStep, AdmittedStep, StartedStep, PullStep
  <2>2. CASE FailUnconfirmed(p)
    BY <1>1, <2>2, FailsQuietly DEF CallFails, At, CallStep
  <2>q. QED
    BY <1>1, <2>1, <2>2 DEF CallFails
<1>2. CASE FinalizationFails(p)
  BY <1>2, GoesOn DEF FinalizationFails, At, Step, AdmittedStep, StartedStep, PullStep
<1>3. CASE CleanUp(p)
  <2>1. CASE Exit(p)
    BY <1>3, <2>1, ExitQuietly DEF CleanUp, At
  <2>2. CASE Goto(p, "failing")
    BY <1>3, <2>2, GoesOn DEF CleanUp, At, Step, AdmittedStep, StartedStep, PullStep
  <2>q. QED
    BY <1>3, <2>1, <2>2 DEF CleanUp
<1>q. QED
  BY <1>1, <1>2, <1>3

-----------------------------------------------------------------------------
(* Listing and opening pull requests.                                      *)
LEMMA ListingStep ==
  ASSUME PublicationInv, NEW p \in Publisher, ListPulls(p)
  PROVE  PublicationInv'
<1>0. /\ publisher[p].step = "list" /\ UNCHANGED <<rows, github>>
      /\ Sound(publisher[p]) /\ publisher[p] \in PublisherRecord
      /\ pulls \in Seq(Pull) /\ Len(pulls) \in 0..MaxPulls
      /\ DOMAIN pulls = 1..Len(pulls)
  <2>1. pulls \in Seq(Pull) /\ publisher[p] \in PublisherRecord
    BY DEF PublicationInv, TypeOK
  <2>2. DOMAIN pulls = 1..Len(pulls)
    BY <2>1
  <2>q. QED
    BY <2>1, <2>2 DEF ListPulls, At, PublicationInv, PublishersAreSound, TypeOK
<1>1. ASSUME Listed = {}, Goto(p, "create")
      PROVE  PublicationInv'
  <2> DEFINE record == [publisher[p] EXCEPT !.step = "create"]
  <2>1. record \in PublisherRecord /\ record.step = "create"
    BY RecordTypes DEF PublicationInv, Step, CallStep
  <2>2. publisher' = [publisher EXCEPT ![p] = record]
    BY <1>1 DEF Goto
  <2> HIDE DEF record
  <2>3. pulls = <<>> /\ NoneIsOurs
    BY <1>0, <1>1 DEF Listed, NoneIsOurs
  <2>4. Sound(record)
    BY <1>0, <2>1, <2>3 DEF Sound, AdmittedStep, StartedStep, PullStep
  <2>q. QED
    BY <1>0, <2>1, <2>2, <2>4, QuietSteps DEF At
<1>2. ASSUME NEW n \in Listed, Listed = {n},
             publisher' = [publisher EXCEPT ![p] = [@ EXCEPT !.step = "confirm",
                                                             !.pull = n]]
      PROVE  PublicationInv'
  <2> DEFINE record == [publisher[p] EXCEPT !.step = "confirm", !.pull = n]
  <2>1. n = 1 /\ Len(pulls) = 1
    <3>1. n \in 1..Len(pulls) /\ Len(pulls) \in Nat
      BY <1>0, <1>2, PublicationAssumption DEF Listed
    <3>2. 1 \in 1..Len(pulls) /\ Len(pulls) \in 1..Len(pulls)
      BY <3>1
    <3>3. \A m \in 1..Len(pulls) : m = n
      BY <1>0, <1>2 DEF Listed
    <3>q. QED
      BY <3>2, <3>3
  <2>2. "confirm" \in Step /\ n \in 0..MaxPulls
    BY <1>0, <2>1, PublicationAssumption DEF Step, CallStep
  <2>3. record \in PublisherRecord /\ record.step = "confirm" /\ record.pull = n
    BY <1>0, <2>2 DEF PublisherRecord
  <2>4. publisher' = [publisher EXCEPT ![p] = record]
    BY <1>2
  <2> HIDE DEF record
  <2>5. Sound(record)
    BY <1>0, <2>1, <2>3 DEF Sound, AdmittedStep, StartedStep, PullStep
  <2>q. QED
    BY <1>0, <2>3, <2>4, <2>5, QuietSteps DEF At
<1>3. CASE FailUnconfirmed(p)
  BY <1>0, <1>3, FailsQuietly DEF At
<1>q. QED
  BY <1>1, <1>2, <1>3 DEF ListPulls

(* A pull request is opened by a publisher that knows of none of ours.     *)
LEMMA CreatingStep ==
  ASSUME PublicationInv, NEW p \in Publisher, CreatePull(p)
  PROVE  PublicationInv'
<1> DEFINE new == [open |-> TRUE, draft |-> TRUE, right |-> TRUE, ours |-> TRUE]
<1>0. /\ publisher[p].step = "create" /\ UNCHANGED <<rows, branch, protection, disturbed>>
      /\ Sound(publisher[p]) /\ publisher[p] \in PublisherRecord
      /\ pulls \in Seq(Pull) /\ Len(pulls) \in 0..MaxPulls /\ Len(pulls) < MaxPulls
      /\ pulls' = Append(pulls, new) /\ new \in Pull /\ branch # "absent"
  BY DEF CreatePull, At, PublicationInv, PublishersAreSound, TypeOK, Pull
<1>1. /\ pulls' \in Seq(Pull) /\ Len(pulls') = Len(pulls) + 1
      /\ Len(pulls') \in 1..MaxPulls
      /\ \A n \in 1..Len(pulls) : pulls'[n] = pulls[n]
      /\ pulls'[Len(pulls')] = new
  BY <1>0, PublicationAssumption
<1>2. OnePullRequest'
  <2>1. \A n \in 1..Len(pulls) : ~pulls[n].ours
    BY <1>0 DEF Sound, NoneIsOurs
  <2>2. \A n \in DOMAIN pulls' : pulls'[n].ours => n = Len(pulls')
    BY <1>0, <1>1, <2>1
  <2>q. QED
    BY <2>2 DEF OnePullRequest
<1>3. ASSUME ~disturbed'
      PROVE  /\ Len(pulls') = 1
             /\ pulls'[1] = new
             /\ branch' = "ours"
  <2>1. pulls = <<>>
    BY <1>0, <1>3 DEF Sound
  <2>2. branch = "ours"
    BY <1>0, <1>3 DEF PublicationInv, UndisturbedIsOurs
  <2>q. QED
    BY <1>0, <1>1, <2>1, <2>2
<1>4. phase' # "READY_FOR_HUMAN_MERGE" /\ intent'.status = "started"
  BY <1>0 DEF Sound, StartedStep, rows, PublicationInv, RowsAgree
<1>5. UndisturbedIsOurs'
  <2>1. new.open /\ new.draft /\ new.right
    OBVIOUS
  <2> HIDE DEF new
  <2>2. ASSUME ~disturbed'
        PROVE  /\ branch' = "ours" /\ Len(pulls') = 1
               /\ pulls'[1].open /\ pulls'[1].draft /\ pulls'[1].right
    BY <1>3, <2>1, <2>2
  <2>3. 1 <= 1
    OBVIOUS
  <2>q. QED
    BY <1>4, <2>2, <2>3 DEF UndisturbedIsOurs
<1>6. PICK record \in PublisherRecord :
         /\ publisher' = [publisher EXCEPT ![p] = record]
         /\ \/ record.step = "failing"
            \/ record.step = "confirm" /\ record.pull = Len(pulls')
  <2>1. CASE FailUnconfirmed(p)
    BY <2>1, FailsUnconfirmed DEF PublicationInv
  <2>2. ASSUME publisher' = [publisher EXCEPT ![p] = [@ EXCEPT !.step = "confirm",
                                                               !.pull = Len(pulls')]]
        PROVE  \E record \in PublisherRecord :
                 /\ publisher' = [publisher EXCEPT ![p] = record]
                 /\ record.step = "confirm" /\ record.pull = Len(pulls')
    <3> DEFINE r == [publisher[p] EXCEPT !.step = "confirm", !.pull = Len(pulls')]
    <3>1. "confirm" \in Step /\ Len(pulls') \in 0..MaxPulls
      BY <1>1 DEF Step, CallStep
    <3>2. r \in PublisherRecord /\ r.step = "confirm" /\ r.pull = Len(pulls')
      BY <1>0, <3>1 DEF PublisherRecord
    <3>3. publisher' = [publisher EXCEPT ![p] = r]
      BY <2>2
    <3> HIDE DEF r
    <3>q. QED
      BY <3>2, <3>3
  <2>q. QED
    BY <2>1, <2>2 DEF CreatePull
<1>7. phase' = "ARCHIVIST"
  BY <1>0 DEF Sound, AdmittedStep, StartedStep, rows
<1>8. Sound(record)'
  BY <1>3, <1>4, <1>6, <1>7 DEF Sound, AdmittedStep, StartedStep, PullStep
<1>9. /\ publisher' \in [Publisher -> PublisherRecord]
      /\ LockHeld' /\ PublishersAreSound'
  BY <1>0, <1>6, <1>8, PublisherSteps DEF PublicationInv, At
<1>10. TypeOK'
  BY <1>0, <1>1, <1>9 DEF PublicationInv, TypeOK, rows
<1>11. RowsAgree' /\ IntentCoversEffects' /\ NothingIsEarly'
  BY <1>0, <1>4 DEF PublicationInv, RowsAgree, IntentCoversEffects, NothingIsEarly, rows
<1>q. QED
  BY <1>2, <1>5, <1>9, <1>10, <1>11 DEF PublicationInv

LEMMA PushingStep ==
  ASSUME PublicationInv, NEW p \in Publisher, PushBranch(p)
  PROVE  PublicationInv'
<1>0. /\ publisher[p].step = "lease" /\ UNCHANGED <<rows, pulls, protection, disturbed>>
      /\ Sound(publisher[p]) /\ branch' = "ours" /\ branch = "absent"
  BY DEF PushBranch, LeaseHolds, At, PublicationInv, PublishersAreSound, TypeOK
<1>1. PICK record \in PublisherRecord :
         /\ publisher' = [publisher EXCEPT ![p] = record]
         /\ record.step \in {"failing", "list"}
  <2>1. CASE FailUnconfirmed(p)
    BY <2>1, FailsUnconfirmed DEF PublicationInv
  <2>2. CASE Goto(p, "list")
    <3> DEFINE r == [publisher[p] EXCEPT !.step = "list"]
    <3>1. r \in PublisherRecord /\ r.step = "list"
      BY RecordTypes DEF PublicationInv, Step, CallStep
    <3>2. publisher' = [publisher EXCEPT ![p] = r]
      BY <2>2 DEF Goto
    <3> HIDE DEF r
    <3>q. QED
      BY <3>1, <3>2
  <2>q. QED
    BY <2>1, <2>2 DEF PushBranch
<1>2. intent'.status = "started" /\ phase' = "ARCHIVIST"
  BY <1>0 DEF Sound, AdmittedStep, StartedStep, rows
<1>3. Sound(record)'
  BY <1>1, <1>2 DEF Sound, AdmittedStep, StartedStep, PullStep
<1>4. /\ publisher' \in [Publisher -> PublisherRecord]
      /\ LockHeld' /\ PublishersAreSound'
  BY <1>0, <1>1, <1>3, PublisherSteps DEF PublicationInv, At
<1>5. TypeOK'
  BY <1>0, <1>4 DEF PublicationInv, TypeOK, rows, Branch
<1>6. /\ RowsAgree' /\ IntentCoversEffects' /\ OnePullRequest' /\ UndisturbedIsOurs'
      /\ NothingIsEarly'
  BY <1>0, <1>2 DEF PublicationInv, RowsAgree, IntentCoversEffects, OnePullRequest,
         UndisturbedIsOurs, NothingIsEarly, rows
<1>q. QED
  BY <1>4, <1>5, <1>6 DEF PublicationInv

-----------------------------------------------------------------------------
(* Steps that change rows.                                                 *)

(* The rest of the invariant under a step of the rows alone.               *)
LEMMA RowSteps ==
  ASSUME PublicationInv, NEW p \in Publisher, NEW record \in PublisherRecord,
         ~At(p, "idle"), publisher' = [publisher EXCEPT ![p] = record],
         UNCHANGED github, Sound(record)',
         phase' \in EarlierState \cup {"ARCHIVIST", "READY_FOR_HUMAN_MERGE"},
         published' \in BOOLEAN, NothingIsEarly',
         intent' \in Intent, blockers' \in 0..MaxBlockers, lateHooks' = lateHooks,
         RowsAgree', intent'.status # "none" \/ UNCHANGED intent,
         ~disturbed /\ phase' = "READY_FOR_HUMAN_MERGE"
            => intent'.pull = 1 /\ Len(pulls) = 1
  PROVE  PublicationInv'
<1>1. /\ publisher' \in [Publisher -> PublisherRecord]
      /\ LockHeld' /\ PublishersAreSound'
  BY PublisherSteps DEF PublicationInv
<1>2. TypeOK'
  BY <1>1 DEF PublicationInv, TypeOK, github
<1>3. IntentCoversEffects' /\ OnePullRequest' /\ UndisturbedIsOurs'
  BY DEF PublicationInv, IntentCoversEffects, OnePullRequest, UndisturbedIsOurs, github
<1>q. QED
  BY <1>1, <1>2, <1>3 DEF PublicationInv

LEMMA BlockerTypes ==
  ASSUME TypeOK, InsertBlocker
  PROVE  blockers' \in 0..MaxBlockers
  BY PublicationAssumption DEF TypeOK, InsertBlocker

LEMMA PreflightFailsStep ==
  ASSUME PublicationInv, NEW p \in Publisher, PreflightFails(p)
  PROVE  PublicationInv'
<1>1. /\ publisher' = [publisher EXCEPT ![p] = Idle] /\ ~At(p, "idle")
      /\ UNCHANGED <<phase, published, intent, lateHooks, github>> /\ InsertBlocker
  BY DEF PreflightFails, Exit, At
<1>2. Sound(Idle)'
  BY IdleIsSound DEF Sound, AdmittedStep, StartedStep, PullStep
<1>3. /\ blockers' \in 0..MaxBlockers
      /\ phase \in EarlierState \cup {"ARCHIVIST", "READY_FOR_HUMAN_MERGE"}
      /\ published \in BOOLEAN /\ intent \in Intent
  BY <1>1, BlockerTypes DEF PublicationInv, TypeOK
<1>4. RowsAgree' /\ (~disturbed /\ phase = "READY_FOR_HUMAN_MERGE"
                        => intent.pull = 1 /\ Len(pulls) = 1)
  BY <1>1 DEF PublicationInv, RowsAgree, UndisturbedIsOurs
<1>5. NothingIsEarly'
  BY <1>1 DEF PublicationInv, NothingIsEarly
<1>q. QED
  BY <1>1, <1>2, <1>3, <1>4, <1>5, IdleIsSound, RowSteps

LEMMA StartPublicationStep ==
  ASSUME PublicationInv, NEW p \in Publisher, StartPublication(p)
  PROVE  PublicationInv'
<1>1. /\ publisher' = [publisher EXCEPT ![p] = [publisher[p] EXCEPT !.step = "snapshot"]]
      /\ ~At(p, "idle")
      /\ UNCHANGED <<phase, published, blockers, lateHooks, github>>
      /\ intent' = [intent EXCEPT !.status = "started"]
      /\ intent.status # "published" /\ phase = "ARCHIVIST"
  BY DEF StartPublication, Goto, At, Eligible
<1>2. PICK record \in PublisherRecord :
         record.step = "snapshot" /\ publisher' = [publisher EXCEPT ![p] = record]
  BY <1>1, RecordTypes DEF PublicationInv, Step, CallStep
<1>3. intent \in Intent /\ published \in BOOLEAN /\ blockers \in 0..MaxBlockers
  BY DEF PublicationInv, TypeOK
<1>4. intent' \in Intent /\ intent'.status = "started"
  BY <1>1, <1>3 DEF Intent
<1>5. Sound(record)'
  BY <1>1, <1>2, <1>4 DEF Sound, AdmittedStep, StartedStep, PullStep
<1>6. RowsAgree' /\ NothingIsEarly'
  BY <1>1, <1>4, PublicationAssumption DEF PublicationInv, RowsAgree, NothingIsEarly
<1>q. QED
  BY <1>1, <1>2, <1>3, <1>4, <1>5, <1>6, RowSteps

LEMMA FinalizePublicationStep ==
  ASSUME PublicationInv, NEW p \in Publisher, FinalizePublication(p)
  PROVE  PublicationInv'
<1>1. /\ publisher' = [publisher EXCEPT ![p] = [publisher[p] EXCEPT !.step = "cleanup"]]
      /\ publisher[p].step = "finalize"
      /\ UNCHANGED <<blockers, lateHooks, github>>
      /\ intent' = [status |-> "published", pull |-> publisher[p].pull]
      /\ published' = TRUE /\ phase' = "READY_FOR_HUMAN_MERGE"
      /\ publisher[p].pull \in 0..MaxPulls
  BY RecordTypes DEF FinalizePublication, Goto, At, Finalized, PublicationInv, Step
<1>2. PICK record \in PublisherRecord :
         record.step = "cleanup" /\ publisher' = [publisher EXCEPT ![p] = record]
  BY <1>1, RecordTypes DEF PublicationInv, Step
<1>3. blockers \in 0..MaxBlockers
  BY DEF PublicationInv, TypeOK
<1>4. /\ intent' \in Intent /\ intent'.status = "published"
      /\ intent'.pull = publisher[p].pull
  BY <1>1 DEF Intent
<1>5. Sound(record)'
  BY <1>2 DEF Sound, AdmittedStep, StartedStep, PullStep
<1>6. RowsAgree' /\ NothingIsEarly'
  BY <1>1, <1>4, PublicationAssumption DEF RowsAgree, NothingIsEarly
<1>7. ~disturbed => publisher[p].pull = 1 /\ Len(pulls) = 1
  BY <1>1 DEF PublicationInv, PublishersAreSound, Sound, PullStep
<1>q. QED
  BY <1>1, <1>2, <1>3, <1>4, <1>5, <1>6, <1>7, RowSteps DEF At

LEMMA FailPublicationStep ==
  ASSUME PublicationInv, NEW p \in Publisher, FailPublication(p)
  PROVE  PublicationInv'
<1>1. /\ publisher' = [publisher EXCEPT ![p] = Idle] /\ ~At(p, "idle")
      /\ UNCHANGED <<phase, published, lateHooks, github>>
  BY DEF FailPublication, Exit, At
<1>2. Sound(Idle)'
  BY IdleIsSound DEF Sound, AdmittedStep, StartedStep, PullStep
<1>3. /\ blockers \in 0..MaxBlockers /\ intent \in Intent /\ published \in BOOLEAN
      /\ phase \in EarlierState \cup {"ARCHIVIST", "READY_FOR_HUMAN_MERGE"}
      /\ publisher[p].pull \in 0..MaxPulls
  BY RecordTypes DEF PublicationInv, TypeOK, Step
<1>4. ~disturbed /\ phase = "READY_FOR_HUMAN_MERGE" => intent.pull = 1 /\ Len(pulls) = 1
  BY DEF PublicationInv, UndisturbedIsOurs
<1>5. CASE Failable
  <2>1. intent' = Failed(p) /\ InsertBlocker /\ phase = "ARCHIVIST" /\ published = FALSE
    BY <1>3, <1>5 DEF FailPublication, Failable
  <2>2. intent.pull \in 0..MaxPulls
    BY <1>3 DEF Intent
  <2>3. intent' \in Intent /\ intent'.status = "failed"
    BY <1>3, <2>1, <2>2 DEF Failed, Intent
  <2>4. blockers' \in 0..MaxBlockers
    BY <2>1, BlockerTypes DEF PublicationInv
  <2>5. RowsAgree' /\ NothingIsEarly'
    BY <1>1, <2>1, <2>3, PublicationAssumption DEF RowsAgree, NothingIsEarly
  <2>q. QED
    BY <1>1, <1>2, <1>3, <2>1, <2>3, <2>4, <2>5, IdleIsSound, RowSteps
<1>6. CASE ~Failable
  <2>1. UNCHANGED <<intent, blockers>>
    BY <1>6 DEF FailPublication
  <2>2. RowsAgree' /\ NothingIsEarly'
    BY <1>1, <2>1 DEF PublicationInv, RowsAgree, NothingIsEarly
  <2>q. QED
    BY <1>1, <1>2, <1>3, <1>4, <2>1, <2>2, IdleIsSound, RowSteps
<1>q. QED
  BY <1>5, <1>6

-----------------------------------------------------------------------------
(* The operator, the lifecycle and other people.                           *)
LEMMA BlockerSteps ==
  ASSUME PublicationInv, ResolveBlocker \/ LateHookEnds
  PROVE  PublicationInv'
<1>1. UNCHANGED <<phase, published, intent, github, publisher>>
  BY DEF ResolveBlocker, LateHookEnds
<1>2. blockers' \in 0..MaxBlockers /\ lateHooks' \in SUBSET LateHook
  <2>1. blockers \in 0..MaxBlockers /\ lateHooks \in SUBSET LateHook
    BY DEF PublicationInv, TypeOK
  <2>q. QED
    BY <2>1, PublicationAssumption DEF ResolveBlocker, LateHookEnds, InsertBlocker
<1>3. TypeOK'
  BY <1>1, <1>2 DEF PublicationInv, TypeOK, github
<1>4. LockHeld' /\ PublishersAreSound'
  BY <1>1 DEF PublicationInv, LockHeld, At, PublishersAreSound, Sound, NoneIsOurs, github
<1>5. /\ RowsAgree' /\ IntentCoversEffects' /\ OnePullRequest' /\ UndisturbedIsOurs'
      /\ NothingIsEarly'
  BY <1>1 DEF PublicationInv, RowsAgree, IntentCoversEffects, OnePullRequest,
         UndisturbedIsOurs, NothingIsEarly, github
<1>q. QED
  BY <1>3, <1>4, <1>5 DEF PublicationInv

(* Before closeout no publisher is past its first look at the task.        *)
LEMMA EarlySteps ==
  ASSUME PublicationInv, BeforeCloseout
  PROVE  PublicationInv'
<1>1. /\ UNCHANGED <<published, intent, github, publisher>>
      /\ phase \notin {"ARCHIVIST", "READY_FOR_HUMAN_MERGE"}
      /\ phase' \in EarlierState \cup {"ARCHIVIST"} /\ phase' # "READY_FOR_HUMAN_MERGE"
  BY PublicationAssumption DEF BeforeCloseout
<1>2. TypeOK'
  BY <1>1 DEF BeforeCloseout, PublicationInv, TypeOK, github
<1>3. LockHeld'
  BY <1>1 DEF PublicationInv, LockHeld, At
<1>4. PublishersAreSound'
  BY <1>1 DEF PublicationInv, PublishersAreSound, Sound, NoneIsOurs, github
<1>5. IntentCoversEffects' /\ OnePullRequest' /\ UndisturbedIsOurs'
  BY <1>1 DEF PublicationInv, IntentCoversEffects, OnePullRequest, UndisturbedIsOurs, github
<1>6. RowsAgree' /\ NothingIsEarly'
  BY <1>1 DEF BeforeCloseout, PublicationInv, RowsAgree, NothingIsEarly
<1>q. QED
  BY <1>2, <1>3, <1>4, <1>5, <1>6 DEF PublicationInv

(* What other people do leaves the pull requests ours that were.           *)
LEMMA OthersSteps ==
  ASSUME PublicationInv, UNCHANGED <<rows, publisher>>, disturbed' = TRUE,
         branch' \in Branch, branch' = branch \/ branch' # "ours",
         protection' \in Fingerprint,
         pulls' \in Seq(Pull), Len(pulls') \in 0..MaxPulls,
         \A n \in DOMAIN pulls' : pulls'[n].ours => n \in DOMAIN pulls /\ pulls[n].ours
  PROVE  PublicationInv'
<1>1. TypeOK'
  BY DEF PublicationInv, TypeOK, rows
<1>2. /\ LockHeld' /\ RowsAgree' /\ IntentCoversEffects' /\ UndisturbedIsOurs'
      /\ NothingIsEarly'
  BY DEF PublicationInv, LockHeld, At, RowsAgree, IntentCoversEffects,
         UndisturbedIsOurs, NothingIsEarly, rows
<1>3. OnePullRequest' /\ (NoneIsOurs => NoneIsOurs')
  BY DEF PublicationInv, OnePullRequest, NoneIsOurs
<1>4. PublishersAreSound'
  BY <1>3 DEF PublicationInv, PublishersAreSound, Sound, rows
<1>q. QED
  BY <1>1, <1>2, <1>3, <1>4 DEF PublicationInv

LEMMA OthersChangePulls ==
  ASSUME PublicationInv, OthersDelete \/ OthersClose \/ OthersUndraft \/ OthersOpen
  PROVE  /\ pulls' \in Seq(Pull) /\ Len(pulls') \in 0..MaxPulls
         /\ \A n \in DOMAIN pulls' : pulls'[n].ours => n \in DOMAIN pulls /\ pulls[n].ours
<1>0. pulls \in Seq(Pull) /\ Len(pulls) \in 0..MaxPulls /\ MaxPulls \in Nat
  BY PublicationAssumption DEF PublicationInv, TypeOK
<1>1. \A n \in DOMAIN pulls :
         /\ pulls[n] \in Pull
         /\ [pulls[n] EXCEPT !.open = FALSE] \in Pull
         /\ [pulls[n] EXCEPT !.open = FALSE].ours = pulls[n].ours
         /\ [pulls[n] EXCEPT !.draft = FALSE] \in Pull
         /\ [pulls[n] EXCEPT !.draft = FALSE].ours = pulls[n].ours
  <2>1. ASSUME NEW n \in DOMAIN pulls
        PROVE  pulls[n] \in Pull
    BY <1>0, <2>1
  <2>q. QED
    BY <2>1 DEF Pull
<1>2. CASE OthersDelete
  <2>1. pulls' = [n \in DOMAIN pulls |-> [pulls[n] EXCEPT !.open = FALSE]]
    BY <1>2 DEF OthersDelete
  <2>2. DOMAIN pulls' = 1..Len(pulls) /\ \A n \in 1..Len(pulls) : pulls'[n] \in Pull
    <3>1. DOMAIN pulls = 1..Len(pulls)
      BY <1>0
    <3>2. DOMAIN pulls' = DOMAIN pulls
      BY <2>1
    <3>3. \A n \in DOMAIN pulls : pulls'[n] \in Pull
      BY <1>1, <2>1
    <3>q. QED
      BY <3>1, <3>2, <3>3
  <2>3. pulls' \in Seq(Pull) /\ Len(pulls') = Len(pulls)
    <3>1. pulls' \in [1..Len(pulls) -> Pull]
      BY <2>1, <2>2
    <3>2. Len(pulls) \in Nat
      BY <1>0
    <3>q. QED
      BY <3>1, <3>2
  <2>q. QED
    BY <1>0, <1>1, <2>1, <2>3
<1>3. CASE OthersClose \/ OthersUndraft
  <2>1. PICK n \in DOMAIN pulls :
           \/ pulls' = [pulls EXCEPT ![n] = [pulls[n] EXCEPT !.open = FALSE]]
           \/ pulls' = [pulls EXCEPT ![n] = [pulls[n] EXCEPT !.draft = FALSE]]
    BY <1>3 DEF OthersClose, OthersUndraft
  <2>2. PICK new \in Pull : /\ new.ours = pulls[n].ours
                            /\ pulls' = [pulls EXCEPT ![n] = new]
    BY <1>1, <2>1
  <2>3. pulls' \in Seq(Pull) /\ Len(pulls') = Len(pulls)
    BY <1>0, <2>2
  <2>q. QED
    BY <1>0, <2>2, <2>3
<1>4. CASE OthersOpen
  <2>1. PICK right \in BOOLEAN :
           pulls' = Append(pulls, [open |-> TRUE, draft |-> TRUE,
                                   right |-> right, ours |-> FALSE])
    BY <1>4 DEF OthersOpen
  <2> DEFINE new == [open |-> TRUE, draft |-> TRUE, right |-> right, ours |-> FALSE]
  <2>2. new \in Pull /\ ~new.ours
    BY DEF Pull
  <2>3. pulls' = Append(pulls, new) /\ Len(pulls) < MaxPulls
    BY <1>4, <2>1 DEF OthersOpen
  <2> HIDE DEF new
  <2>4. pulls' \in Seq(Pull) /\ Len(pulls') = Len(pulls) + 1
    BY <1>0, <2>2, <2>3
  <2>5. /\ \A n \in 1..Len(pulls) : pulls'[n] = pulls[n]
        /\ pulls'[Len(pulls) + 1] = new
    BY <1>0, <2>2, <2>3
  <2>q. QED
    BY <1>0, <2>2, <2>3, <2>4, <2>5
<1>q. QED
  BY <1>2, <1>3, <1>4

LEMMA OthersPreserve ==
  ASSUME PublicationInv,
         \/ OthersPush \/ OthersDelete \/ OthersClose
         \/ OthersUndraft \/ OthersOpen \/ OthersProtect
  PROVE  PublicationInv'
<1>0. /\ branch \in Branch /\ protection \in Fingerprint
      /\ pulls \in Seq(Pull) /\ Len(pulls) \in 0..MaxPulls
  BY DEF PublicationInv, TypeOK
<1>1. CASE OthersPush
  BY <1>0, <1>1, OthersSteps DEF OthersPush, Branch
<1>2. CASE OthersProtect
  BY <1>0, <1>2, OthersSteps DEF OthersProtect
<1>3. CASE OthersDelete
  BY <1>0, <1>3, OthersSteps, OthersChangePulls DEF OthersDelete, Branch
<1>4. CASE OthersClose \/ OthersUndraft \/ OthersOpen
  BY <1>0, <1>4, OthersSteps, OthersChangePulls DEF OthersClose, OthersUndraft, OthersOpen
<1>q. QED
  BY <1>1, <1>2, <1>3, <1>4

-----------------------------------------------------------------------------
LEMMA InitialState == Init => PublicationInv
<1> SUFFICES ASSUME Init
             PROVE  PublicationInv
  OBVIOUS
<1>1. publisher = [p \in Publisher |-> Idle] /\ \A p \in Publisher : publisher[p] = Idle
  BY DEF Init
<1>2. pulls \in Seq(Pull) /\ Len(pulls) = 0 /\ DOMAIN pulls = {}
  BY DEF Init
<1>3. intent \in Intent /\ intent.status = "none"
  BY PublicationAssumption DEF Init, Intent
<1>4. TypeOK
  <2>1. publisher \in [Publisher -> PublisherRecord]
    BY <1>1, IdleIsSound
  <2>2. /\ Len(pulls) \in 0..MaxPulls
        /\ blockers \in 0..MaxBlockers /\ lateHooks \in SUBSET LateHook
    BY <1>2, PublicationAssumption DEF Init
  <2>3. phase \in EarlierState /\ published \in BOOLEAN /\ disturbed \in BOOLEAN
    BY DEF Init
  <2>4. branch \in Branch /\ protection \in Fingerprint
    BY DEF Init, Branch, Fingerprint
  <2>q. QED
    BY <1>2, <1>3, <2>1, <2>2, <2>3, <2>4 DEF TypeOK
<1>5. LockHeld /\ PublishersAreSound
  BY <1>1, IdleIsSound DEF LockHeld, At, PublishersAreSound
<1>6. /\ RowsAgree /\ IntentCoversEffects /\ OnePullRequest /\ UndisturbedIsOurs
      /\ NothingIsEarly
  BY <1>2, <1>3, PublicationAssumption
     DEF Init, RowsAgree, IntentCoversEffects, OnePullRequest, UndisturbedIsOurs,
         NothingIsEarly
<1>q. QED
  BY <1>4, <1>5, <1>6 DEF PublicationInv

LEMMA StutteringSteps == PublicationInv /\ UNCHANGED vars => PublicationInv'
  BY DEF vars, PublicationInv, TypeOK, LockHeld, At, PublishersAreSound, Sound, NoneIsOurs,
         RowsAgree, IntentCoversEffects, OnePullRequest, UndisturbedIsOurs, NothingIsEarly

LEMMA StepsPreserve == PublicationInv /\ [Next]_vars => PublicationInv'
<1> SUFFICES ASSUME PublicationInv, [Next]_vars
             PROVE  PublicationInv'
  OBVIOUS
<1>1. ASSUME NEW p \in Publisher, Begin(p) \/ Publish(p) \/ Crash(p)
      PROVE  PublicationInv'
  BY <1>1, StepsBeforeTheIntent, StepsOfTheBranch, StepsOfThePull, StepsThatEnd,
     ListingStep, CreatingStep, PushingStep, PreflightFailsStep, StartPublicationStep,
     FinalizePublicationStep, FailPublicationStep DEF Publish
<1>q. QED
  BY <1>1, BlockerSteps, EarlySteps, OthersPreserve, StutteringSteps DEF Next

(* The inductive invariant: beside the properties, one publisher at most   *)
(* is under way (publication_lock), the task is at ARCHIVIST from its      *)
(* admission on and its row "started" from start_publication to            *)
(* finalize_publication, and a publisher opens a pull request only when    *)
(* none is ours.                                                           *)
THEOREM PublicationInvariant == Spec => []PublicationInv
<1>1. Init => PublicationInv
  BY InitialState
<1>2. PublicationInv /\ [Next]_vars => PublicationInv'
  BY StepsPreserve
<1>q. QED
  BY <1>1, <1>2, PTL DEF Spec

(* Rows, remote objects and publishers of task.py publish have their types. *)
THEOREM PublicationTypes == Spec => []TypeOK
<1>1. PublicationInv => TypeOK
  BY DEF PublicationInv
<1>q. QED
  BY <1>1, PublicationInvariant, PTL

(* The publications row, published_head and the state of the task agree,   *)
(* whichever publisher crashed, raced or failed late.                      *)
THEOREM PublicationRowsAgree == Spec => []RowsAgree
<1>1. PublicationInv => RowsAgree
  BY DEF PublicationInv
<1>q. QED
  BY <1>1, PublicationInvariant, PTL

(* start_publication records the intent before the branch is pushed or a   *)
(* pull request is opened, and no failure withdraws it.                    *)
THEOREM IntentPrecedesEffects == Spec => []IntentCoversEffects
<1>1. PublicationInv => IntentCoversEffects
  BY DEF PublicationInv
<1>q. QED
  BY <1>1, PublicationInvariant, PTL

(* reconcile_pull_request never opens a second pull request for a task.    *)
THEOREM NoSecondPullRequest == Spec => []OnePullRequest
<1>1. PublicationInv => OnePullRequest
  BY DEF PublicationInv
<1>q. QED
  BY <1>1, PublicationInvariant, PTL

(* A task that is ready, in a repository nobody else used, has its head on *)
(* the branch and the recorded pull request, the only one, open and draft. *)
THEOREM ReadyHasItsEvidence == Spec => []ReadyIsOnGitHub
<1>1. PublicationInv => ReadyIsOnGitHub
  <2> SUFFICES ASSUME PublicationInv, phase = "READY_FOR_HUMAN_MERGE", ~disturbed
               PROVE  ExactDraft(intent.pull) /\ Len(pulls) = 1
    BY DEF ReadyIsOnGitHub
  <2>1. /\ intent.pull = 1 /\ Len(pulls) = 1 /\ branch = "ours"
        /\ pulls[1].open /\ pulls[1].draft /\ pulls[1].right
    BY DEF PublicationInv, UndisturbedIsOurs
  <2>2. 1 \in DOMAIN pulls
    <3>1. DOMAIN pulls = 1..Len(pulls)
      BY DEF PublicationInv, TypeOK
    <3>q. QED
      BY <2>1, <3>1
  <2>q. QED
    BY <2>1, <2>2 DEF ExactDraft, AtHead
<1>q. QED
  BY <1>1, PublicationInvariant, PTL

(* _publish_branch pushes with a lease on the branch's absence: a head     *)
(* that somebody else pushed is never overwritten.                         *)
THEOREM ForeignHeadStays == Spec => ForeignHeadKept
<1>1. [Next]_vars => [branch' = "ours" => branch \in {"absent", "ours"}]_vars
  <2> SUFFICES ASSUME Next, branch' = "ours"
               PROVE  branch \in {"absent", "ours"}
    OBVIOUS
  <2>1. ASSUME NEW p \in Publisher, Begin(p) \/ Publish(p) \/ Crash(p)
        PROVE  branch' = branch \/ branch = "absent"
    BY <2>1 DEF Begin, Publish, Crash, Refuse, Admit, Preflight, PreflightFails,
       StartPublication, CallFails, TakeSnapshot, AdoptBranch, FindNoBranch, RefuseBranch,
       PushBranch, LeaseHolds, LoseLease, ListPulls, CreatePull, ConfirmPull, RereadBranch,
       RereadPull, SecondSnapshot, FinalizePublication, FinalizationFails, CleanUp,
       FailPublication, github
  <2>q. QED
    BY <2>1 DEF Next, ResolveBlocker, LateHookEnds, BeforeCloseout, OthersPush, OthersDelete,
       OthersClose, OthersUndraft, OthersOpen, OthersProtect, github
<1>q. QED
  BY <1>1, PTL DEF Spec, ForeignHeadKept

(* No late fail_publication, retry or concurrent publisher touches the     *)
(* rows of a finalized publication.                                        *)
THEOREM FinalizedStaysFinal == Spec => PublishedIsFinal
<1>1. PublicationInv /\ [Next]_vars =>
        [intent.status = "published" => UNCHANGED <<phase, published, intent>>]_vars
  <2> SUFFICES ASSUME PublicationInv, Next, intent.status = "published"
               PROVE  UNCHANGED <<phase, published, intent>>
    OBVIOUS
  <2>1. ASSUME NEW p \in Publisher, Begin(p) \/ Publish(p) \/ Crash(p)
        PROVE  UNCHANGED <<phase, published, intent>>
    <3>1. phase = "READY_FOR_HUMAN_MERGE"
      BY DEF PublicationInv, RowsAgree
    <3>2. ~StartPublication(p) /\ ~FinalizePublication(p)
      BY <3>1 DEF StartPublication, FinalizePublication, Eligible
    <3>3. CASE FailPublication(p)
      BY <3>1, <3>3 DEF FailPublication, Failable
    <3>4. CASE ~FailPublication(p)
      BY <2>1, <3>2, <3>4 DEF Begin, Publish, Crash, Refuse, Admit, Preflight,
         PreflightFails, CallFails, TakeSnapshot, AdoptBranch, FindNoBranch, RefuseBranch,
         PushBranch, LoseLease, ListPulls, CreatePull, ConfirmPull, RereadBranch, RereadPull,
         SecondSnapshot, FinalizationFails, CleanUp, rows
    <3>q. QED
      BY <3>3, <3>4
  <2>2. ~BeforeCloseout
    BY PublicationAssumption DEF PublicationInv, RowsAgree, BeforeCloseout
  <2>q. QED
    BY <2>1, <2>2 DEF Next, ResolveBlocker, LateHookEnds, OthersPush, OthersDelete,
       OthersClose, OthersUndraft, OthersOpen, OthersProtect, rows
<1>q. QED
  BY <1>1, PublicationInvariant, PTL DEF Spec, PublishedIsFinal
=============================================================================
