---------------------------- MODULE TaskContract ----------------------------
(***************************************************************************)
(* What the task lifecycle promises to whoever reads a task's row, with    *)
(* every mechanism left out: attempts are exclusive, evidence belongs to   *)
(* one HEAD and dies with it, a phase is entered only on the evidence it   *)
(* stands for, and a correction owed stops every advance until it is made. *)
(***************************************************************************)
CONSTANTS Commit, Base

VARIABLES
    phase,      \* the task's state
    head,       \* the selected HEAD
    evidence,   \* acceptances that hold for exactly that HEAD
    owed,       \* a licensed correction is outstanding
    busy        \* an Architect attempt is under way

contractVars == <<phase, head, evidence, owed, busy>>

Init ==
    /\ phase = "PREPARED"
    /\ head = Base
    /\ evidence = {}
    /\ owed = FALSE
    /\ busy = FALSE

Activate ==
    /\ phase = "PREPARED"
    /\ phase' = "QUEUED"
    /\ UNCHANGED <<head, evidence, owed, busy>>

Start ==
    /\ phase \notin {"PREPARED", "ARCHIVIST", "READY_FOR_HUMAN_MERGE"}
    /\ ~busy
    /\ busy' = TRUE
    /\ UNCHANGED <<phase, head, evidence, owed>>

(* An attempt that fails or blocks without a commit changes nothing else. *)
End == busy /\ busy' = FALSE

GiveUp == End /\ UNCHANGED <<phase, head, evidence, owed>>

Plan ==
    /\ End
    /\ phase = "QUEUED"
    /\ phase' = "PLANNED"
    /\ UNCHANGED <<head, evidence, owed>>

(* Any move of the HEAD leaves no evidence behind. *)
NewHead == head' # head /\ evidence' = {}

Implement ==
    /\ End
    /\ phase = "PLANNED"
    /\ NewHead
    /\ phase' = "IMPLEMENTED"
    /\ UNCHANGED owed

PartialCommit ==
    /\ End
    /\ phase = "PLANNED" \/ owed
    /\ NewHead
    /\ UNCHANGED <<phase, owed>>

Correct ==
    /\ End
    /\ owed
    /\ owed' = FALSE
    /\ NewHead
    /\ phase' = "IMPLEMENTED"

Owe ==
    /\ End
    /\ phase \in {"IMPLEMENTED", "REVIEW", "ADVERSARIAL_REVIEW"}
    /\ ~owed
    /\ owed' = TRUE
    /\ UNCHANGED <<phase, head, evidence>>

(* One phase forward, on all the evidence given so far and one more.       *)
Advance(from, to, needed, given) ==
    /\ End
    /\ ~owed
    /\ phase = from
    /\ phase' = to
    /\ needed \subseteq evidence
    /\ evidence' = evidence \cup given
    /\ UNCHANGED <<head, owed>>

Review == Advance("IMPLEMENTED", "REVIEW", {}, {"review_accepted"})
Attack == Advance("REVIEW", "ADVERSARIAL_REVIEW",
                  {"review_accepted"}, {"adversary_accepted"})
Validate == Advance("ADVERSARIAL_REVIEW", "FINAL_MECHANICAL_ACCEPTANCE",
                    {"review_accepted", "adversary_accepted"}, {"validation_passed"})
Close == Advance("FINAL_MECHANICAL_ACCEPTANCE", "ARCHIVIST",
                 {"review_accepted", "adversary_accepted", "validation_passed"}, {})

(* Nothing is handed to a human without all of the evidence.               *)
Release ==
    /\ phase = "ARCHIVIST"
    /\ ~owed /\ ~busy
    /\ {"review_accepted", "adversary_accepted", "validation_passed"} \subseteq evidence
    /\ phase' = "READY_FOR_HUMAN_MERGE"
    /\ UNCHANGED <<head, evidence, owed, busy>>

Next ==
    \/ Activate
    \/ Start
    \/ GiveUp
    \/ Plan
    \/ Implement
    \/ PartialCommit
    \/ Correct
    \/ Owe
    \/ Review
    \/ Attack
    \/ Validate
    \/ Close
    \/ Release

Spec == Init /\ [][Next]_contractVars
=============================================================================
