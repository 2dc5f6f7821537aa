SPECIFICATION Spec
CONSTANTS
    Publisher = {p1, p2}
    OthersAct = TRUE
    MaxPulls = 2
    MaxBlockers = 2
    EarlierState = {"FINAL_MECHANICAL_ACCEPTANCE"}
    LateHook = {h1, h2}
SYMMETRY Symmetry
INVARIANTS
    TypeOK
    RowsAgree
    ReadyIsOnGitHub
    IntentCoversEffects
    OnePullRequest
PROPERTIES
    ForeignHeadKept
