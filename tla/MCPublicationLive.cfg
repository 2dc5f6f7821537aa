SPECIFICATION FairSpec
CONSTANTS
    Publisher = {p1}
    OthersAct = FALSE
    MaxPulls = 2
    MaxBlockers = 3
    EarlierState = {"FINAL_MECHANICAL_ACCEPTANCE"}
    LateHook = {h1, h2}
PROPERTIES EventuallyReady
