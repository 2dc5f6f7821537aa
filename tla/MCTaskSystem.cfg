SPECIFICATION SystemSpec
CONSTANTS
    Commit = {c0, c1}
    Base = c0
    NoHead = NoHead
    Finding = {f1}
    Process = {p1, p2}
    MaxAttempts = 6
    MaxBlockers = 1
    Publisher = {b1}
    OthersAct = TRUE
    MaxPulls = 1
CONSTRAINT OthersActLate
SYMMETRY Symmetry
INVARIANTS
    TypeOK
    SingleAttempt
    PacketIsCurrent
    ExactHeadEvidence
    CloseoutComplete
    CheckoutIsKept
    LicenseForNextRound
    EffectsAreEarned
PROPERTIES
    AttemptLeavesTrace
    
    ImplementsContract
    ImplementsLifecycle
    ImplementsPublication
