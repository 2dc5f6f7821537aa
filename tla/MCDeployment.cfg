SPECIFICATION FairSpec
CONSTANTS
    Deployer = {d1, d2}
    Reader = {r1}
    Release = {v1, v2}
    NoRelease = NoRelease
    MaxFailures = 2
INVARIANTS
    TargetIsWhole
    DeploymentSurvives
    
PROPERTIES
    
    TargetReturns
