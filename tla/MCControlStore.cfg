SPECIFICATION Spec
CONSTANTS
    Process = {p1, p2, p3}
    MaxNumber = 3
    MaxRestores = 2
    RestoreWhen = "clean"
    Schema = Schema
    Damage = Damage
SYMMETRY Symmetry

    
PROPERTIES
    RestoredIsBackup
    ImplementsStore
