SPECIFICATION Spec
CONSTANTS
    Process = {p1, p2}
    MaxNumber = 3
    MaxRestores = 1
    RestoreWhen = "offline"
    Schema = Schema
    Damage = Damage
PROPERTIES RestoredIsBackup
