SPECIFICATION DeskSpec
CONSTANTS
    Envs <- MCEnvs
    MaxClones = 2
    MaxReaders = 2
    MaxFlows = 3
    MaxManagers = 2
    MaxSearch = 2
    StallTime = 2
    MaxClock = 4
    MaxFreezes = 2
    MaxLoads = 2
INVARIANTS
    DeskTypeOK
    KeepsTheCopy
    CloneNoteIsTrue
    KeyIsRemembered
    VaultFollowsProfile
    NewestSearchShown
    OneDumpPerFreeze
PROPERTIES
    UnsavedEditsStay
    DeskComesBack
CHECK_DEADLOCK FALSE
