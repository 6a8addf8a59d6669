SPECIFICATION Spec
CONSTANTS
    Envs <- MCEnvs
    MaxPublish = 2
    MaxLayers = 2
INVARIANTS
    TypeOK
    PublishedIsImported
    ClosedLeavesNoImport
    ToldBeforeNext
    ExportIsRemoved
PROPERTIES
    QuietAfterClose
    DialogComesBack
    AlgorithmEnds
    KeepsPromise
CHECK_DEADLOCK FALSE
