SPECIFICATION Spec
CONSTANTS
    MaxU64 = 20
    MaxArtifacts = 3
    MaxTotal = 6
    MaxWidths = 2
    Lower <- MCLower
    Unsafe <- MCUnsafe
    Catalogs <- MCCatalogs
    Names <- MCNames
    Options <- MCOptions
    Elsewhere <- MCElsewhere
    MaxJobs = 2
    Thread = {t1, t2}
    Files <- MCFiles
    Curated <- MCCurated
    Extension <- MCExtension
    Requests <- MCRequests
    Epochs = 5
    MaxTransitions = 3
    MaxEmbeds = 1
    MaxAlterations = 2
INVARIANTS
    DownloadIsBounded
    StagingNeverCollides
    LatestTransitionWins
    LoadedIsIntact
    OutputIsOfOneModel
    PreflightPredictsRun
SYMMETRY Symmetry
CHECK_DEADLOCK FALSE
