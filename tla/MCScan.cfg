CONSTANTS
    Risks   <- MCRisks
    Trees   <- MCTrees
    Plans   <- MCPlans
    Configs <- MCConfigs
    Jobs    <- MCJobs
    Hosted  <- MCHosted
    Legacy  <- MCLegacy
SPECIFICATION Spec
INVARIANTS
    TypeOK
    NoSilentLoss
    ExitIsVerdict
    EveryChannelShowsTheCause
    BaselineIsExact
    RecordedIsVerdict
PROPERTY ImplementsGate
