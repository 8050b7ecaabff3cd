CONSTANTS
    Risks   <- MCRisks
    Trees   <- MCTrees
    Plans   <- MCPlans
    Configs <- MCConfigs
    Jobs    <- MCJobs
    Hosted  <- MCHosted
    Legacy  <- MCLegacy
SPECIFICATION Spec
INVARIANT ReportNotDiscarded
