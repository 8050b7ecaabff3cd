CONSTANTS
    Types <- MCTypes
    Attributes <- MCAttributes
    Providers <- MCProviders
    ProviderOf <- MCProviderOf
    Fetchable <- MCFetchable
    Schemaless <- MCSchemaless
    Alphabetical <- MCAlphabetical
    Embedded <- MCEmbedded
    Answers <- MCAnswers
    Repositories <- MCRepositories
    Arguments <- MCArguments
SPECIFICATION Spec
INVARIANTS
    JudgedByThePinnedRelease
    FreeFindingsStay
    LossIsAnnounced
    PessimisticPinsThePrefix
CHECK_DEADLOCK FALSE
