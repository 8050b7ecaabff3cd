SPECIFICATION LanguageSpec
CONSTANTS
    Letters <- MCLetters
    Digits <- MCDigits
    Escapable = {"n"}
    CodePoints = {"1"}
    BeyondLast = {"FFFFFFFF"}
    Texts <- MCTexts
    MaxStall = 2
    NumberOf <- MCNumberOf
    Unknowns = {"u"}
    Outcomes <- MCOutcomes
INVARIANTS
    Nested
    NeverStuck
    TokensInOrder
    AcceptedFilesAreClosed
    CommentsStayOutside
    NothingIsGuessed
    ReferencesAreNamed
PROPERTIES
    EveryStepAdvances
    LexingEnds
CHECK_DEADLOCK FALSE
