SPECIFICATION FairSpec
CHECK_DEADLOCK FALSE
CONSTANTS
    Programs <- MCPrograms
    Window = 1
    MaxOperations = 2
INVARIANT ResultIsWhole
INVARIANT ResultSparesConnection
INVARIANT UploadOutcomeIsTrue
PROPERTY ContentSurvives
PROPERTY EveryOperationEnds
