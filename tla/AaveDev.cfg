SPECIFICATION FairSpec
CONSTANTS
    Names <- MCNames
    Tokens <- MCTokens
    RatesChunk = 1
    EnableChunk = 1
    OwnsRegistry = TRUE
    Migrations <- OnlyAaveDev
    Program <- MCProgram
    Outline <- MCOutline
    Steps <- MCSteps
    Markets <- MCMarkets
    Owned <- MCOwned
    MaxCrashes = 1
    MaxReruns = 1
PROPERTIES
    MigrationFinishes
CHECK_DEADLOCK FALSE
