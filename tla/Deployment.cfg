SPECIFICATION FairSpec
CONSTANTS
    Names <- MCNames
    Tokens <- MCTokens
    RatesChunk = 1
    EnableChunk = 1
    OwnsRegistry = TRUE
    Migrations <- MCMigrations
    Program <- MCProgram
    Outline <- MCOutline
    Steps <- MCSteps
    Markets <- MCMarkets
    Owned <- MCOwned
    MaxCrashes = 1
    MaxReruns = 1
INVARIANTS
    TypeOK
    NothingDangles
    ProxiesPointBack
    FinishedMarketIsConnected
    AdminLentToOwnHelper
PROPERTIES
    MarketIsEventuallyDeployed
    AdminComesBack
CHECK_DEADLOCK FALSE
