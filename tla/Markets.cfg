SPECIFICATION FairUpgradeSpec
CONSTANTS
  Markets <- MCMarkets
  Budget <- MCBudget
  Users = {lender, borrower}
  Borrower = borrower
  Amounts = {1, 2}
  Terms <- MCTerms
  Factors = {0, 65535, 65536}
  LiquidityRates = {0, 1}
  MaxReserves = 128
  Revisions = {1, 2, 3}
INVARIANTS
  TypeOK
  ListIsIndexed
  UserBitsMatch
  InactiveHoldsNoCash
  ConfiguredAsListed
  TokensServeTheirReserve
PROPERTIES
  DeploymentEnds
  OnlyLiquidityStopsConfiguring
  WordsAreSettings
  UpgradesInitialize
CHECK_DEADLOCK FALSE
