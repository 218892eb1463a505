CONSTANTS
  RAY = 4
  WAD_RAY_RATIO = 2
  PERCENTAGE_FACTOR = 2
  SECONDS_PER_YEAR = 1
  lender = lender
  builder = builder
  dao = dao
  Accounts <- TwoAccounts
  Amounts <- OneOrTwo
  Allowances <- JustOne
  Rates <- ZeroOrTwo
  TransferAmounts <- None
  Borrowers <- JustLender
  PauseValues <- None
  DepositRates <- Zero
  Configurations <- LendingWithFee
  InitialWallets <- OnlyLender
  Treasury = lender
  EmergencyAdmin = builder
  InitialBorrower = builder
  DeployedAt = 1
  MaxTime = 2
  MaxDebt = 2
  MaxAverageRate = 4
  MaxUint128 = 100
  MaxUint256 = 1000
  MaxScaledSupply = 2
  MaxCapital = 2
SPECIFICATION Spec
INVARIANTS
  PoolTypeOK
  ReserveClockFollowsDebt
  AccrualNeverReverts
  BorrowingBitMatchesDebt
PROPERTIES
  LoansAreAuthorised
CHECK_DEADLOCK FALSE
