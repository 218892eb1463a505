CONSTANTS
  RAY = 4
  WAD_RAY_RATIO = 2
  PERCENTAGE_FACTOR = 2
  SECONDS_PER_YEAR = 1
  lender = lender
  builder = builder
  dao = dao
  Accounts <- TwoAccounts
  Amounts <- OneOrTwo
  Allowances <- None
  Rates <- ZeroOrTwo
  TransferAmounts <- None
  Borrowers <- None
  PauseValues <- None
  DepositRates <- ZeroOrTwo
  Configurations <- WithFee
  InitialWallets <- Wallets
  Treasury = builder
  EmergencyAdmin = builder
  InitialBorrower = builder
  DeployedAt = 1
  MaxTime = 2
  MaxDebt = 1
  MaxAverageRate = 4
  MaxUint128 = 100
  MaxUint256 = 1000
  MaxScaledSupply = 2
  MaxCapital = 2
SPECIFICATION Spec
PROPERTIES
  EquityIsConserved
  DebtSpec
CHECK_DEADLOCK FALSE
