CONSTANTS
  RAY = 4
  WAD_RAY_RATIO = 2
  PERCENTAGE_FACTOR = 2
  SECONDS_PER_YEAR = 1
  lender = lender
  builder = builder
  dao = dao
  Accounts <- TwoAccounts
  Amounts <- OneOrTwo
  Allowances <- None
  Rates <- Zero
  TransferAmounts <- None
  Borrowers <- None
  PauseValues <- None
  DepositRates <- ZeroOrTwo
  Configurations <- Savings
  InitialWallets <- Wallets
  Treasury = builder
  EmergencyAdmin = lender
  InitialBorrower = builder
  DeployedAt = 1
  MaxTime = 3
  MaxDebt = 4
  MaxAverageRate = 4
  MaxUint128 = 100
  MaxUint256 = 1000
  MaxScaledSupply = 4
  MaxCapital = 4
SPECIFICATION Spec
INVARIANTS
  WholeBalanceIsWholeShare
  CapitalHolderCanLeave
PROPERTIES
  IncomeRepricedOnlyByRates
  InterestWithdrawalKeepsCapital
  CapitalFollowsPayments
CHECK_DEADLOCK FALSE
