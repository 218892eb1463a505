CONSTANTS
  RAY = 1000
  WAD_RAY_RATIO = 10
  PERCENTAGE_FACTOR = 100
  SECONDS_PER_YEAR = 1
  lender = lender
  builder = builder
  gateway = gateway
  Accounts <- LenderBuilderGateway
  Amounts <- Sixty
  Allowances <- Sixty
  Rates <- BorrowRates
  TransferAmounts <- Sixty
  Borrowers <- Nothing
  PauseValues <- Nothing
  DepositRates <- DepositRate
  Configurations <- Open
  InitialWallets <- Wallets
  Gateway = gateway
  InitialEther <- Ethers
  EtherValues <- EtherValue
  Spenders <- GatewayAndBuilder
  ApprovedAmounts <- Sixty
  Permits <- SignedPermits
  MaxCalls = 4
  Curve <- MCCurve
  ReserveFactor = 10
  MarketRate = 30
  Treasury = builder
  EmergencyAdmin = builder
  InitialBorrower = builder
  DeployedAt = 1
  MaxTime = 3
  MaxDebt = 150
  MaxAverageRate = 1000
  MaxUint128 = 100000
  MaxUint256 = 1000000
  MAX_UINT_AMOUNT = 1000000
  MaxScaledSupply = 120
  MaxCapital = 300
SPECIFICATION GatewaySpec
INVARIANTS
  FormulasMatchViews
  StrategiesAgree
PROPERTIES
  GatewayPassesOn
  FormulasMatchTransactions
CHECK_DEADLOCK FALSE
