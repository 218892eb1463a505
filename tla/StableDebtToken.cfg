CONSTANTS
  RAY = 4
  WAD_RAY_RATIO = 2
  PERCENTAGE_FACTOR = 2
  SECONDS_PER_YEAR = 1
  alice = alice
  bob = bob
  Accounts <- MCAccounts
  Amounts <- MCAmounts
  Allowances <- MCAllowances
  Rates <- MCRates
  DeployedAt = 1
  MaxTime = 3
  MaxDebt = 3
  MaxAverageRate = 4
SYMMETRY Borrowers
SPECIFICATION DebtSpec
INVARIANTS
  DebtTypeOK
  DebtClocksOrdered
  SettledDebtLeavesNoTerms
  NoSupplyNoAverageRate
PROPERTY DebtAndSupplyMoveTogether
CHECK_DEADLOCK FALSE
