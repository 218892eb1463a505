------------------------------ MODULE AaveMarket ------------------------------
(***************************************************************************)
(* The Aave market: the whole list of the protocol it derives from.        *)
(* Rates in hundredths; rows in the order of the file (MarketRows).        *)
(***************************************************************************)
EXTENDS MarketRows

rateStrategyStableOne == Curve("rateStrategyStableOne", 80, 0, 4, 100, 0, 0)
rateStrategyStableTwo == Curve("rateStrategyStableTwo", 80, 0, 4, 75, 2, 75)
rateStrategyStableThree == Curve("rateStrategyStableThree", 90, 0, 4, 60, 2, 60)
rateStrategyWETH == Curve("rateStrategyWETH", 65, 0, 8, 100, 10, 100)
rateStrategyAAVE == Curve("rateStrategyAAVE", 45, 0, 0, 0, 0, 0)
rateStrategyVolatileOne == Curve("rateStrategyVolatileOne", 45, 0, 7, 300, 10, 300)
rateStrategyVolatileTwo == Curve("rateStrategyVolatileTwo", 65, 0, 8, 300, 10, 300)
rateStrategyVolatileThree == Curve("rateStrategyVolatileThree", 65, 0, 8, 300, 10, 300)
rateStrategyVolatileFour == Curve("rateStrategyVolatileFour", 45, 0, 7, 300, 0, 0)

strategyBUSD == Row(rateStrategyStableOne, 0, 0, 0, Borrowable, 18, 1000)
strategyDAI ==
  Row(rateStrategyStableTwo, 7500, 8000, 10500, BorrowableAtStable, 18, 1000)
strategySUSD == Row(rateStrategyStableOne, 0, 0, 0, Borrowable, 18, 2000)
strategyTUSD ==
  Row(rateStrategyStableTwo, 7500, 8000, 10500, BorrowableAtStable, 18, 1000)
strategyUSDC ==
  Row(rateStrategyStableThree, 8000, 8500, 10500, BorrowableAtStable, 6, 1000)
strategyUSDT ==
  Row(rateStrategyStableThree, 0, 0, 0, BorrowableAtStable, 6, 1000)
strategyAAVE == Row(rateStrategyAAVE, 5000, 6500, 11000, LendersOnly, 18, 0)
strategyBAT ==
  Row(rateStrategyVolatileOne, 7000, 7500, 11000, BorrowableAtStable, 18, 2000)
strategyENJ ==
  Row(rateStrategyVolatileOne, 5500, 6000, 11000, BorrowableAtStable, 18, 2000)
strategyWETH ==
  Row(rateStrategyWETH, 8000, 8250, 10500, BorrowableAtStable, 18, 1000)
strategyKNC ==
  Row(rateStrategyVolatileTwo, 6000, 6500, 11000, BorrowableAtStable, 18, 2000)
strategyLINK ==
  Row(rateStrategyVolatileOne, 7000, 7500, 11000, BorrowableAtStable, 18, 2000)
strategyMANA ==
  Row(rateStrategyVolatileOne, 6000, 6500, 11000, BorrowableAtStable, 18, 3500)
strategyMKR ==
  Row(rateStrategyVolatileOne, 6000, 6500, 11000, BorrowableAtStable, 18, 2000)
strategyREN ==
  Row(rateStrategyVolatileOne, 5500, 6000, 11000, BorrowableAtStable, 18, 2000)
strategySNX ==
  Row(rateStrategyVolatileThree, 1500, 4000, 11000, Borrowable, 18, 3500)
strategyUNI ==
  Row(rateStrategyVolatileThree, 6000, 6500, 11000, LendersOnly, 18, 2000)
strategyWBTC ==
  Row(rateStrategyVolatileTwo, 7000, 7500, 11000, BorrowableAtStable, 8, 2000)
strategyYFI ==
  Row(rateStrategyVolatileOne, 4000, 5500, 11500, BorrowableAtStable, 18, 2000)
strategyZRX ==
  Row(rateStrategyVolatileOne, 6000, 6500, 11000, BorrowableAtStable, 18, 2000)
strategyXSUSHI ==
  Row(rateStrategyVolatileFour, 2500, 4500, 11500, Borrowable, 18, 3500)

ReservesConfig ==
  <<Listed("AAVE", strategyAAVE), Listed("BAT", strategyBAT),
    Listed("BUSD", strategyBUSD), Listed("DAI", strategyDAI),
    Listed("ENJ", strategyENJ), Listed("KNC", strategyKNC),
    Listed("LINK", strategyLINK), Listed("MANA", strategyMANA),
    Listed("MKR", strategyMKR), Listed("REN", strategyREN),
    Listed("SNX", strategySNX), Listed("SUSD", strategySUSD),
    Listed("TUSD", strategyTUSD), Listed("UNI", strategyUNI),
    Listed("USDC", strategyUSDC), Listed("USDT", strategyUSDT),
    Listed("WBTC", strategyWBTC), Listed("WETH", strategyWETH),
    Listed("YFI", strategyYFI), Listed("ZRX", strategyZRX),
    Listed("xSUSHI", strategyXSUSHI)>>
===============================================================================
