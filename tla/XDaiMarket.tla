------------------------------ MODULE XDaiMarket ------------------------------
(***************************************************************************)
(* The xDai market.                                                        *)
(* Rates in hundredths; rows in the order of the file (MarketRows).        *)
(***************************************************************************)
EXTENDS MarketRows

rateStrategyStableTwo == Curve("rateStrategyStableTwo", 80, 0, 4, 75, 2, 75)
rateStrategyStableThree == Curve("rateStrategyStableThree", 90, 0, 4, 60, 2, 60)
rateStrategyWETH == Curve("rateStrategyWETH", 65, 0, 8, 100, 10, 100)
rateStrategyVolatileOne == Curve("rateStrategyVolatileOne", 45, 0, 7, 300, 10, 300)
rateStrategyVolatileTwo == Curve("rateStrategyVolatileTwo", 65, 0, 8, 300, 10, 300)

strategyDAI ==
  Row(rateStrategyStableTwo, 7500, 8000, 10500, Borrowable, 18, 1000)
strategyUSDC ==
  Row(rateStrategyStableThree, 8000, 8500, 10500, Borrowable, 6, 1000)
strategyUSDT ==
  Row(rateStrategyStableThree, 8000, 8500, 10500, Borrowable, 6, 1000)
strategyWETH == Row(rateStrategyWETH, 8000, 8250, 10500, Borrowable, 18, 1000)
strategyWBTC ==
  Row(rateStrategyVolatileTwo, 7000, 7500, 11000, Borrowable, 8, 2000)
strategySTAKE ==
  Row(rateStrategyVolatileOne, 5000, 6500, 11000, Borrowable, 18, 2000)

ReservesConfig ==
  <<Listed("DAI", strategyDAI), Listed("USDC", strategyUSDC),
    Listed("USDT", strategyUSDT), Listed("WBTC", strategyWBTC),
    Listed("WETH", strategyWETH), Listed("STAKE", strategySTAKE)>>
===============================================================================
