---------------------------- MODULE AvalancheMarket ---------------------------
(***************************************************************************)
(* The Avalanche market.                                                   *)
(* Rates in hundredths; rows in the order of the file (MarketRows).        *)
(***************************************************************************)
EXTENDS MarketRows

rateStrategyVolatileOne == Curve("rateStrategyVolatileOne", 45, 0, 7, 300, 0, 0)
rateStrategyStableOne == Curve("rateStrategyStableOne", 80, 0, 4, 75, 2, 75)

strategyWAVAX ==
  Row(rateStrategyVolatileOne, 5000, 6500, 11000, Borrowable, 18, 1500)
strategyWETH ==
  Row(rateStrategyVolatileOne, 8000, 8250, 10500, Borrowable, 18, 1000)
strategyWBTC ==
  Row(rateStrategyVolatileOne, 6000, 7500, 10500, Borrowable, 8, 1000)
strategyAAVE ==
  Row(rateStrategyVolatileOne, 4000, 6500, 11000, LendersOnly, 18, 2000)
strategyDAI ==
  Row(rateStrategyStableOne, 7500, 8000, 10500, Borrowable, 18, 1000)
strategyUSDT == Row(rateStrategyStableOne, 0, 0, 0, Borrowable, 6, 1000)
strategyUSDC ==
  Row(rateStrategyStableOne, 7500, 8000, 10500, Borrowable, 6, 1000)

ReservesConfig ==
  <<Listed("WETH", strategyWETH), Listed("DAI", strategyDAI),
    Listed("USDT", strategyUSDT), Listed("USDC", strategyUSDC),
    Listed("AAVE", strategyAAVE), Listed("WBTC", strategyWBTC),
    Listed("WAVAX", strategyWAVAX)>>
===============================================================================
