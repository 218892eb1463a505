------------------------------ MODULE PofiMarket ------------------------------
(***************************************************************************)
(* The Pofi market: six stablecoins, lent to projects by the administrator.*)
(* Rates in hundredths; rows in the order of the file (MarketRows).        *)
(***************************************************************************)
EXTENDS MarketRows

rateStrategyStableOne == Curve("rateStrategyStableOne", 80, 0, 4, 100, 0, 0)
rateStrategyStableTwo == Curve("rateStrategyStableTwo", 80, 0, 4, 75, 2, 75)
rateStrategyStableThree == Curve("rateStrategyStableThree", 90, 0, 4, 60, 2, 60)

strategyBUSD == Row(rateStrategyStableOne, 0, 0, 0, LendersOnly, 18, 1000)
strategyDAI ==
  Row(rateStrategyStableTwo, 7500, 8000, 10500, LendersOnly, 18, 1000)
strategySUSD == Row(rateStrategyStableOne, 0, 0, 0, LendersOnly, 18, 2000)
strategyTUSD ==
  Row(rateStrategyStableTwo, 7500, 8000, 10500, LendersOnly, 18, 1000)
strategyUSDC ==
  Row(rateStrategyStableThree, 8000, 8500, 10500, LendersOnly, 6, 1000)
strategyUSDT == Row(rateStrategyStableThree, 0, 0, 0, LendersOnly, 6, 1000)

ReservesConfig ==
  <<Listed("BUSD", strategyBUSD), Listed("DAI", strategyDAI),
    Listed("SUSD", strategySUSD), Listed("TUSD", strategyTUSD),
    Listed("USDC", strategyUSDC), Listed("USDT", strategyUSDT)>>
===============================================================================
