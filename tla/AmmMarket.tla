------------------------------- MODULE AmmMarket ------------------------------
(***************************************************************************)
(* The Amm market: five tokens and the liquidity shares of sixteen pairs.  *)
(* Rates in hundredths; rows in the order of the file (MarketRows).        *)
(***************************************************************************)
EXTENDS MarketRows

rateStrategyAmmBase == Curve("rateStrategyAmmBase", 45, 3, 10, 300, 10, 300)
rateStrategyBaseOne == Curve("rateStrategyBaseOne", 65, 0, 8, 100, 10, 100)
rateStrategyStable == Curve("rateStrategyStable", 80, 0, 4, 75, 2, 60)

strategyWETH ==
  Row(rateStrategyBaseOne, 8000, 8250, 10500, Borrowable, 18, 1000)
strategyWBTC ==
  Row(rateStrategyBaseOne, 7000, 7500, 11000, Borrowable, 8, 2000)
strategyDAI == Row(rateStrategyStable, 7500, 8000, 10500, Borrowable, 18, 1000)
strategyUSDC == Row(rateStrategyStable, 8000, 8500, 10500, Borrowable, 6, 1000)
strategyUSDT == Row(rateStrategyStable, -1, 8500, 10500, Borrowable, 6, 1000)
strategyDAIWETH ==
  Row(rateStrategyAmmBase, 6000, 7000, 11500, Borrowable, 18, 1000)
strategyWBTCWETH ==
  Row(rateStrategyAmmBase, 6000, 7000, 11500, Borrowable, 18, 1500)
strategyAAVEWETH ==
  Row(rateStrategyAmmBase, 6000, 7000, 11500, Borrowable, 18, 500)
strategyBATWETH ==
  Row(rateStrategyAmmBase, 6000, 7000, 11500, Borrowable, 18, 1500)
strategyDAIUSDC ==
  Row(rateStrategyAmmBase, 6000, 7000, 11500, Borrowable, 18, 1000)
strategyCRVWETH ==
  Row(rateStrategyAmmBase, 5000, 6000, 11500, Borrowable, 18, 1500)
strategyLINKWETH ==
  Row(rateStrategyAmmBase, 6000, 7000, 11500, Borrowable, 18, 1500)
strategyMKRWETH ==
  Row(rateStrategyAmmBase, 6000, 7000, 11500, Borrowable, 18, 1500)
strategyRENWETH ==
  Row(rateStrategyAmmBase, 6000, 7000, 11500, Borrowable, 18, 1500)
strategySNXWETH ==
  Row(rateStrategyAmmBase, 4000, 6000, 11500, Borrowable, 18, 2000)
strategyUNIWETH ==
  Row(rateStrategyAmmBase, 6000, 7000, 11500, Borrowable, 18, 1500)
strategyUSDCWETH ==
  Row(rateStrategyAmmBase, 6000, 7000, 11500, Borrowable, 18, 1000)
strategyWBTCUSDC ==
  Row(rateStrategyAmmBase, 6000, 7000, 11500, Borrowable, 18, 1500)
strategyYFIWETH ==
  Row(rateStrategyAmmBase, 5000, 6000, 11500, Borrowable, 18, 1500)
strategyBALWETH ==
  Row(rateStrategyAmmBase, 6000, 7000, 11500, Borrowable, 18, 1500)

ReservesConfig ==
  <<Listed("WETH", strategyWETH), Listed("DAI", strategyDAI),
    Listed("USDC", strategyUSDC), Listed("USDT", strategyUSDT),
    Listed("WBTC", strategyWBTC), Listed("UniDAIWETH", strategyDAIWETH),
    Listed("UniWBTCWETH", strategyWBTCWETH),
    Listed("UniAAVEWETH", strategyAAVEWETH),
    Listed("UniBATWETH", strategyBATWETH),
    Listed("UniDAIUSDC", strategyDAIUSDC),
    Listed("UniCRVWETH", strategyCRVWETH),
    Listed("UniLINKWETH", strategyLINKWETH),
    Listed("UniMKRWETH", strategyMKRWETH),
    Listed("UniRENWETH", strategyRENWETH),
    Listed("UniSNXWETH", strategySNXWETH),
    Listed("UniUNIWETH", strategyUNIWETH),
    Listed("UniUSDCWETH", strategyUSDCWETH),
    Listed("UniWBTCUSDC", strategyWBTCUSDC),
    Listed("UniYFIWETH", strategyYFIWETH),
    Listed("BptWBTCWETH", strategyWBTCWETH),
    Listed("BptBALWETH", strategyBALWETH)>>
===============================================================================
