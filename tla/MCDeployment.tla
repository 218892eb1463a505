------------------------------ MODULE MCDeployment ------------------------------
(***************************************************************************)
(* Small markets for the migrations: two tokens and the quote USD, of which *)
(* two are reserves that share a strategy in one market and not in the      *)
(* other.                                                                   *)
(***************************************************************************)
EXTENDS DeploymentOutline, DeploymentTasks

MCNames == STRING
MCTokens == <<"DAI", "USDC", "USD">>

\* Pofi lists mock tokens only; Aave prices and rates symbols that have none.
Pofi == [reserves |-> <<"DAI", "USDC">>,
         strategy |-> [DAI |-> "rateStrategyStableOne", USDC |-> "rateStrategyStableOne"],
         unsecured |-> {"USDC"},
         aToken |-> [DAI |-> "AToken", USDC |-> "AToken"],
         pToken |-> [DAI |-> "PToken", USDC |-> "PToken"],
         assets |-> {"DAI", "USDC"}, feeds |-> {"DAI", "USDC", "USD"},
         priced |-> <<"DAI", "USDC", "USD">>, rated |-> <<"DAI", "USDC">>, preset |-> {}]

Aave == [Pofi EXCEPT !.priced = <<"DAI", "AAVE", "USD">>, !.rated = <<"WETH", "DAI">>]

AaveMain == [Aave EXCEPT !.preset = {"ProviderRegistry", "AaveOracle", "LendingPoolImpl",
                                     "WETHMocked", "WETHGateway"}]

MCOwned == {"ProviderRegistry", "AaveOracle", "WETHGateway"}

MCMarkets == [buildTestEnv |-> {"PROJECTDAI", "PROJECTUSDC"}]

MCMigrations == {"buildTestEnv", "aaveDev", "pofiListed", "pofiTasks", "pofiOracles", "pofiDev",
                 "aaveMainnet", "sidechainMainnet", "adapters"}

\* pofiListed and pofiTasks run the tasks of tasks/dev and of tasks/pofi in
\* the order the comments of pofi.dev.ts list them.
MCProgram(name) ==
    CASE name = "buildTestEnv" -> buildTestEnv(Pofi)
      [] name = "aaveDev" -> aaveDev(Aave)
      [] name = "pofiListed" ->
           <<devDeployMockTokens, devDeployMockProjects, devDeployAddressProvider,
             devDeployLendingPool(Pofi), devInitializeLendingPool(Pofi)>>
      [] name = "pofiTasks" ->
           <<devDeployMockTokens, pofiDeployAddressProvider, pofiDeployLendingPool(Pofi),
             pofiInitializeLendingPool(Pofi)>>
      [] name = "pofiOracles" ->
           <<devDeployMockTokens, pofiDeployAddressProvider, pofiDeployOracles(Pofi)>>
      [] name = "pofiDev" -> pofiDev
      [] name = "aaveMainnet" -> aaveMainnet(AaveMain, FALSE)
      [] name = "sidechainMainnet" -> sidechainMainnet(Aave, FALSE)
      [] name = "adapters" ->
           <<deployUniswapLiquiditySwapAdapter, deployUniswapRepayAdapter,
             deployParaSwapLiquiditySwapAdapter, deployNewAsset(Pofi, "DAI"),
             devWalletBalanceProvider, deployUiPoolDataProviderTask(TRUE)>>

MCSteps == UNION {UNION {ToSet(MCProgram(m)[t]) : t \in DOMAIN MCProgram(m)} : m \in MCMigrations}

OnlyAaveDev == {"aaveDev"}

-----------------------------------------------------------------------------
(* The outlines of the programs, which the proofs assume *)

\* What is known along the steps of a task that starts with known.
Outlined(known, steps) ==
    FoldLeft(LAMBDA done, s : Append(done, Onward(Last(done), s)), <<known>>, steps)

\* Each task run by hand, and all of them in order.
MCAlone == [m \in MCMigrations |->
               [t \in DOMAIN MCProgram(m) |-> Outlined(Blank, MCProgram(m)[t])]]

MCInOrder ==
    [m \in MCMigrations |->
        FoldLeft(LAMBDA done, steps :
                    Append(done, Outlined(IF done = <<>> THEN Blank ELSE NextTask(Last(Last(done))),
                                          steps)),
                 <<>>, MCProgram(m))]

MCOutline(m, first, t) == IF first = t THEN MCAlone[m][t] ELSE MCInOrder[m][t]
=============================================================================
