----------------------------- MODULE DeploymentTasks -----------------------------
(***************************************************************************)
(* The hardhat tasks, and the migrations that run them in order.            *)
(***************************************************************************)
EXTENDS DeploymentScripts

-----------------------------------------------------------------------------
(* tasks/dev *)

devDeployMockTokens == deployAllMockTokens
devDeployMockProjects == deployAllMockProjects

devDeployAddressProvider ==
    deployLendingPoolAddressesProvider
    \o setAdmins("deployer", "deployer")
    \o deployLendingPoolAddressesProviderRegistry
    \o registerAddressesProvider("LendingPoolAddressesProviderRegistry")

\* The pool, the configurator and the helpers of the provider in the file.
deployPoolAndHelpers ==
    deployLendingPool \o setLendingPoolImpl
    \o deployLendingPoolConfigurator \o setLendingPoolConfiguratorImpl
    \o deployStableAndVariableTokensHelper
    \o deployATokensAndRatesHelper

devDeployLendingPool(m) ==
    <<getLendingPoolAddressesProvider>> \o deployPoolAndHelpers
    \o deployATokenImplementations(m) \o deployPTokenImplementations(m)

\* The dictionary of addresses starts from TokenContractId with empty
\* strings: a priced symbol without a mock token reaches setAssetPrice('').
devDeployOracles(m) ==
    getAllMockedTokens \o <<getLendingPoolAddressesProvider, getPoolAdmin>>
    \o deployPriceOracle \o <<Call("PriceOracle")>>
    \o setInitialAssetPricesInOracle(m, ToSet(Tokens))
    \o deployAllMockAggregators(m)
    \o getPairsTokenAggregator(ToSet(Tokens), ToSet(m.priced) \ {"ETH"})
    \o deployAaveOracle("PriceOracle")
    \o <<addressesProviderOracleCall>>
    \o deployLendingRateOracle
    \o <<addressesProviderOracleCall>>
    \o setInitialMarketRatesInRatesOracleByHelper(m.rated, ToSet(Tokens) \ {"USD"})

\* allProjectAddresses is keyed by the names of ProjectContracId.
devInitializeLendingPool(m) ==
    getAllMockedTokens \o getAllMockedProjects
    \o <<getLendingPoolAddressesProvider>>
    \o deployAaveProtocolDataProvider("LendingPoolAddressesProvider")
    \o <<getPoolAdmin>>
    \o LET named == [p \in {ProjectName(t) : t \in ToSet(Tokens)} |-> p]
       IN  initReservesByHelper2(m, ToSet(Tokens), named)
           \o configureReservesByHelper2(m, named)
    \o deployWalletBalancerProvider
    \o <<Save("AaveProtocolDataProvider", "AaveProtocolDataProvider")>>

devWalletBalanceProvider == deployWalletBalancerProvider

\* The data provider is given the address of one provider on one network.
devUiPoolDataProvider ==
    <<TakeConfigured("provider0x5B7c")>>
    \o deployAaveProtocolDataProvider("provider0x5B7c")
    \o deployUiPoolDataProviderV2V3

-----------------------------------------------------------------------------
(* tasks/pofi, which hardhat.config.ts does not load *)

pofiDeployAddressProvider == devDeployAddressProvider

pofiDeployLendingPool(m) ==
    <<getLendingPoolAddressesProvider>> \o deployPoolAndHelpers
    \o deployATokenImplementations(m)

pofiDeployOracles(m) == devDeployOracles(m)

pofiInitializeLendingPool(m) ==
    getAllMockedTokens \o <<getLendingPoolAddressesProvider>>
    \o deployAaveProtocolDataProvider("LendingPoolAddressesProvider")
    \o <<getPoolAdmin>>
    \o initReservesByHelper \o configureReservesByHelper
    \o deployLendingPoolCollateralManager
    \o <<addressesProviderOracleCall>>
    \o deployMockFlashLoanReceiver
    \o <<Save("MockFlashLoanReceiver", "MockFlashLoanReceiver")>>
    \o deployWalletBalancerProvider
    \o <<Save("AaveProtocolDataProvider", "AaveProtocolDataProvider"),
         Get("LendingPoolProxy", "LendingPoolAddressesProvider", "LENDING_POOL"),
         getContractAddressWithJsonFallback(m, "WETHGateway")>>
    \o authorizeWETHGateway("WETHGateway", "LendingPoolProxy")

-----------------------------------------------------------------------------
(* tasks/full, tasks/deployments *)

fullDeployAddressProviderRegistry(m) ==
    When(~notFalsyOrZeroAddress(m, "ProviderRegistry"), deployLendingPoolAddressesProviderRegistry)

addMarketToRegistry(m, deployRegistry) ==
    LET fresh == deployRegistry \/ ~notFalsyOrZeroAddress(m, "ProviderRegistry")
    IN  (IF fresh
         THEN fullDeployAddressProviderRegistry(m)
              \o <<Load("LendingPoolAddressesProviderRegistry"), getLendingPoolAddressesProvider>>
              \o registerAddressesProvider("LendingPoolAddressesProviderRegistry")
         ELSE IF ~OwnsRegistry THEN <<Throw>>
         ELSE <<TakeConfigured("ProviderRegistry"), getLendingPoolAddressesProvider>>
              \o registerAddressesProvider("ProviderRegistry"))

fullDeployAddressProvider(m, skipRegistry) ==
    deployLendingPoolAddressesProvider
    \o When(~skipRegistry,
            addMarketToRegistry(m, ~notFalsyOrZeroAddress(m, "ProviderRegistry")))
    \o setAdmins("deployer", "emergency")

\* A contract the market configures is reused, under the name of the new one.
reuseOrDeploy(m, c, deploy) == IF notFalsyOrZeroAddress(m, c) THEN <<TakeConfigured(c)>> ELSE deploy

\* The pool is paused, and the helpers are deployed while it is.
fullDeployLendingPool(m) ==
    <<getLendingPoolAddressesProvider>>
    \o reuseOrDeploy(m, "LendingPoolImpl",
                     deployLendingPool
                     \o <<Set("LendingPoolImpl", "provider", "LendingPoolAddressesProvider")>>)
    \o setLendingPoolImpl
    \o reuseOrDeploy(m, "LendingPoolConfiguratorImpl", deployLendingPoolConfigurator)
    \o setLendingPoolConfiguratorImpl
    \o <<Step("pause", "LendingPoolConfiguratorProxy", "emergency",
              {"LendingPoolConfiguratorProxy", "emergency"})>>
    \o deployStableAndVariableTokensHelper
    \o deployATokensAndRatesHelper
    \o deployATokenImplementations(m)

fullDeployOracles(m) ==
    <<getLendingPoolAddressesProvider>>
    \o getPairsTokenAggregator(m.assets \cup {"USD"}, m.feeds \cup {"ETH", "WETH"})
    \o reuseOrDeploy(m, "AaveOracle", <<TakeConfigured("FallbackOracle")>> \o deployAaveOracle("FallbackOracle"))
    \o <<Call("AaveOracle")>>
    \o reuseOrDeploy(m, "LendingRateOracle",
                     deployLendingRateOracle
                     \o setInitialMarketRatesInRatesOracleByHelper(getLendingRateOracles(m), m.assets))
    \o <<addressesProviderOracleCall, addressesProviderOracleCall>>

fullDataProvider ==
    <<getLendingPoolAddressesProvider>>
    \o deployAaveProtocolDataProvider("LendingPoolAddressesProvider")

fullDeployWethGateway(m) == getWrappedNativeTokenAddress(m) \o deployWETHGateway("WETHMocked")

\* The oracle is read from the provider before anything is done.
fullInitializeLendingPool(m) ==
    <<getLendingPoolAddressesProvider, Load("AaveProtocolDataProvider"), getPoolAdmin,
      addressesProviderOracleCall>>
    \o initReservesByHelper \o configureReservesByHelper
    \o reuseOrDeploy(m, "LendingPoolCollateralManager", deployLendingPoolCollateralManager)
    \o <<addressesProviderOracleCall,
         Load("AaveProtocolDataProvider"),
         Set("LendingPoolAddressesProvider", "DATA_PROVIDER", "AaveProtocolDataProvider")>>
    \o deployWalletBalancerProvider \o deployUiPoolDataProvider
    \o <<Get("LendingPoolProxy", "LendingPoolAddressesProvider", "LENDING_POOL"),
         getContractAddressWithJsonFallback(m, "WETHGateway")>>
    \o authorizeWETHGateway("WETHGateway", "LendingPoolProxy")

\* An adapter for a provider and a router given on the command line, which
\* the file does not record.
deployAdapter(c) ==
    <<TakeConfigured("provider"), TakeConfigured("router"), Deploy(c, [provider |-> "provider", router |-> "router"])>>

deployUniswapLiquiditySwapAdapter == deployAdapter("UniswapLiquiditySwapAdapter")
deployUniswapRepayAdapter == deployAdapter("UniswapRepayAdapter")
deployParaSwapLiquiditySwapAdapter == deployAdapter("ParaSwapLiquiditySwapAdapter")

\* The oracle's address by network is looked up, and then not used.
deployUiPoolDataProviderTask(supported) == IF supported THEN deployUiPoolDataProvider ELSE <<Throw>>

\* A new asset for the market of a provider written into the task.
deployNewAsset(m, s) ==
    IF s \notin ToSet(m.reserves) \cap m.assets THEN <<Throw>>
    ELSE <<TakeConfigured("marketProvider"), Get("LendingPoolProxy", "marketProvider", "LENDING_POOL")>>
         \o chooseATokenDeployment(m.aToken[s])
         \o deployInitialized("StableDebtToken") \o deployInitialized("VariableDebtToken")
         \o withSaveAndVerify("DefaultReserveInterestRateStrategy", [provider |-> "marketProvider"])

-----------------------------------------------------------------------------
(* tasks/migrations *)

aaveDev(m) ==
    <<devDeployMockTokens, devDeployAddressProvider, devDeployLendingPool(m),
      devDeployOracles(m), fullDeployWethGateway(m), devInitializeLendingPool(m)>>

aaveMainnet(m, skipRegistry) ==
    <<fullDeployAddressProvider(m, skipRegistry), fullDeployLendingPool(m), fullDeployOracles(m),
      fullDataProvider, fullDeployWethGateway(m), fullInitializeLendingPool(m)>>

ammMainnet(m, skipRegistry) == aaveMainnet(m, skipRegistry)

sidechainMainnet(m, skipRegistry) ==
    <<fullDeployAddressProviderRegistry(m)>> \o aaveMainnet(m, skipRegistry)

avalancheMainnet(m, skipRegistry) == sidechainMainnet(m, skipRegistry)

pofiDev == <<devUiPoolDataProvider>>

\* buildTestEnv, which the suite of test-pofi runs before its tests.
buildTestEnv(m) ==
    <<Each(Tokens, LAMBDA t : <<Deploy(ProjectName(t), NoLinks), Save("Project", ProjectName(t)),
                               Save(ProjectNAME(t), ProjectName(t))>>)
      \o deployAllMockTokens
      \o deployLendingPoolAddressesProvider
      \o setAdmins("deployer", "emergency")
      \o deployLendingPoolAddressesProviderRegistry
      \o registerAddressesProvider("LendingPoolAddressesProviderRegistry")
      \o deployPoolAndHelpers
      \o deployAaveProtocolDataProvider("LendingPoolAddressesProvider")
      \o deployATokenImplementations(m) \o deployPTokenImplementations(m)
      \o deployUiPoolDataProviderV2V3
      \o LET bySymbol == [t \in ToSet(Tokens) |-> ProjectName(t)]
         IN  initReservesByHelper2(m, ToSet(Tokens) \ {"USD"}, bySymbol)
             \o configureReservesByHelper2(m, bySymbol)
      \o deployWalletBalancerProvider>>
=============================================================================
