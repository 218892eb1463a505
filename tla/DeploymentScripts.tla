---------------------------- MODULE DeploymentScripts ----------------------------
(***************************************************************************)
(* What the TypeScript tasks do, in order: every task, deployment helper    *)
(* and contract getter is the sequence of steps it takes, where a step is   *)
(* one transaction or one access of deployed-contracts.json.  A step names  *)
(* the task's local variables it reads; the module Deployment runs it.      *)
(*                                                                         *)
(* A market m is what loadPoolConfig returns for the network, reduced to    *)
(* what the tasks branch on:                                                *)
(*   reserves  symbols of ReservesConfig, in order                          *)
(*   strategy  symbol |-> name of its interest rate strategy                *)
(*   unsecured symbols whose liquidation threshold is zero                  *)
(*   aToken, pToken    symbol |-> the implementation its row asks for       *)
(*   assets    symbols of ReserveAssets on the network                      *)
(*   feeds     symbols of ChainlinkAggregator on the network                *)
(*   priced    symbols of Mocks.AllAssetsInitialPrices, in order            *)
(*   rated     symbols of LendingRateOracleRatesCommon, in order            *)
(*   preset    contracts whose address the configuration already gives      *)
(***************************************************************************)
EXTENDS Naturals, Sequences, SequencesExt

CONSTANTS Tokens,          \* symbols of TokenContractId2, in order
          RatesChunk,      \* rates sent to the oracle in one transaction
          EnableChunk,     \* reserves configured in one transaction
          OwnsRegistry     \* the first signer is ProviderRegistryOwner

(***************************************************************************)
(* Steps.  "uses" are the local variables a step reads: one that is not     *)
(* bound is undefined, and the call throws before anything is sent.         *)
(***************************************************************************)
Step(op, of, name, uses) == [op |-> op, of |-> of, name |-> name, uses |-> uses]

\* A constructor that is waited for: links gives the fields it stores, from
\* local variables.
Deploy(c, links) ==
    [op |-> "deploy", of |-> c, name |-> c, links |-> links,
     uses |-> {links[f] : f \in DOMAIN links}]

\* A deployment that is only sent, of a contract linked to libraries.
Send(c, libraries) == Step("send", c, c, libraries)

\* waitForTx, of a deployment sent before.
Await(c) == Step("wait", c, c, {c})

\* registerContractInJsonDb, insertContractAddressInDb and its raw variant.
Save(key, v) == Step("save", v, key, {v})

\* A getter without an argument connects to the address the file holds.
Load(key) == Step("load", key, key, {})

\* The configuration's address of a contract.
TakeConfigured(c) == Step("given", c, c, {})

\* addressesProvider.getLendingPool() and the like, into a local variable.
Get(v, of, field) == Step("get", of, field, {of}) @@ [var |-> v]

\* A setter only the contract's owner may call, or the initializer the deployer
\* calls on a contract of its own.
Set(of, field, v) == Step("set", of, field, {of, v}) @@ [value |-> v]

\* An owner-only call whose effect no other step depends on.
Call(of) == Step("call", of, of, {of})

Throw == Step("throw", "none", "none", {})

Each(s, F(_)) == FlattenSeq([i \in DOMAIN s |-> F(s[i])])

\* The steps of s when the condition holds, none otherwise.
When(c, s) == IF c THEN s ELSE <<>>

NoLinks == [f \in {} |-> "none"]

chunk(s, n) ==
    [i \in 1..((Len(s) + n - 1) \div n) |->
        SubSeq(s, (i - 1) * n + 1, IF i * n < Len(s) THEN i * n ELSE Len(s))]

notFalsyOrZeroAddress(m, c) == c \in m.preset

-----------------------------------------------------------------------------
(* helpers/contracts-helpers.ts, helpers/contracts-deployments.ts *)

withSaveAndVerify(c, links) == <<Deploy(c, links), Save(c, c)>>

getContractAddressWithJsonFallback(m, c) ==
    IF notFalsyOrZeroAddress(m, c) THEN TakeConfigured(c) ELSE Load(c)

deployLendingPoolAddressesProvider == withSaveAndVerify("LendingPoolAddressesProvider", NoLinks)

deployLendingPoolAddressesProviderRegistry ==
    withSaveAndVerify("LendingPoolAddressesProviderRegistry", NoLinks)

\* An implementation is filed under its own key as soon as it is sent, and
\* under its contract's when it is mined.
sendSaveAndVerify(impl, libraries, c) ==
    <<Send(impl, libraries), Save(impl, impl), Await(impl), Save(c, impl)>>

deployLendingPoolConfigurator ==
    sendSaveAndVerify("LendingPoolConfiguratorImpl", {}, "LendingPoolConfigurator")

deployAaveLibraries ==
    withSaveAndVerify("ReserveLogic", NoLinks)
    \o withSaveAndVerify("GenericLogic", [reserveLogic |-> "ReserveLogic"])
    \o withSaveAndVerify("ValidationLogic",
                         [reserveLogic |-> "ReserveLogic", genericLogic |-> "GenericLogic"])

deployLendingPool ==
    deployAaveLibraries
    \o sendSaveAndVerify("LendingPoolImpl", {"ValidationLogic", "ReserveLogic"}, "LendingPool")

deployPriceOracle == withSaveAndVerify("PriceOracle", NoLinks)
deployLendingRateOracle == withSaveAndVerify("LendingRateOracle", NoLinks)
deployMockAggregator == withSaveAndVerify("MockAggregator", NoLinks)
deployAaveOracle(fallback) == withSaveAndVerify("AaveOracle", [fallbackOracle |-> fallback])

deployLendingPoolCollateralManager ==
    sendSaveAndVerify("LendingPoolCollateralManagerImpl", {}, "LendingPoolCollateralManager")

deployMockFlashLoanReceiver ==
    withSaveAndVerify("MockFlashLoanReceiver", [provider |-> "LendingPoolAddressesProvider"])

deployWalletBalancerProvider == withSaveAndVerify("WalletBalanceProvider", NoLinks)

deployAaveProtocolDataProvider(provider) ==
    withSaveAndVerify("AaveProtocolDataProvider", [provider |-> provider])

deployUiPoolDataProvider == withSaveAndVerify("UiPoolDataProvider", NoLinks)
deployUiPoolDataProviderV2V3 == withSaveAndVerify("UiPoolDataProvider", NoLinks)

deployRateStrategy(s) ==
    <<Deploy(s, [provider |-> "LendingPoolAddressesProvider"]),
      Save("DefaultReserveInterestRateStrategy", s)>>

\* A debt token or aToken that is initialised in place, outside a proxy.
deployInitialized(c) ==
    withSaveAndVerify(c, NoLinks) \o <<Set(c, "pool", "LendingPoolProxy")>>

deployGenericATokenImpl == withSaveAndVerify("AToken", NoLinks)
deployGenericPTokenImpl == withSaveAndVerify("PToken", NoLinks)
deployDelegationAwareATokenImpl == withSaveAndVerify("DelegationAwareAToken", NoLinks)
deployGenericStableDebtToken == withSaveAndVerify("StableDebtToken", NoLinks)
deployGenericVariableDebtToken == withSaveAndVerify("VariableDebtToken", NoLinks)

chooseATokenDeployment(c) ==
    CASE c = "AToken" -> deployGenericATokenImpl
      [] c = "DelegationAwareAToken" -> deployDelegationAwareATokenImpl
      [] OTHER -> <<Throw>>

choosePTokenDeployment(c) ==
    CASE c = "PToken" -> deployGenericPTokenImpl
      [] c = "DelegationAwareAToken" -> deployDelegationAwareATokenImpl
      [] OTHER -> <<Throw>>

deployATokenImplementations(m) ==
    Each(SetToSeq(Range(m.aToken)), LAMBDA c : When(~notFalsyOrZeroAddress(m, c), chooseATokenDeployment(c)))
    \o When(~notFalsyOrZeroAddress(m, "StableDebtTokenImplementation"), deployGenericStableDebtToken)
    \o When(~notFalsyOrZeroAddress(m, "VariableDebtTokenImplementation"), deployGenericVariableDebtToken)

deployPTokenImplementations(m) ==
    Each(SetToSeq(Range(m.pToken)), LAMBDA c : When(~notFalsyOrZeroAddress(m, c), choosePTokenDeployment(c)))

deployAllMockTokens ==
    Each(Tokens, LAMBDA t : <<Deploy(t, NoLinks), Save("MintableERC20", t), Save(t, t)>>)

\* The name a project is deployed and filed under; the tests file it in capitals.
ProjectName(t) == "Project" \o t
ProjectNAME(t) == "PROJECT" \o t

deployAllMockProjects ==
    Each(Tokens, LAMBDA t : <<Deploy(ProjectName(t), NoLinks), Save("Project", ProjectName(t)),
                              Save(ProjectName(t), ProjectName(t))>>)

deployStableAndVariableTokensHelper ==
    withSaveAndVerify("StableAndVariableTokensHelper",
                      [pool |-> "LendingPoolProxy", provider |-> "LendingPoolAddressesProvider"])

deployATokensAndRatesHelper ==
    withSaveAndVerify("ATokensAndRatesHelper",
                      [pool |-> "LendingPoolProxy", provider |-> "LendingPoolAddressesProvider",
                       configurator |-> "LendingPoolConfiguratorProxy"])

deployWETHGateway(weth) == withSaveAndVerify("WETHGateway", [weth |-> weth])

authorizeWETHGateway(gateway, pool) ==
    <<[Call(gateway) EXCEPT !.uses = {gateway, pool}]>>

deployWETHMocked == withSaveAndVerify("WETHMocked", NoLinks)

-----------------------------------------------------------------------------
(* helpers/contracts-getters.ts, helpers/configuration.ts *)

getLendingPoolAddressesProvider == Load("LendingPoolAddressesProvider")
getAllMockedTokens == [i \in DOMAIN Tokens |-> Load(Tokens[i])]
getAllMockedProjects == [i \in DOMAIN Tokens |-> Load(ProjectName(Tokens[i]))]

\* The pairing indexes the feeds by symbol: a symbol without one throws.
getPairsTokenAggregator(symbols, feeds) == When(~(symbols \subseteq feeds), <<Throw>>)

getWrappedNativeTokenAddress(m) ==
    IF notFalsyOrZeroAddress(m, "WETHMocked") THEN <<TakeConfigured("WETHMocked")>> ELSE deployWETHMocked

getLendingRateOracles(m) == SelectSeq(m.rated, LAMBDA s : s \in m.assets)

-----------------------------------------------------------------------------
(* helpers/oracles-helpers.ts *)

setInitialAssetPricesInOracle(m, known) ==
    Each(m.priced, LAMBDA s : IF s \in known THEN <<Call("PriceOracle")>> ELSE <<Throw>>)

deployAllMockAggregators(m) == Each(m.priced, LAMBDA s : When(s # "ETH", deployMockAggregator))

\* A rated symbol the addresses do not hold makes the destructuring throw,
\* before the oracle changes hands.
setInitialMarketRatesInRatesOracleByHelper(rated, known) ==
    IF \E i \in DOMAIN rated : rated[i] \notin known
    THEN <<Load("StableAndVariableTokensHelper"), Throw>>
    ELSE <<Load("StableAndVariableTokensHelper"),
           Set("LendingRateOracle", "owner", "StableAndVariableTokensHelper")>>
         \o [i \in DOMAIN chunk(rated, RatesChunk) |->
               Step("rates", "StableAndVariableTokensHelper", "LendingRateOracle",
                    {"StableAndVariableTokensHelper", "LendingRateOracle"})]
         \o <<Step("giveBack", "StableAndVariableTokensHelper", "LendingRateOracle",
                   {"StableAndVariableTokensHelper", "LendingRateOracle", "admin"})>>

-----------------------------------------------------------------------------
(* helpers/init-helpers.ts *)

\* initReservesByHelper and configureReservesByHelper, whose bodies are
\* commented out: what is left looks two contracts up.
initReservesByHelper == <<getLendingPoolAddressesProvider>>
configureReservesByHelper == <<getLendingPoolAddressesProvider, Load("ATokensAndRatesHelper")>>

\* The strategy of the reserve at i was not met before it.
FirstOfStrategy(m, listed, i) ==
    \A j \in 1..(i - 1) : m.strategy[listed[j]] # m.strategy[listed[i]]

\* One reserve's parameters: its strategy on first use, and the implementations.
reserveParams(m, listed, i, impls) ==
    LET s == m.strategy[listed[i]]
    IN  When(FirstOfStrategy(m, listed, i), deployRateStrategy(s) \o <<Save(s, s)>>)
        \o [k \in DOMAIN impls |-> getContractAddressWithJsonFallback(m, impls[k])]

initReservesByHelper2(m, tokens, projects) ==
    LET listed == SelectSeq(m.reserves, LAMBDA s : s \in tokens)
        project(s) == IF s \in DOMAIN projects THEN projects[s] ELSE "undefined"
    IN  <<getLendingPoolAddressesProvider>>
        \o FlattenSeq([i \in DOMAIN listed |->
               reserveParams(m, listed, i,
                             <<m.aToken[listed[i]], m.pToken[listed[i]],
                               "StableDebtToken", "VariableDebtToken">>)])
        \o <<Load("LendingPoolConfigurator")>>
        \o [i \in DOMAIN listed |->
               Step("initReserve", "LendingPoolConfigurator", project(listed[i]),
                    {"LendingPoolConfigurator", project(listed[i]), listed[i],
                     m.strategy[listed[i]]})
               @@ [asset |-> listed[i], strategy |-> m.strategy[listed[i]]]]

configureReservesByHelper2(m, projects) ==
    LET listed == SelectSeq(m.reserves, LAMBDA s : s \in DOMAIN projects)
        configure(part) ==
            Step("configure", "ATokensAndRatesHelper", "ATokensAndRatesHelper",
                 {"ATokensAndRatesHelper"} \cup {projects[s] : s \in ToSet(part)})
            @@ [projects |-> {projects[s] : s \in ToSet(part)},
                unsecured |-> {projects[s] : s \in ToSet(part) \cap m.unsecured}]
    IN  <<getLendingPoolAddressesProvider, Load("ATokensAndRatesHelper")>>
        \o When(listed # <<>>,
                <<Set("LendingPoolAddressesProvider", "POOL_ADMIN", "ATokensAndRatesHelper")>>
                \o [i \in DOMAIN chunk(listed, EnableChunk) |-> configure(chunk(listed, EnableChunk)[i])]
                \o <<Set("LendingPoolAddressesProvider", "POOL_ADMIN", "admin")>>)

-----------------------------------------------------------------------------
(* Steps several tasks share *)

setAdmins(pool, emergency) ==
    <<Set("LendingPoolAddressesProvider", "POOL_ADMIN", pool),
      Set("LendingPoolAddressesProvider", "EMERGENCY_ADMIN", emergency)>>

registerAddressesProvider(registry) ==
    <<Step("register", registry, "LendingPoolAddressesProvider",
           {registry, "LendingPoolAddressesProvider"})>>

\* The pool's implementation is set, then its proxy replaces it in the file.
setLendingPoolImpl ==
    <<Step("setPool", "LendingPoolAddressesProvider", "LendingPoolImpl",
           {"LendingPoolAddressesProvider", "LendingPoolImpl"}),
      Get("LendingPoolProxy", "LendingPoolAddressesProvider", "LENDING_POOL"),
      Save("LendingPool", "LendingPoolProxy")>>

setLendingPoolConfiguratorImpl ==
    <<Step("setConfigurator", "LendingPoolAddressesProvider", "LendingPoolConfiguratorImpl",
           {"LendingPoolAddressesProvider", "LendingPoolConfiguratorImpl"}),
      Get("LendingPoolConfiguratorProxy", "LendingPoolAddressesProvider",
          "LENDING_POOL_CONFIGURATOR"),
      Save("LendingPoolConfigurator", "LendingPoolConfiguratorProxy")>>

getPoolAdmin == Get("admin", "LendingPoolAddressesProvider", "POOL_ADMIN")

\* The provider of this repository declares no setter or getter of an oracle
\* or of a collateral manager: the call is not a function, and throws.
addressesProviderOracleCall == Throw
=============================================================================
