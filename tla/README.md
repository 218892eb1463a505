# Verification of the OC lending protocol

TLA+ models of the protocol core under `contracts/protocol`, of the market files,
of the scripts that deploy and configure a market, and of the accounting formulas the
test suites hold beside the contracts; the TLC runs that check them on small instances,
and TLAPS proofs of what matters most for every value of the constants.

The code is a fork of Aave v2 in which a *project* raises money. Each project has
one reserve in one underlying asset; savers deposit into it, the project's borrower
(or the emergency admin) draws the deposits as stable-rate loans, and an
administrator, not a utilisation curve, sets both rates. A second token, the pToken,
records the capital paid in, apart from the interest-bearing aToken. There is no
collateral check, liquidation, flash loan or variable-rate loan any more.

## Inventory

| Part | State | Operations | Talks to |
|---|---|---|---|
| `LendingPool` | reserves by project, list of reserves, user bitmaps, pause flag | `deposit`, `withdraw`, `withdrawInterest`, `borrow`, `repay`, `finalizeTransfer`; for the configurator `initReserve`, `setConfiguration`, `setPause`, `updateInterestRates`, `updateProjectBorrower` | all tokens of a reserve, `ReserveLogic`, `ValidationLogic`, addresses provider |
| `ReserveLogic` | per reserve: indexes, rates, last update | `updateState` (`_mintToTreasury`, `_updateIndexes`), `getNormalizedIncome`, `updateProjectInterestRates` | debt token (supply data), aToken (treasury mint) |
| `AToken` | scaled balances and supply; permits' nonces; holds the underlying | `initialize`, `mint`, `burn`, `withdrawInterest`, `mintToTreasury`, `transfer`, `permit`, `transferUnderlyingTo` | pool (`getReserveNormalizedIncome`, `finalizeTransfer`), pToken, underlying |
| `PToken` | capital per user and in total | `mint`, `burn`, the move an aToken transfer makes, ERC20 `transfer` | aToken |
| `StableDebtToken`, `DebtTokenBase` | principal, rate and timestamp per borrower; supply, average rate and timestamp; delegations | `mint`, `burn`, `approveDelegation`, views | pool |
| `IncentivizedERC20` | balances, supply, allowances | `_mint`, `_burn`, `_transfer`, `approve`, `transferFrom` | all tokens derive from it |
| `LendingPoolConfigurator` | none (roles in the provider) | sets flags, reserve factor, rates, borrower, pause; initialises reserves; upgrades tokens | pool, proxies |
| `ReserveConfiguration`, `UserConfiguration` | two bitmaps | getters and setters of fields | pool, configurator |
| Addresses provider, registry, proxies, `VersionedInitializable` | addresses, implementations, revisions | set, upgrade, initialise | everything |
| `WETHGateway` | none; ether and tokens sent to it by mistake | `depositETH`, `withdrawETH`, `repayETH`, `borrowETH`, rescues by the owner | WETH, pool, aToken, debt token |
| `Project` | a project's name and dates | setters for its owner | nothing |
| Market files (`markets/*`) | none | one row per reserve: rate curve, ratios, open operations | deployment scripts |
| Tasks and helpers (`tasks`, `helpers`) | `deployed-contracts.json`; a process's variables | deploy, connect, list, configure; migrations run tasks in order | chain, file, market files |
| `ATokensAndRatesHelper`, `StableAndVariableTokensHelper` | an owner; a pool and a configurator | configure a chunk of reserves, set rates, as a lent administrator | configurator, oracles |
| Test oracle and scenario runner (`test-suites`) | none; data read before an action | `calcExpected...`; `executeAction` | none; the pool, with calls it no longer accepts |

In the contracts what is hard is not concurrency: the EVM runs one transaction to
its end or undoes it. It is the order of transactions over time, and what two
contracts that each keep a part of the truth say of each other after many of them:

* the same amount is kept in several forms (a scaled share, a balance at the
  current index, a capital; a principal, an accrued debt, a supply accrued at an
  average rate), each rounded, none recomputed from another;
* a view computes what a transaction commits by another path, and is trusted within
  that transaction;
* interest is counted from timestamps that several operations write;
* a subtraction that goes below zero reverts, which can stop a whole reserve;
* rates, flags, the borrower and the pause change under positions already taken.

Outside the chain there are processes that can die, and other parties' transactions
between two of theirs:

* a migration is dozens of transactions and file entries; it may stop between any two,
  and is only ever started again from its first task, with the file as it was left;
* an administrator's role is lent to a helper contract and must come back;
* reserves are live as soon as they are listed, long before they are configured, and a
  whole chunk of them is configured or refused at once;
* twelve settings share a word per reserve, and two bits per reserve a word per user;
* the gateway works out what to wrap apart from what the pool takes of it, and takes
  shares at one index to redeem them at another;
* a token's proxy is initialised anew at each upgrade, and listing and upgrading do not
  pass the initializers the same arguments;
* the formulas of the test suites repeat the contracts' arithmetic with roundings of their
  own, from four timestamps that different operations write.

`PROJECT.json` lists each hazard at its line, with the properties aimed at it.

## Modules

    WadRayMath <- MathUtils <- StableDebtToken <- LendingPool <- TokenAllowances <- WETHGateway
                  TokenLedger <-'                      '------------------.
                  RateStrategy <- ScenarioOracle <---------------- OracleAgreement

    MarketRows <- PofiMarket, AaveMarket, AmmMarket, MaticMarket, AvalancheMarket, XDaiMarket
    MarketRows, ReserveConfiguration, UserConfiguration <- MarketConfiguration <- TokenUpgrades
    MarketConfiguration  implements  MarketSettings

    DeploymentScripts <- DeploymentTasks;  Deployment <- DeploymentOutline runs their steps

    MCStableDebtToken, MCLendingPool, MCGateway (WETHGateway and OracleAgreement),
    MCMarkets (TokenUpgrades), MCDeployment   for TLC
    StableDebtToken_proofs <- LendingPool_proofs <- OracleAgreement_proofs
    LendingPool_proofs, SumFunction_proofs <- LendingPoolLedgers_proofs
    MarketConfiguration_proofs, SumFunction_proofs <- MarketSettings_proofs
    DeploymentOutline <- Deployment_proofs

**WadRayMath, MathUtils** are the fixed-point functions of `WadRayMath.sol`,
`PercentageMath.sol` and `MathUtils.sol`, with all their roundings. The scales (a
ray, a wad, 100%, a year) are constants, so the theorems hold for the deployed
values, while TLC uses a ray of 4, at which almost every operation rounds.

**TokenLedger** is the bookkeeping of `IncentivizedERC20`: credit, debit, and a move
that reads the recipient after writing the sender.

**StableDebtToken** has one variable for each storage variable of the token
(`principal` is `_balances`, `debtSupply` is `_totalSupply`). `MintDebt` and
`BurnDebt` are `mint` and `burn`; `DebtOf`, `TotalDebt` the views. `DebtSpec` is the
token under an arbitrary pool: any loan, any repayment up to the debt, any
delegation, at any time. It is what the pool relies on, and what it is shown to
implement.

**LendingPool** extends it with one reserve: the reserve's record
(`liquidityIndex`, `lastUpdateTimestamp`, rates, borrower), the configuration as a
set of flags and a factor, the two user bits as sets of accounts, the aToken's
`scaled` balances, the pToken's `capital`, and the underlying asset split into the
aToken's `cash` and the accounts' `wallet`. Each external function is one action with all it
calls: `Deposit` is validation, `updateState` with the treasury's mint, the
payment, both mints. A `require` or a SafeMath subtraction is a guard. The order
inside a transaction is kept where it shows: `withdraw` validates against the view
before the state is updated and burns at the stored index after;
`updateInterestRates` stores the rates first.

**TokenAllowances** adds what third parties may do with the aToken and the pToken:
`allowances` and `TransferFrom` of `IncentivizedERC20`, and the aToken's `Permit`, a signed
message that is good for one nonce and up to a deadline.

**WETHGateway** is the pool's client for users who have ether. `ether` holds the native
balances, `wallet` WETH. A call of the gateway passes through the pool and two or three
tokens and is one action, with the guards of each contract in the order of the calls:
`withdrawETH` takes the user's aTokens by their allowance at the index shown, with the
capital that moves along, and redeems them at the index stored. `repayETH` wraps the smaller
of the amount and the debt but offers the pool all the ether it was sent (`WETHGateway.sol:100`):
with an amount below the debt and more ether than that, it reverts for want of WETH, or
is paid with WETH somebody left at the gateway. Users go on calling the pool and the tokens
directly, and the owner may take out what was left there.

**ReserveConfiguration, UserConfiguration** are the two bitmaps. A word is the set of
the positions of its bits that are one, so a mask is a set difference and a shift an
addition; `SetField` and `GetField` are the setters and getters with the masks, start
positions and bounds of the source. A field's value is the sum of the place values of its
digits (`Digits`, `PlaceValue`), which is what masking and shifting make of the word.

**MarketRows** has the form of a market's row and of a rate curve, and the six market
modules the rows themselves, one definition per strategy of the files the market
lists. `enabled` is the set of switches a row turns on; ratios are in the source's basis points,
rates in hundredths.

**MarketConfiguration** is a market of many reserves and the life of its settings. Four
parties take turns: the deployment script (`InitNextReserve`, one transaction per
reserve; `HandOver`; `ConfigureReserves`, up to twenty reserves per transaction;
`HandBack`; `Abort` when a transaction reverts), the pool's administrator (every setter
of the configurator, listing by hand, rates and strategies, while `poolAdmin` is the
deployer), lenders, and the borrower. `aTokens`, `id`, `reservesList` are what
`initReserve` writes, `configuration` and `userConfig` the words. No time passes
here: balances and debts are principals, so pTokens follow aTokens and are left out.
`spent` counts the transactions beside the deployment.

**MarketSettings** is what that promises without words, masks or scripts: an ordered
list of projects and a record of settings each, where one call lists a project, or
changes only the settings it is about, or (a chunk) opens several listed projects and
closes none. `WordsAreSettings` is the refinement: with `settings` read field by field
from the words, every step of `MarketConfiguration` is one of `MarketSettings`.

**TokenUpgrades** adds the proxies of a market's tokens. `InitTokens` is the part of
`_initReserve` that creates and initialises the four of a reserve, `UpdateAToken` and
`UpdateDebtToken` are the configurator's upgrades. A proxy is the implementation it runs
(its revision), the last revision initialised, and the settings stored that say whom it
serves. `Succeeds` is the `require` after the delegated call, `Initializes` the guard of
`VersionedInitializable`. Listing initialises an aToken before the pool knows its
reserve, so its underlying is zero until it burns or is upgraded (`Burnt`); a debt token's
upgrade gives it the project for its underlying. The market goes on beside the upgrades.

**DeploymentScripts, DeploymentTasks** translate the TypeScript: each task and helper is
the sequence of its steps (deploy, file an address, look one up, send a transaction),
`\o` where the source awaits one call after another. **Deployment** runs such sequences: `slot` is
what the chain's contracts store, `db` the file `deployed-contracts.json`, `locals` the task's variables.
Anything a step reads that is not there throws, and the process stops (`Fail`).
Most contracts are filed after their transaction is mined (`Create`, then `SaveAddress`).
`deployLendingPool`, `deployLendingPoolConfigurator` and `deployLendingPoolCollateralManager`
file the implementation under a key of its own as soon as it is sent, and wait after that:
`SendDeployment` leaves open whether it is mined, `AwaitDeployment` ends that. A process that
dies in between may leave such a key without a contract.

**DeploymentOutline** belongs to the proofs: the proof outline of a program. It says for each task
what its steps, taken in order from the first, are known to have created, filed, bound and sent. It is a
constant that an assumption determines step by step (`Onward`), because nothing can be proved of a
recursive definition; `MCDeployment` computes it for the nine programs.

**RateStrategy** is `calculateInterestRates`. **ScenarioOracle** translates the formulas of
`test-aave/helpers/utils/calculations.ts` function by function, with the whole-number
division `test-aave/scenario.spec.ts` configures; `RepayStable` and the like name the two
branches of a long function. It has functions only. **OracleAgreement** puts them beside
`LendingPool`: `StoredReserve` and `StoredUser` are what the pool stores and shows,
in the form the formulas take, and the formulas' results are compared with the
next state. It has no actions: nobody reads or sends anything in it.

### Abstractions

Of `LendingPool`:

* One reserve. Reserves share only the pause flag and the user bitmap's word, whose
  bits are separate; `MarketConfiguration` has many reserves and the words.
* A revert is an action that is not enabled: nothing of it remains.
* 256-bit overflow checks and the 128-bit bound on a borrower's rate are left out;
  the 128-bit bound on the index is kept (`MaxUint128`).
* Variable debt is left out: nothing mints it, so its index is one ray for good.
* The check that the named asset is the reserve's, and the incentives controller
  (the zero address in this deployment), are left out.
* In `LendingPool` only owners move their tokens; allowances are in `TokenAllowances`. A
  permit's signature is one of the messages in `Permits`: nobody signs for another.
* The underlying token is external: a transfer needs the balance and moves it.
* A caller of an administrator's function is not modelled: it may happen at any time.
* A delegation to oneself, which no code reads, is left out.
* The gateway's reserve has WETH for its asset and for its project, as the gateway passes
  WETH's address for both; the pool a caller names is the one there is. Recipients of ether
  accept it, but for the gateway itself, whose `receive` takes it from WETH only.
* The model starts after `_initReserve`: active, all else off, never updated
  (`lastUpdateTimestamp` 0), at a block time `DeployedAt` greater than 0.

Of the deployment and the markets:

* The network is one that persists: the file and the chain outlive the process. On
  hardhat's in-process network both vanish with it and nothing can be resumed.
* A transaction that is awaited is mined or the script throws. One that is only sent is mined at
  any time until it is awaited; mined after its process died it would be left out, because
  nothing but a key no task reads refers to it. Gas, verification on Etherscan and
  console output are left out. Addresses are numbered as contracts are created.
* `tasks/pofi` is not loaded by `hardhat.config.ts`, and `pofi.dev.ts` has its steps
  commented out; `pofiListed` and `pofiTasks` run the tasks in the order of those comments.
* Every listed symbol has a token and a project address. Which code a row's token
  implementations hold is left out (only the amm's UNI asks for another one): an
  implementation is its revision. Treasury, incentives controller, names and symbols are
  whatever an administrator passes, and are left out of a token's settings.
* Nobody sends the underlying to an aToken directly: `InactiveHoldsNoCash` speaks of the
  pool's own operations.
* Rows and curves that no market lists are not modelled; the files for arbitrum, bsc,
  ovm, solana and zksync list nothing.

Of the test oracle. No scenario suite of this commit can run: `actions.ts` calls the pool
with the argument lists of an earlier one (`deposit(asset, amount, onBehalfOf, '0')` for
`deposit(project, asset, amount, onBehalfOf)`), which ethers rejects, and `helpers.ts` reads
fields and functions the data provider no longer has. So the runner is not modelled and
nothing is claimed of it. What is modelled is the arithmetic, a second implementation of the
pool's, and what is checked is that the two agree where they speak of the same thing. Of the
three copies, `test-aave` and `test-amm` divide to whole numbers, and `test-aave`'s is the one
modelled; `test-pofi`'s would keep twenty decimals. Formulas of rate swaps, rebalances and
collateral switches, for which the pool has no function, are left out.

`OracleAgreement` names the fields in which formulas and contracts differ by design or
by neglect, so that the agreement is claimed of all others:

* the rates, which the formulas compute from a curve and an administrator sets (`Administered`);
* the index, and what is computed from it, while nothing is lent out at a deposit rate that is
  not zero: the contract accrues, the formulas do not (`AccruesIdle`);
* after a deposit, the total liquidity and utilisation (kept from before), the user's
  principal (overwritten with the variable debt) and the collateral flag;
* after a repayment at an average rate of zero, the supply (see `DebtSupply` below);
* a repayment of more than the debt, which the contract caps and the formulas do not;
* the treasury's share of the interest, which appears nowhere in the formulas: the run
  has a reserve factor of zero.

Timestamps are compared with the tolerance of three units the source uses for every number.

### Bounds

`MaxTime` bounds the blocks, `MaxDebt` what a loan may bring a debtor to,
`MaxAverageRate` the average rate (which at a ray of 4 rises by rounding alone),
`MaxScaledSupply` and `MaxCapital` what a deposit may bring the totals to. All are
guards marked `bound`, and all are constants the proofs leave arbitrary. Two or
three blocks are enough for interest to accrue on interest and for a transaction in
the same block as another; amounts of 1 and 2 with rates of 0 and 50% reach
rounding up, rounding down and exact results; two accounts take both sides of each
operation, one of them also as treasury. The cfgs say `CHECK_DEADLOCK FALSE`
because at the bounds the model stops. Symmetry is used only in
`MCStableDebtToken`, where the accounts play the same part.

`Gateway` uses a ray of 1000, so that the tolerance of three units of the test suite is small
beside the amounts, and one amount, 60, which is the lender's whole WETH; payments in ether
bring 120, more than a partial repayment needs. `MaxCalls` allows four transactions over three
blocks, changes of rates among them: enough for a deposit, a rate, a loan and a repayment, or for
a deposit, a permit, a withdrawal, with time in between. One permit is signed.

`Markets` bounds only the transactions and upgrades beside the deployment (`Budget`): four on a
market of one reserve that is no collateral, three on a market of two, one on pofi,
matic, avalanche and xdai. An upgrade brings a revision between 1, which is refused, and 3. Aave (21 rows, two chunks), amm and a market of 129 rows,
one more than fits, are deployed undisturbed. Three transactions are enough to lend out a
reserve and switch it off, to interleave two listings, or to set and clear each bit; the proofs
have no such bound.

`Deployment` allows one crash and one task run by hand (`MaxCrashes`, `MaxReruns`), at
any step of nine programs, on markets of two reserves that share a strategy, with
chunks of one so that the loops have more than one pass. A crash and a rerun leave
two generations of contracts to be mixed up.

### Fairness

Of the contracts nothing is assumed. Nothing in their code must ever be called,
time passes by itself, and no transaction waits for another. What users want of the
future, to be able to leave, is stated as an enabled action
(`CapitalHolderCanLeave`).

The scripts are programs that run. `Deployment` assumes weak fairness of `Progress` (a
live process takes its next step: every call is awaited) and of `Restart` (an operator
runs a migration that died again; the documented way to go on). There is none of
`Crash` or `Rerun`. `MarketConfiguration` assumes weak fairness of the script alone:
the awaited transactions are sent one after another and are mined in the end; users
and administrators need never act.

## Runs

| Run | Question | Result |
|---|---|---|
| `StableDebtToken` | Does the token keep its accounts, clocks and rates in order under any use? | holds |
| `PoolDeposits` | Do savers' balances, capital and interest agree, and can they leave? | holds |
| `PoolLoans` | Do the reserve, its flags and the debt token agree through loans, delegation, a new borrower and a fee? | holds |
| `PoolEquity` | Does any transaction move value between users? Does the pool use the debt token as `DebtSpec` allows? | no; yes |
| `PoolTransfers` | Do the totals survive transfers of both tokens, and does the pause stop money? | holds |
| `DebtSupply` | Is a supply of nothing a proof that nobody owes? | refuted |
| `PoolRates` | Does the total supply only increase, as its comment says? | refuted |
| `PoolDust` | Can every holder withdraw the whole balance, as the comment of `withdraw` says? | refuted |
| `Gateway` | Does the gateway pass on all it is given? Do the test suite's formulas, applied to what the pool stores, give what the pool does? | holds |
| `Deployment` | Does a migration that dies, is rerun, or runs a task by hand leave one connected market? Do the programs fit the outlines of the proofs? | holds |
| `AaveDev` | Does every migration end, as its final message announces? | refuted |
| `Markets` | Do listing, configuring, administering, upgrading and using many reserves leave list, words, settings and tokens right? | holds |

The runs split one model by what is switched on, so that each stays within minutes:
`PoolDeposits` has no loans, `PoolLoans` no income, `PoolTransfers` no loans but the
pause and transfers; `PoolEquity` has loans, income and a fee together, with loans of one unit (that grow
by interest).

### What the properties say

* *Debt token.* `DebtClocksOrdered`: no timestamp is ahead of one it is subtracted
  from. `SettledDebtLeavesNoTerms`: the reset in `burn` happens exactly when the debt is
  gone. `NoSupplyNoAverageRate`: supply and average are dropped together.
  `DebtAndSupplyMoveTogether`: a loan or repayment changes one account, and the supply
  by the same amount, unless the supply is written off.
* *Reserve.* `ReserveClockFollowsDebt`, `AccrualNeverReverts`: the subtraction in
  `_mintToTreasury`, on which every transaction depends, cannot revert.
  `IncomeRepricedOnlyByRates`: within a block, transactions commit the income the views
  showed. `EquityIsConserved`: cash and loans less what is owed to savers and treasury
  moves by less than the rounding of a transaction. `BorrowingBitMatchesDebt`: the bit
  read before and written after the accrual is right.
* *Savers.* `WholeBalanceIsWholeShare`: the balance shown redeems the whole share.
  `CapitalHolderCanLeave`: nothing but the cash and the flags keeps somebody with capital
  from leaving. `InterestWithdrawalKeepsCapital`, `CapitalFollowsPayments`: what the
  pToken records was paid in and not yet paid out.
* *Control.* `LoansAreAuthorised`: new debt only for those who may owe it, drawn by others
  only through an allowance that shrinks. `PauseFreezesFunds`. `LedgersBalanced`.

* *Markets.* `ListIsIndexed`: ids and list are each other's inverse, although the first
  reserve has the id of an unlisted one. `UserBitsMatch`: a word tells exactly what is
  owed. `InactiveHoldsNoCash`. `ConfiguredAsListed`: an undisturbed deployment leaves all eight settings of
  every row of the six markets; `DeploymentEnds`: the configurator accepts all of these rows.
  `OnlyLiquidityStopsConfiguring`: a chunk is refused only because a reserve its row
  takes out of the collateral (BUSD, SUSD and USDT of aave and pofi, USDT of matic and avalanche) was given
  cash or a rate meanwhile; the helper then stays the pool's administrator.
  The amm's USDT has an ltv of -1: it stays listed, active and closed.
* *Tokens.* `TokensServeTheirReserve`: listed or upgraded, the four tokens of a reserve count in
  its decimals and know its project; where they do not (an underlying of zero, or of the project)
  it is for the two reasons given above. `UpgradesInitialize`: no token comes to run an
  implementation whose initializer was refused, or one it has been past.
* *Deployment.* `NothingDangles`, `ProxiesPointBack`: whatever dies wherever, what is filed or
  stored exists, but for the three keys that are filed when a deployment is sent, and a
  provider's proxies are its own. `FinishedMarketIsConnected`,
  `AdminLentToOwnHelper`: attempts do not mix. `MarketIsEventuallyDeployed`, `AdminComesBack`: with the operator's
  help the migration ends, and the role comes back.
* *Gateway.* `GatewayPassesOn`: a transaction through it leaves it no ether, aTokens or capital but
  what it had, no WETH that is new, and the pool gets or gives what users pay or are paid. With
  `value` for `Wrapped`, the gateway would keep WETH; that the pool is offered more than was wrapped
  (`:100`) never lets anybody's money go, since a repayment then reverts or uses WETH that was
  left there.
* *Test oracle.* `FormulasMatchViews`: in every state the formulas make of the stored data
  exactly what the views show. `FormulasMatchTransactions`: after every deposit, withdrawal, loan
  or repayment, what they work out from the state before it is the state after it, up to
  the tolerance. `StrategiesAgree`: the curve in Solidity and in TypeScript.

### Where the code and its documentation differ

1. `updateInterestRates` (`LendingPool.sol:643`) stores the rates before `updateState`,
   so a new deposit rate also applies to the time since the last update. A lower one
   takes back income already shown: the comment of `AToken.totalSupply` says the supply
   only increases (`PoolRates`).
2. `AToken.burn` (`AToken.sol:166`) always burns pTokens and `PToken.burn` refuses to burn
   none. Whoever has a balance and no capital left can neither withdraw it nor withdraw
   interest; the comment of `withdraw` says the largest amount withdraws everything (`PoolDust`).
3. `StableDebtToken.burn` (`:220`) writes the supply off when the repaid part's interest is at
   least the supply's, which at a rate of zero is any repayment; the token's rule file says that
   the supply is the sum of the balances (`DebtSupply`).
4. `aave:dev` can never finish (`AaveDev`), for either of two reasons in its oracle task: it
   prices a symbol that has no mock token, so that `setAssetPrice` gets an empty address, and it
   calls `setPriceOracle` (and `setLendingRateOracle`), which the provider no longer
   declares (`tasks/dev/4_oracles.ts:73`). The trace stops at the first; without it, the
   second would stop the task.

Not a run of its own: the comment at `LendingPoolConfigurator.sol:337` says no liquidity
may be deposited when a reserve is taken out of the collateral; `_checkNoLiquidity` only
sees cash and rate, so deposits that are lent out at no rate pass. And
`DefaultReserveInterestRateStrategy.sol:193` asks a hard-coded address for the market
rate, which the model takes as a parameter.

## Proofs

The proofs of the pool assume only the named assumptions on constants (scales, a year and
`DeployedAt` positive, sets of naturals, a finite set of accounts; `0` among the rates,
because the reserve starts there). The bounds stay arbitrary.

`StableDebtToken_proofs` begins with the arithmetic. The prover decides linear formulas, so
products and quotients get lemmas of their own (`DivBounds`, `DivUnique`,
`ProductMono`). `RayRoundTrip` is the one that matters: for an index of at least one ray,
`RayDiv(RayMul(share, index), index) = share` though both round.
`CompoundedInterestMono` gives that a debt never falls with time.

Then `DebtInv` joins the token's four invariants with what makes
them inductive; a settled debt's reset is right only because an account without
principal has no rate, and interest can be counted only because the clocks are
ordered. Lemmas show that `MintDebt` and `BurnDebt` preserve it (they are what the pool
calls); the theorems follow, and `DebtMovesCorrect` from the fact that there is no
interest at zero seconds.

`LendingPool_proofs`: `PoolInv` is `DebtInv`, the types, `ReserveClockFollowsDebt`, an
index of at least one ray, and the borrowing bit stated on principals, which is
what a step can see; `DebtOf` differs from zero exactly when the principal does.
There is one preservation lemma for each operation. From the invariant: the types,
the clocks, the accrual (compound interest is monotone), the bit, and the whole
share (`RayRoundTrip`). `StepRefinesDebt` maps each step to a step of `DebtSpec` or a
stutter: the pool implements the debt token's specification. The action properties
on income, pause, capital and authorised loans are proved step by step.

`MarketConfiguration_proofs` proves the list, the users' words and the reserves that
are off for every market, number of reserves and users, and any transactions beside the
deployment. `MarketInv` adds to the three properties that a project without tokens was
never used: that is why listing it, which gives it an id and two bits, makes no word
wrong. Every step is one of three kinds: a reserve is listed (`Listing`), settings
change and no reserve with cash loses its active bit (`Setting`), or a reserve is used.
The lemmas about words (`SetFieldKeepsActive`, `BitsDiffer`, `BorrowingBitSet`,
`CollateralBitSet`) show that bits are separate; `ListingAppends` that id 0 never
confuses the first reserve with an unlisted one. The assumption is that a market is a
finite sequence that names no project twice, and at most 128 reserves are allowed.

`Deployment_proofs` proves, for any programs made of the steps and any number of
crashes and reruns, that contracts are numbered freshly, proxies have no owner and
keep their fields, and from this `TypeOK`, `NothingDangles` and `ProxiesPointBack`. Of
the programs `ProgramAssumption` says that no task loads the three keys that are filed when a
deployment is sent, and that what is sent is filed next and then awaited (`SentAreAwaited`): that
is why nothing else ever refers to a contract that is not mined.

`FinishedMarketIsConnected` and `AdminLentToOwnHelper` depend on what the programs do, and of arbitrary ones
both are false. They are proved by executing the programs symbolically. An attempt is a run of the
migration from its first task or of one task by hand; `Outline` says what is known after each of
its steps, with the contracts it creates numbered from one. `OutlineInvariant` says that wherever the
process stands there is a `base`, the contracts that stood when the attempt began, such that adding `base`
to the outline's numbers (`Real`) gives what the chain, the file and the variables hold. A key
filed or a field set by an earlier attempt is *unknown* until this attempt writes it;
a step that writes to a contract of another attempt, or may, loses the view, after which nothing is claimed.
`Real` is injective, so that addresses that differ in the outline differ on the chain (`RealInjective`):
a field written in one is the field written in the other (`FieldWritten`, `FieldsCreated`,
`FieldsProxied`), and there is one lemma per step (`CreateShown` to `ConfigureShown`). What makes a new attempt
start blank is `BlankLeft`: nothing is stored at, listed by or paused of a contract not yet created.

Three assumptions are about the programs only, and TLC evaluates them on all nine in
`Deployment`: `OutlineAssumption` (the outline is what the steps make of it),
`LendingAssumption` (a task gives the administration to an account or to a rates helper of its own
attempt, made for that provider, and turns no helper to another) and `OutcomeAssumption` (the
undisturbed run of a migration in `Markets` ends with a market, all of its own attempt). Then

* `FinishedMarketCorrect`: after any number of crashes, restarts and reruns of tasks the finished
  migration leaves such a market, because the market of the outline is mapped to the chain, part by part
  (`KnownMarketConnected`);
* `AdminLentCorrect`, from the invariant `AdminIsHelper`, which adds that only rates helpers administer: that
  is why pointing another contract to another provider cannot harm;
* `StuckNeverFinishes`: a program whose outline ends with a step that cannot be accepted never
  finishes. TLC's outlines of the nine have six such: `aaveMainnet`, `sidechainMainnet`,
  `pofiTasks` and `pofiOracles` call a setter their provider does not have, `aaveDev` before that
  prices a token that has no mock, `pofiListed` lists a project nobody bound.

Of the nine, `buildTestEnv` alone lists a market to its end; for it the first theorem is not
empty. The others show that the second holds where a task gets stuck half-way.

`SumFunction_proofs` has the sums the tokens' totals are compared with. A sum is a fold,
whose recursion no installed prover unfolds, and the library's induction theorems cannot
be cited. Its facts are proved by descent instead: were there a subset for which one is false,
there would be a smallest (`SmallestSubset`, from the well-foundedness of inclusion), and
the fact would hold of what is left without one element. So the fold exists and follows its
recursion (`SumsExist`, `SumsRecursion`), a change of one value changes the sum by as much
(`SumChange`), any order of the elements will do (`SumsAnyOrder`), and no natural value exceeds its sum (`SumNat`).

`LendingPoolLedgers_proofs` sees every transaction as what it does to each ledger
(`LedgerSteps`: a credit, a debit or a move of shares; of capital; of the underlying), and has one
lemma about the sums for each such effect. `LedgerInv` joins `PoolInv` and `LedgersBalanced`. On it rest
three results a test of amounts cannot reach:

* `EquityCorrect`. At an index of at least one ray a transaction is an exchange: shares worth
  some amount against that amount of cash or loans (`Exchange`). Each share is rounded by less than
  a half, in shares, which the index turns into less than half of itself in ray;
  the treasury's mint and a new value of the debt add their own. `EquityRounding` bounds the sum of
  these errors by `RoundingUnit`, and `EquitySteps` shows that every action is such an
  exchange. Nothing is to be accrued twice: a transaction in a block already accrued mints nothing
  (`NothingLeftToMint`).
* `InterestWithdrawalCorrect`. What `withdrawInterest` leaves differs from the capital by the same
  kind of error (`InterestRounding`).
* `CapitalHolderIsAccepted`. `LeavingIsWithdraw` shows that a withdrawal of everything is a
  list of conditions and of assignments; the theorem proves each condition for a holder of
  capital whose balance the cash covers. This is what `CapitalHolderCanLeave` says, without
  `ENABLED`: the largest share redeems the whole balance (`RayRoundTrip`), it is at most the
  supply (`SumNat`, the reason why `LedgersBalanced` is needed), the capital burned is
  neither zero nor more than there is, and the accrual does not revert.

`MarketSettings_proofs` proves the refinement for every market. `DigitsValue` shows, one
digit at a time, that the digits of a number below 2^16 add up to it; with it a setter's value is
what the getter reads (`FieldWritten`) and every other field is kept, because the fields'
places are apart (`FieldsApart`, `FieldKept`). Then each transaction is a listing, a change of
the settings of one project, or a chunk of `Deploy` (`ListingIsList`, `StoreIsChange`,
`SwitchIsChange`, `ConfiguringIsDeploy`). The chunk is the delicate one: it must open only
listed projects, which is `ListingComesFirst`, an invariant of its own because the administrator may
list by hand while the script runs.

`ConfiguredCorrect` needs the invariant `UpToTheCursor`: while the deployment is
undisturbed, the word of a row before the cursor is the one that listing, or listing and configuring, made
of an empty word, and a row behind the cursor is untouched. It is proved for any number of
rows and chunks; a chunk is what lies between two places among the configurable rows (`Places`), and a curve is the
first of its name (`LeastRow`, `CurveOfRow`). `FinalAgrees` then reads the eight settings out of
the final word. `MarketAssumption` says what the files' numbers are (unsigned, the decimals in eight bits,
-1 for a row left out), `FilesAssumption` that a stable rate is enabled only where borrowing is and that a
strategy's name stands for one curve; TLC evaluates both on the six markets. Without the
second the property is false: the helper has no switch for a stable rate alone.

`RefusalsCorrect` and `UndisturbedIsAccepted` say what can stop the script, for markets whose rows
have terms the configurator takes (`TermsAssumption`, again evaluated on the six). The rows are then
listed (`ListedFirst`) and their numbers right, so that only liquidity is left as a reason to refuse a chunk
(`RefusedForLiquidity`). Undisturbed, there is none, and the next row is never in a list
already as long as the cursor (`Undisturbed`). Of `DeploymentEnds`, only that the script goes on is left to TLC.

The same module proves what upgrades add. `UpgradedMarketIsMarket` drops the tokens: with upgrades
a market is a market, so all that was proved of it holds. `TokensInvariant` says of every
listed reserve that its four proxies have been initialised and serve it. It needs
`ListedFirst` and the refinement: the decimals of a listed reserve's word never change
(`DecimalsKept`), because no setting but listing is about them. `UpgradesCorrect` follows from
`Succeeds`.

`OracleAgreement_proofs` identifies the arithmetic of the formulas with the contracts' on
naturals (`OracleRayMul`, `OracleLinearInterest`, `OracleCompoundedInterest`).
`FormulasMatchViewsCorrect` follows from `PoolInv`, which orders the clocks, with the special
cases in which one side returns early: no rate, no time, or no timestamp, which means no debt
only because `SettledDebtLeavesNoTerms` holds.

`CurvesAgree` compares the two copies of the interest rate curve for every curve, debt and liquidity:
the stable rate is the same always, every rate above the optimum, and the depositors' rate where nobody
owes at the variable rate. Below the optimum the contract multiplies by the slope and divides by the
optimum, the oracle divides first: `OrderOfRoundings` bounds the difference by the four roundings, at
the deployed scale less than two units of 10^-27 for an optimum of 65% and a slope of 8%.

Only model-checked:

* `CapitalHolderCanLeave` as it is stated (`ENABLED`; its content is proved), and every liveness property;
* what the nine programs' outlines are (`MCOutline`), and so the three assumptions on them;
* `GatewayPassesOn`, and the pool under the gateway: that a call of it is for the pool a sequence of
  the pool's own steps is not proved;
* the formulas after a transaction (`FormulasMatchTransactions`, and of `StrategiesAgree`
  the tolerance and the bound on what depositors are promised): they round an average rate and a share
  elsewhere than the contracts do. The two differ by about a ray over the total debt and by half an
  index, so that no fixed tolerance holds for every scale and amount: three units are enough for the
  amounts of the run, and TLC checks those.

## Plan

1. Done: the debt token, the pool with one reserve, their proofs.
2. Done: the deployment as a process that dies and is run again; proofs of its safety, those that
   depend on the programs by their outlines.
3. Done: the test suite's formulas beside the pool; the rate strategy.
4. Done: bitmaps, configurator, reserve list and market files, the refinement to
   settings; proofs over any number of reserves.
5. Done: sums over any number of accounts and what rests on them (totals, equity, interest
   withdrawals, leaving); the refinement of the words to settings, and the deployment's result.
6. Done: allowances, permits and `transferFrom` of the tokens; `WETHGateway` as a client of the
   pool; the tokens' proxies, their upgrades and `VersionedInitializable`.
7. Next: the provider's own proxies and addresses after the deployment; unregistering; the gateway's
   calls as sequences of the pool's steps, to prove `GatewayPassesOn`.
8. An abstract savings account that the pool implements up to rounding.

## Not modelled

* Variable debt, health factor, liquidation manager: nothing in this pool reaches them. Of the
  variable debt token only the initializer and its upgrade are modelled.
* The scenario runner (`actions.ts`, `scenario-engine.ts`, `helpers.ts`), which cannot run at this
  commit; see above.
* Oracle, data and UI providers: views, without state of the protocol.
* Swap, repay and liquidation adapters: built on flash loans the pool does not offer
  (their deployment tasks are in `DeploymentTasks`).
* Delegation-aware aToken: forwards votes, no state of its own.
* `setAddress...` of the provider and upgrades of its two proxies: item 7. `Project`, a record of
  names and dates that no other code consults.
* Mocks, typechain and vendored contracts, Etherscan verification, gas settings.
