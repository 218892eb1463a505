-------------------------------- MODULE MCMarkets --------------------------------
(***************************************************************************)
(* The six markets of the repository, the four short ones with room for    *)
(* one transaction or upgrade beside the deployment; a market of two       *)
(* reserves, one of which is no collateral, with room for three, and one   *)
(* of the latter with room for four; and a market with one reserve more    *)
(* than the pool may list.                                                 *)
(***************************************************************************)
EXTENDS TokenUpgrades

Pofi      == INSTANCE PofiMarket
Aave      == INSTANCE AaveMarket
Amm       == INSTANCE AmmMarket
Matic     == INSTANCE MaticMarket
Avalanche == INSTANCE AvalancheMarket
XDai      == INSTANCE XDaiMarket

MCPair ==
  <<Listed("BUSD", Aave!strategyBUSD), Listed("XSUSHI", Aave!strategyXSUSHI)>>

MCSingle == <<Listed("BUSD", Aave!strategyBUSD)>>

MCCrowd ==
  [i \in 1 .. (MaxReserves + 1) |-> Listed(<<"project", i>>, Matic!strategyDAI)]

\* A function rather than a record: TLC evaluates it at each use.
MCMarkets ==
  [m \in {"pofi", "aave", "amm", "matic", "avalanche", "xdai", "single",
         "pair", "crowd"} |->
     CASE m = "pofi"      -> Pofi!ReservesConfig
       [] m = "aave"      -> Aave!ReservesConfig
       [] m = "amm"       -> Amm!ReservesConfig
       [] m = "matic"     -> Matic!ReservesConfig
       [] m = "avalanche" -> Avalanche!ReservesConfig
       [] m = "xdai"      -> XDai!ReservesConfig
       [] m = "single"    -> MCSingle
       [] m = "pair"      -> MCPair
       [] m = "crowd"     -> MCCrowd]

MCBudget ==
  [m \in DOMAIN MCMarkets |->
     CASE m = "single" -> 4
       [] m = "pair" -> 3
       [] m \in {"aave", "amm", "crowd"} -> 0
       [] OTHER -> 1]

\* One the configurator accepts, one above the thresholds, the one that takes a
\* reserve out of the collateral.
MCTerms == {<<6000, 8000, 10500>>, <<9000, 8000, 10500>>, <<0, 0, 0>>}
===============================================================================
