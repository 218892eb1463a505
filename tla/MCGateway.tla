------------------------------- MODULE MCGateway -------------------------------
(***************************************************************************)
(* A small instance of WETHGateway, compared with the formulas at every    *)
(* step: a lender who has WETH, the project's borrower, who has ether, and *)
(* the gateway, to which somebody has sent some of both.                   *)
(***************************************************************************)
EXTENDS WETHGateway, OracleAgreement

CONSTANTS lender, builder, gateway

LenderBuilderGateway == {lender, builder, gateway}
GatewayAndBuilder    == {gateway, builder}

Wallets == [a \in Accounts |-> CASE a = lender -> 60 [] a = gateway -> 30 [] OTHER -> 0]
Ethers  == [a \in Accounts |-> CASE a = builder -> 120 [] a = gateway -> 60 [] OTHER -> 0]
Open    == {[flags |-> Flags \ {"frozen"}, reserveFactor |-> 0]}

Sixty       == {60}
EtherValue  == {120}
Nothing     == {}
DepositRate == {0, 200}
BorrowRates == {0, 500}
SignedPermits ==
  [owner : {lender}, spender : {gateway}, value : {60}, nonce : {0}, deadline : {2}]
MCCurve ==
  [optimalUtilizationRate |-> 650, baseVariableBorrowRate |-> 0,
   variableRateSlope1 |-> 80, variableRateSlope2 |-> 1000,
   stableRateSlope1 |-> 100, stableRateSlope2 |-> 1000]
===============================================================================
