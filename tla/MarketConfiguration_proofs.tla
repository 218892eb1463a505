----------------------- MODULE MarketConfiguration_proofs -----------------------
(***************************************************************************)
(* The reserve list, the users' words and the reserves that are off, for    *)
(* any markets, users and transactions beside the deployment.               *)
(***************************************************************************)
EXTENDS MarketConfiguration, FiniteSetTheorems, TLAPS

\* The market's projects are the rows', and the script does not run past them.
ScriptOK ==
  /\ market \in DOMAIN Markets
  /\ Projects = {Rows[i].project : i \in DOMAIN Rows}
  /\ stage = "initialising" => cursor \in Nat

ListOK ==
  /\ aTokens \subseteq Projects
  /\ id \in [Projects -> Nat]
  /\ reservesList \in Seq(Projects)
  /\ ListIsIndexed

UsersOK ==
  /\ balance \in [Users -> [Projects -> Nat]]
  /\ debt \in [Users -> [Projects -> Nat]]
  /\ userConfig \in [Users -> SUBSET Nat]

\* What is not listed has never been used, so listing it makes no word wrong.
UnlistedIsUnused ==
  \A user \in Users : \A p \in Projects \ aTokens : debt[user][p] = 0

CashOK == cash \in [Projects -> Nat] /\ InactiveHoldsNoCash

MarketInv ==
  /\ ScriptOK
  /\ ListOK
  /\ UsersOK
  /\ UserBitsMatch
  /\ UnlistedIsUnused
  /\ CashOK

-----------------------------------------------------------------------------
(* Three kinds of steps: a reserve is listed, settings change, a reserve is  *)
(* used.                                                                     *)

Listing(p) ==
  /\ \E curve : PoolInitReserve(p, curve)
  /\ \E decimals :
       configuration' = [configuration EXCEPT ![p] = Initialised(@, decimals)]
  /\ UNCHANGED <<userVars, market>>
  /\ stage' = "initialising" => stage = "initialising" /\ cursor' \in Nat

\* No reserve that holds cash is switched off.
StaysActive(p) ==
  cash[p] = 0 \/ (IsOn(configuration[p], "active") => IsOn(configuration'[p], "active"))

Setting ==
  /\ DOMAIN configuration' = Projects
  /\ \A p \in Projects : StaysActive(p)
  /\ UNCHANGED <<aTokens, id, reservesList, userVars, market>>
  /\ stage' = "initialising" => stage = "initialising" /\ cursor' = cursor

-----------------------------------------------------------------------------
(* The word of a reserve *)

\* Apart from the decimals, fields lie below or above the active bit.
LEMMA FieldsMissActive ==
  ASSUME NEW f \in Fields \ {"active", "decimals"}
  PROVE  /\ FieldStart[f] \in Nat
         /\ FieldStart[f] + 16 < 56 \/ FieldStart[f] > 56
BY DEF Fields, Switches, FieldStart

LEMMA MaskedBounds ==
  ASSUME NEW f \in Fields, FieldStart[f] \in Nat
  PROVE  Masked(f) \subseteq FieldStart[f] .. (FieldStart[f] + 15)
<1>1. FieldWidth[f] \in {1, 8, 16}
  BY DEF FieldWidth
<1> QED
  BY <1>1 DEF Masked

\* Writing another field leaves the active bit as it is.
LEMMA SetFieldKeepsActive ==
  ASSUME NEW data, NEW value, NEW f \in Fields \ {"active", "decimals"}
  PROVE  IsOn(SetField(data, f, value), "active") <=> IsOn(data, "active")
<1>1. FieldStart["active"] = 56
  BY DEF FieldStart
<1>2. 56 \notin Masked(f)
  BY FieldsMissActive, MaskedBounds
<1>3. 56 \notin {FieldStart[f] + i : i \in Bits(value)}
  BY FieldsMissActive DEF Bits
<1> QED
  BY <1>1, <1>2, <1>3 DEF IsOn, SetField

LEMMA SwitchKeepsActive ==
  ASSUME NEW data, NEW on \in BOOLEAN, NEW f \in Switches \ {"active"}
  PROVE  IsOn(SwitchTo(data, f, on), "active") <=> IsOn(data, "active")
<1>1. FieldStart["active"] = 56
  BY DEF FieldStart
<1>2. f \in Fields \ {"active", "decimals"}
  BY DEF Fields, Switches
<1>3. 56 \notin Masked(f) /\ FieldStart[f] # 56
  BY <1>2, FieldsMissActive, MaskedBounds
<1> QED
  BY <1>1, <1>3 DEF IsOn, SwitchTo

LEMMA ActivationHolds ==
  ASSUME NEW data
  PROVE  IsOn(SwitchTo(data, "active", TRUE), "active")
BY DEF IsOn, SwitchTo

LEMMA InitialisedIsActive ==
  ASSUME NEW data, NEW decimals
  PROVE  IsOn(Initialised(data, decimals), "active")
BY ActivationHolds, SwitchKeepsActive DEF Initialised, Switches

LEMMA TermsKeepActive ==
  ASSUME NEW data, NEW ltv, NEW threshold, NEW bonus
  PROVE  IsOn(WithTerms(data, ltv, threshold, bonus), "active") <=> IsOn(data, "active")
<1>1. {"ltv", "liquidationThreshold", "liquidationBonus"}
        \subseteq Fields \ {"active", "decimals"}
  BY DEF Fields, Switches
<1> QED
  BY <1>1, SetFieldKeepsActive DEF WithTerms

LEMMA ConfiguringKeepsActive ==
  ASSUME NEW data, NEW row, IsOn(data, "active")
  PROVE  IsOn(Configured(data, row), "active")
<1> DEFINE terms  == WithTerms(data, row.baseLTVAsCollateral,
                               row.liquidationThreshold, row.liquidationBonus)
           lent   == OpenedToBorrowers(terms, row)
           first  == Opened(lent, row, "deposits")
           second == Opened(first, row, "withdrawals")
           third  == Opened(second, row, "interestWithdrawals")
<1>1. {"borrowing", "stableRate", "deposits", "withdrawals", "interestWithdrawals"}
        \subseteq Switches \ {"active"}
  BY DEF Switches
<1>2. IsOn(terms, "active")
  BY TermsKeepActive
<1>3. IsOn(lent, "active")
  <2> HIDE DEF terms
  <2>1. ("stableRate" \in row.enabled) \in BOOLEAN
    OBVIOUS
  <2>2. IsOn(SwitchTo(terms, "borrowing", TRUE), "active")
    BY <1>1, <1>2, SwitchKeepsActive
  <2>3. IsOn(SwitchTo(SwitchTo(terms, "borrowing", TRUE), "stableRate",
                      "stableRate" \in row.enabled), "active")
    BY <1>1, <2>1, <2>2, SwitchKeepsActive
  <2> QED
    BY <1>2, <2>3 DEF OpenedToBorrowers
<1>4. IsOn(third, "active")
  <2> HIDE DEF lent
  <2>1. \A word, f : IsOn(word, "active") /\ f \in Switches \ {"active"}
          => IsOn(Opened(word, row, f), "active")
    BY SwitchKeepsActive DEF Opened
  <2>2. IsOn(first, "active")
    BY <1>1, <1>3, <2>1
  <2>3. IsOn(second, "active")
    BY <1>1, <2>1, <2>2
  <2> QED
    BY <1>1, <2>1, <2>3
<1>5. Configured(data, row) = SetField(third, "reserveFactor", row.reserveFactor)
  BY DEF Configured
<1>6. "reserveFactor" \in Fields \ {"active", "decimals"}
  BY DEF Fields, Switches
<1> QED
  <2> HIDE DEF third
  <2> QED
    BY <1>4, <1>5, <1>6, SetFieldKeepsActive

-----------------------------------------------------------------------------
(* Listing a reserve *)

LEMMA ListingKeepsProjects ==
  ASSUME ListOK, NEW p \in Projects, Listing(p)
  PROVE  Projects' = Projects
BY DEF Listing, Projects

\* A project without tokens is in no list, so it is appended to the list with
\* the next id.
LEMMA ListingAppends ==
  ASSUME ListOK, NEW p \in Projects, Listing(p)
  PROVE  /\ p \notin aTokens /\ aTokens' = aTokens \cup {p}
         /\ id' = [id EXCEPT ![p] = Len(reservesList)]
         /\ reservesList' = Append(reservesList, p)
         /\ Len(reservesList) < MaxReserves
<1>1. p \notin aTokens /\ aTokens' = aTokens \cup {p} /\ AddReserveToList(p)
        /\ Len(reservesList) < MaxReserves
  BY DEF Listing, PoolInitReserve, CanInit
<1>2. id[p] = 0
  BY <1>1 DEF ListOK, ListIsIndexed
<1>3. reservesList # <<>> => reservesList[1] # p
  <2> SUFFICES ASSUME reservesList # <<>> PROVE reservesList[1] # p
    OBVIOUS
  <2>1. 1 \in 1 .. Len(reservesList)
    BY DEF ListOK
  <2> QED
    BY <1>1, <2>1 DEF ListOK, ListIsIndexed
<1> QED
  BY <1>1, <1>2, <1>3 DEF AddReserveToList

LEMMA ListingKeepsList ==
  ASSUME ListOK, NEW p \in Projects, Listing(p)
  PROVE  ListOK'
<1> DEFINE n == Len(reservesList)
<1>1. /\ p \notin aTokens /\ aTokens' = aTokens \cup {p}
      /\ id' = [id EXCEPT ![p] = n]
      /\ reservesList' = Append(reservesList, p)
      /\ n < MaxReserves
  BY ListingAppends
<1>2. Projects' = Projects
  BY ListingKeepsProjects
<1>3. n \in Nat /\ MaxReserves \in Nat
  BY MarketAssumption DEF ListOK
<1>4. /\ aTokens' \subseteq Projects' /\ id' \in [Projects' -> Nat]
      /\ reservesList' \in Seq(Projects')
  BY <1>1, <1>2, <1>3 DEF ListOK
<1>5. Len(reservesList') = n + 1 /\ reservesList'[n + 1] = p
      /\ \A i \in 1 .. n : reservesList'[i] = reservesList[i]
  BY <1>1 DEF ListOK
<1>6. id'[p] = n /\ \A q \in Projects \ {p} : id'[q] = id[q]
  BY <1>1 DEF ListOK
<1>7. \A q \in aTokens' : id'[q] < Len(reservesList') /\ reservesList'[id'[q] + 1] = q
  <2> SUFFICES ASSUME NEW q \in aTokens'
               PROVE  id'[q] < n + 1 /\ reservesList'[id'[q] + 1] = q
    BY <1>5
  <2>1. CASE q = p
    BY <2>1, <1>3, <1>5, <1>6
  <2>2. CASE q # p
    <3>1. q \in aTokens /\ q \in Projects
      BY <2>2, <1>1 DEF ListOK
    <3>2. id[q] \in Nat /\ id[q] < n /\ reservesList[id[q] + 1] = q
      BY <3>1 DEF ListOK, ListIsIndexed
    <3>3. id[q] + 1 \in 1 .. n
      BY <3>2, <1>3
    <3> QED
      BY <2>2, <3>1, <3>2, <3>3, <1>3, <1>5, <1>6
  <2> QED
    BY <2>1, <2>2
<1>8. \A i \in 1 .. (n + 1) : reservesList'[i] \in aTokens' /\ id'[reservesList'[i]] = i - 1
  <2> SUFFICES ASSUME NEW i \in 1 .. (n + 1)
               PROVE  reservesList'[i] \in aTokens' /\ id'[reservesList'[i]] = i - 1
    OBVIOUS
  <2>1. CASE i = n + 1
    BY <2>1, <1>1, <1>3, <1>5, <1>6
  <2>2. CASE i \in 1 .. n
    <3>1. reservesList[i] \in aTokens /\ id[reservesList[i]] = i - 1
      BY <2>2 DEF ListOK, ListIsIndexed
    <3>2. reservesList[i] # p /\ reservesList[i] \in Projects
      BY <3>1, <1>1 DEF ListOK
    <3> QED
      BY <2>2, <3>1, <3>2, <1>1, <1>5, <1>6
  <2> QED
    BY <2>1, <2>2, <1>3
<1>9. \A q \in Projects \ aTokens' : id'[q] = 0
  BY <1>1, <1>6 DEF ListOK, ListIsIndexed
<1> QED
  <2> HIDE DEF n
  <2>1. Len(reservesList') <= MaxReserves
    BY <1>1, <1>3, <1>5
  <2>2. ListIsIndexed'
    BY <1>2, <1>5, <1>7, <1>8, <1>9, <2>1 DEF ListIsIndexed
  <2> QED
    BY <1>4, <2>2 DEF ListOK

\* The new reserve's bits are still zero in every word, and nobody owes it.
LEMMA ListingKeepsWords ==
  ASSUME ListOK, UsersOK, UserBitsMatch, UnlistedIsUnused, NEW p \in Projects, Listing(p)
  PROVE  UsersOK' /\ UserBitsMatch' /\ UnlistedIsUnused'
<1> DEFINE n == Len(reservesList)
<1>1. /\ p \notin aTokens /\ aTokens' = aTokens \cup {p}
      /\ id' = [id EXCEPT ![p] = n]
      /\ reservesList' = Append(reservesList, p)
  BY ListingAppends
<1>2. Projects' = Projects
  BY ListingKeepsProjects
<1>3. n \in Nat /\ Len(reservesList') = n + 1
  BY <1>1 DEF ListOK
<1>4. balance' = balance /\ debt' = debt /\ userConfig' = userConfig
  BY DEF Listing, userVars
<1>5. id'[p] = n /\ \A q \in aTokens : id'[q] = id[q]
  BY <1>1 DEF ListOK
<1>6. UsersOK'
  BY <1>2, <1>4 DEF UsersOK
<1>7. UserBitsMatch'
  <2> SUFFICES ASSUME NEW user \in Users
               PROVE  /\ \A q \in aTokens' :
                           /\ BorrowingBit(id'[q]) \in userConfig[user] <=> debt[user][q] > 0
                           /\ CollateralBit(id'[q]) \in userConfig[user]
                                => balance[user][q] > 0
                      /\ \A bit \in userConfig[user] : bit < 2 * (n + 1)
    BY <1>3, <1>4 DEF UserBitsMatch
  <2>1. \A bit \in userConfig[user] : bit \in Nat /\ bit < 2 * n
    BY DEF UserBitsMatch, UsersOK
  <2>2. \A bit \in userConfig[user] : bit < 2 * (n + 1)
    BY <2>1, <1>3
  <2>3. ASSUME NEW q \in aTokens'
        PROVE  /\ BorrowingBit(id'[q]) \in userConfig[user] <=> debt[user][q] > 0
               /\ CollateralBit(id'[q]) \in userConfig[user] => balance[user][q] > 0
    <3>1. CASE q \in aTokens
      BY <3>1, <1>5 DEF UserBitsMatch
    <3>2. CASE q = p
      <4>1. BorrowingBit(n) \notin userConfig[user] /\ CollateralBit(n) \notin userConfig[user]
        BY <2>1, <1>3 DEF BorrowingBit, CollateralBit
      <4>2. debt[user][p] = 0
        BY <1>1 DEF UnlistedIsUnused
      <4> QED
        BY <3>2, <4>1, <4>2, <1>5
    <3> QED
      BY <3>1, <3>2, <1>1
  <2> QED
    BY <2>2, <2>3
<1>8. UnlistedIsUnused'
  BY <1>1, <1>2, <1>4 DEF UnlistedIsUnused
<1> QED
  BY <1>6, <1>7, <1>8

LEMMA ListingKeepsCash ==
  ASSUME ListOK, CashOK, NEW p \in Projects, Listing(p)
  PROVE  CashOK'
<1>1. Projects' = Projects /\ aTokens' = aTokens \cup {p} /\ cash' = cash
  BY ListingKeepsProjects, ListingAppends DEF Listing, userVars
<1>2. PICK decimals :
        configuration' = [configuration EXCEPT ![p] = Initialised(@, decimals)]
  BY DEF Listing
<1>3. IsOn(configuration'[p], "active")
  BY <1>2, InitialisedIsActive DEF Projects
<1>4. \A q \in Projects \ {p} : configuration'[q] = configuration[q]
  BY <1>2 DEF Projects
<1> QED
  BY <1>1, <1>3, <1>4 DEF CashOK, InactiveHoldsNoCash, ListOK

-----------------------------------------------------------------------------
(* Changing settings *)

LEMMA SettingKeepsInv ==
  ASSUME MarketInv, Setting
  PROVE  ListOK' /\ UsersOK' /\ UserBitsMatch' /\ UnlistedIsUnused' /\ CashOK'
<1>1. /\ Projects' = Projects
      /\ aTokens' = aTokens /\ id' = id /\ reservesList' = reservesList
      /\ cash' = cash /\ balance' = balance /\ debt' = debt /\ userConfig' = userConfig
  BY DEF Setting, Projects, userVars
<1>2. ListOK'
  BY <1>1 DEF MarketInv, ListOK, ListIsIndexed
<1>3. UsersOK' /\ UserBitsMatch' /\ UnlistedIsUnused'
  BY <1>1 DEF MarketInv, UsersOK, UserBitsMatch, UnlistedIsUnused
<1>4. CashOK'
  BY <1>1 DEF MarketInv, Setting, StaysActive, CashOK, InactiveHoldsNoCash, ListOK
<1> QED
  BY <1>2, <1>3, <1>4

-----------------------------------------------------------------------------
(* Using a reserve *)

\* What UserBitsMatch says of one user's word, debts and balances.
WordMatches(word, owed, held) ==
  /\ \A p \in aTokens :
       /\ BorrowingBit(id[p]) \in word <=> owed[p] > 0
       /\ CollateralBit(id[p]) \in word => held[p] > 0
  /\ \A bit \in word : bit < 2 * Len(reservesList)

\* One amount changes, that of project `p`.
Differ(f, g, p) == \A q \in Projects \ {p} : g[q] = f[q]

LEMMA ReserveIds ==
  ASSUME ListOK
  PROVE  /\ \A p \in aTokens : id[p] \in Nat /\ id[p] < Len(reservesList)
         /\ \A p, q \in aTokens : id[p] = id[q] => p = q
         /\ Len(reservesList) \in Nat
BY DEF ListOK, ListIsIndexed

\* A reserve's bits are its own.
LEMMA BitsDiffer ==
  ASSUME NEW a \in Nat, NEW b \in Nat
  PROVE  /\ BorrowingBit(a) # CollateralBit(b)
         /\ BorrowingBit(a) = BorrowingBit(b) => a = b
         /\ CollateralBit(a) = CollateralBit(b) => a = b
BY DEF BorrowingBit, CollateralBit

LEMMA BorrowingBitSet ==
  ASSUME ListOK, NEW p \in aTokens, NEW word, NEW owed, NEW held, NEW owing, NEW on \in BOOLEAN,
         WordMatches(word, owed, held), Differ(owed, owing, p), on <=> owing[p] > 0
  PROVE  WordMatches(SetBorrowing(word, id[p], on), owing, held)
<1> DEFINE new == SetBorrowing(word, id[p], on)
<1>1. aTokens \subseteq Projects
  BY DEF ListOK
<1>2. BorrowingBit(id[p]) \in new <=> on
  BY DEF SetBorrowing, SetBit
<1>3. \A bit : bit # BorrowingBit(id[p]) => (bit \in new <=> bit \in word)
  BY DEF SetBorrowing, SetBit
<1>4. \A q \in aTokens \ {p} : BorrowingBit(id[q]) # BorrowingBit(id[p])
  BY ReserveIds, BitsDiffer
<1>5. \A q \in aTokens : CollateralBit(id[q]) # BorrowingBit(id[p])
  BY ReserveIds, BitsDiffer
<1>6. BorrowingBit(id[p]) < 2 * Len(reservesList)
  BY ReserveIds DEF BorrowingBit
<1>7. ASSUME NEW q \in aTokens
      PROVE  /\ BorrowingBit(id[q]) \in new <=> owing[q] > 0
             /\ CollateralBit(id[q]) \in new => held[q] > 0
  <2> HIDE DEF new
  <2>1. CASE q = p
    BY <2>1, <1>2, <1>3, <1>5 DEF WordMatches
  <2>2. CASE q # p
    <3>1. owing[q] = owed[q]
      BY <2>2, <1>1 DEF Differ
    <3> QED
      BY <2>2, <3>1, <1>3, <1>4, <1>5 DEF WordMatches
  <2> QED
    BY <2>1, <2>2
<1>8. ASSUME NEW bit \in new
      PROVE  bit < 2 * Len(reservesList)
  <2> HIDE DEF new
  <2> QED
    BY <1>3, <1>6 DEF WordMatches
<1> QED
  BY <1>7, <1>8 DEF WordMatches

LEMMA CollateralBitSet ==
  ASSUME ListOK, NEW p \in aTokens, NEW word, NEW owed, NEW held, NEW holding, NEW on \in BOOLEAN,
         WordMatches(word, owed, held), Differ(held, holding, p), on => holding[p] > 0
  PROVE  WordMatches(SetUsingAsCollateral(word, id[p], on), owed, holding)
<1> DEFINE new == SetUsingAsCollateral(word, id[p], on)
<1>1. aTokens \subseteq Projects
  BY DEF ListOK
<1>2. CollateralBit(id[p]) \in new <=> on
  BY DEF SetUsingAsCollateral, SetBit
<1>3. \A bit : bit # CollateralBit(id[p]) => (bit \in new <=> bit \in word)
  BY DEF SetUsingAsCollateral, SetBit
<1>4. \A q \in aTokens \ {p} : CollateralBit(id[q]) # CollateralBit(id[p])
  BY ReserveIds, BitsDiffer
<1>5. \A q \in aTokens : BorrowingBit(id[q]) # CollateralBit(id[p])
  BY ReserveIds, BitsDiffer
<1>6. CollateralBit(id[p]) < 2 * Len(reservesList)
  BY ReserveIds DEF CollateralBit
<1>7. ASSUME NEW q \in aTokens
      PROVE  /\ BorrowingBit(id[q]) \in new <=> owed[q] > 0
             /\ CollateralBit(id[q]) \in new => holding[q] > 0
  <2> HIDE DEF new
  <2>1. CASE q = p
    BY <2>1, <1>2, <1>3, <1>5 DEF WordMatches
  <2>2. CASE q # p
    <3>1. holding[q] = held[q]
      BY <2>2, <1>1 DEF Differ
    <3> QED
      BY <2>2, <3>1, <1>3, <1>4, <1>5 DEF WordMatches
  <2> QED
    BY <2>1, <2>2
<1>8. ASSUME NEW bit \in new
      PROVE  bit < 2 * Len(reservesList)
  <2> HIDE DEF new
  <2> QED
    BY <1>3, <1>6 DEF WordMatches
<1> QED
  BY <1>7, <1>8 DEF WordMatches

\* The same, for the two values a bit is set to.
LEMMA BorrowingBitWritten ==
  ASSUME ListOK, NEW p \in aTokens, NEW word, NEW owed, NEW held, NEW owing,
         WordMatches(word, owed, held), Differ(owed, owing, p)
  PROVE  /\ owing[p] > 0 => WordMatches(SetBorrowing(word, id[p], TRUE), owing, held)
         /\ ~(owing[p] > 0) => WordMatches(SetBorrowing(word, id[p], FALSE), owing, held)
<1>1. ASSUME owing[p] > 0
      PROVE  WordMatches(SetBorrowing(word, id[p], TRUE), owing, held)
  BY <1>1, BorrowingBitSet
<1>2. ASSUME ~(owing[p] > 0)
      PROVE  WordMatches(SetBorrowing(word, id[p], FALSE), owing, held)
  BY <1>2, BorrowingBitSet
<1> QED
  BY <1>1, <1>2

LEMMA CollateralBitWritten ==
  ASSUME ListOK, NEW p \in aTokens, NEW word, NEW owed, NEW held, NEW holding,
         WordMatches(word, owed, held), Differ(held, holding, p)
  PROVE  /\ holding[p] > 0 => WordMatches(SetUsingAsCollateral(word, id[p], TRUE), owed, holding)
         /\ WordMatches(SetUsingAsCollateral(word, id[p], FALSE), owed, holding)
<1>1. ASSUME holding[p] > 0
      PROVE  WordMatches(SetUsingAsCollateral(word, id[p], TRUE), owed, holding)
  BY <1>1, CollateralBitSet
<1>2. WordMatches(SetUsingAsCollateral(word, id[p], FALSE), owed, holding)
  BY CollateralBitSet
<1> QED
  BY <1>1, <1>2

\* A word may stay when a balance stays or becomes positive, and a debt keeps its sign.
LEMMA WordKept ==
  ASSUME ListOK, NEW p \in aTokens, NEW word, NEW owed, NEW held, NEW owing, NEW holding,
         WordMatches(word, owed, held), Differ(held, holding, p), Differ(owed, owing, p),
         holding[p] > 0 \/ holding[p] = held[p], owing[p] > 0 <=> owed[p] > 0
  PROVE  WordMatches(word, owing, holding)
BY DEF WordMatches, Differ, ListOK

\* What a user's transaction on a reserve has to show: the amounts stay natural,
\* and one reserve's cash, debts and balances change with the words.
LEMMA UsingKeepsInv ==
  ASSUME MarketInv, Use, NEW p \in aTokens,
         cash' \in [Projects -> Nat], UsersOK', Differ(cash, cash', p),
         cash'[p] = 0 \/ cash[p] # 0 \/ IsOn(configuration[p], "active"),
         \A user \in Users : /\ WordMatches(userConfig'[user], debt'[user], balance'[user])
                             /\ Differ(debt[user], debt'[user], p)
  PROVE  ListOK' /\ UsersOK' /\ UserBitsMatch' /\ UnlistedIsUnused' /\ CashOK'
<1>1. /\ Projects' = Projects /\ configuration' = configuration
      /\ aTokens' = aTokens /\ id' = id /\ reservesList' = reservesList
  BY DEF Use, reserveVars, Projects
<1>2. ListOK'
  BY <1>1 DEF MarketInv, ListOK, ListIsIndexed
<1>3. UserBitsMatch'
  BY <1>1 DEF UserBitsMatch, WordMatches
<1>4. UnlistedIsUnused'
  BY <1>1 DEF MarketInv, UnlistedIsUnused, Differ
<1>5. CashOK'
  BY <1>1 DEF MarketInv, CashOK, InactiveHoldsNoCash, ListOK, Differ
<1> QED
  BY <1>2, <1>3, <1>4, <1>5

\* One operation of a user: its effect on the user's word, and on nobody else's.

LEMMA DepositKeepsInv ==
  ASSUME MarketInv, NEW user \in Users, NEW p \in Projects, NEW amount \in Amounts,
         Deposit(user, p, amount)
  PROVE  ListOK' /\ UsersOK' /\ UserBitsMatch' /\ UnlistedIsUnused' /\ CashOK'
<1> USE DEF MarketInv
<1>1. p \in aTokens /\ amount \in Nat /\ amount > 0 /\ Use
  BY MarketAssumption DEF Deposit, Open
<1>2. \A u \in Users : WordMatches(userConfig[u], debt[u], balance[u])
  BY DEF UserBitsMatch, WordMatches
<1>3. Projects' = Projects /\ aTokens \subseteq Projects
  BY <1>1 DEF Use, Projects, ListOK
<1>types. /\ cash \in [Projects -> Nat] /\ balance \in [Users -> [Projects -> Nat]]
      /\ debt \in [Users -> [Projects -> Nat]] /\ userConfig \in [Users -> SUBSET Nat]
  BY DEF CashOK, UsersOK
<1>4. /\ cash' = [cash EXCEPT ![p] = @ + amount]
      /\ balance' = [balance EXCEPT ![user][p] = @ + amount]
      /\ debt' = debt /\ userConfig' = userConfig
      /\ IsOn(configuration[p], "active")
  BY DEF Deposit, Open
<1>5. cash' \in [Projects -> Nat] /\ Differ(cash, cash', p) /\ UsersOK'
  BY <1>1, <1>3, <1>4, <1>types DEF Differ, UsersOK
<1>6. ASSUME NEW u \in Users
      PROVE  WordMatches(userConfig'[u], debt'[u], balance'[u]) /\ Differ(debt[u], debt'[u], p)
  <2>1. Differ(balance[u], balance'[u], p) /\ Differ(debt[u], debt'[u], p)
    BY <1>3, <1>4, <1>types DEF Differ
  <2>2. balance'[u][p] > 0 \/ balance'[u][p] = balance[u][p]
    BY <1>1, <1>3, <1>4, <1>types
  <2> QED
    BY <2>1, <2>2, <1>1, <1>2, <1>4, WordKept
<1> QED
  BY <1>1, <1>4, <1>5, <1>6, UsingKeepsInv

LEMMA WithdrawKeepsInv ==
  ASSUME MarketInv, NEW user \in Users, NEW p \in Projects, NEW amount \in Amounts,
         Withdraw(user, p, amount)
  PROVE  ListOK' /\ UsersOK' /\ UserBitsMatch' /\ UnlistedIsUnused' /\ CashOK'
<1> USE DEF MarketInv
<1>1. p \in aTokens /\ amount \in Nat /\ amount > 0 /\ Use
  BY MarketAssumption DEF Withdraw, Open
<1>2. \A u \in Users : WordMatches(userConfig[u], debt[u], balance[u])
  BY DEF UserBitsMatch, WordMatches
<1>3. Projects' = Projects /\ aTokens \subseteq Projects
  BY <1>1 DEF Use, Projects, ListOK
<1>types. /\ cash \in [Projects -> Nat] /\ balance \in [Users -> [Projects -> Nat]]
      /\ debt \in [Users -> [Projects -> Nat]] /\ userConfig \in [Users -> SUBSET Nat]
  BY DEF CashOK, UsersOK
<1>4. /\ cash' = [cash EXCEPT ![p] = @ - amount]
      /\ balance' = [balance EXCEPT ![user][p] = @ - amount]
      /\ debt' = debt
      /\ userConfig' = IF amount = balance[user][p]
                         THEN [userConfig EXCEPT ![user] =
                                 SetUsingAsCollateral(@, id[p], FALSE)]
                         ELSE userConfig
      /\ amount <= balance[user][p] /\ amount <= cash[p]
      /\ IsOn(configuration[p], "active")
  BY DEF Withdraw, Open
<1>5. cash' \in [Projects -> Nat] /\ Differ(cash, cash', p)
  BY <1>1, <1>3, <1>4, <1>types DEF Differ
<1>6. UsersOK'
  <2>1. balance' \in [Users -> [Projects -> Nat]]
    BY <1>1, <1>3, <1>4, <1>types
  <2>2. SetUsingAsCollateral(userConfig[user], id[p], FALSE) \subseteq Nat
    BY <1>types DEF SetUsingAsCollateral, SetBit
  <2>3. userConfig' \in [Users -> SUBSET Nat]
    BY <2>2, <1>4, <1>types
  <2> QED
    BY <2>1, <2>3, <1>3, <1>4, <1>types DEF UsersOK
<1>7. ASSUME NEW u \in Users
      PROVE  WordMatches(userConfig'[u], debt'[u], balance'[u]) /\ Differ(debt[u], debt'[u], p)
  <2>1. Differ(balance[u], balance'[u], p) /\ Differ(debt[u], debt'[u], p)
    BY <1>3, <1>4, <1>types DEF Differ
  <2>2. CASE u = user /\ amount = balance[user][p]
    <3>1. userConfig'[u] = SetUsingAsCollateral(userConfig[u], id[p], FALSE)
      BY <2>2, <1>4, <1>types
    <3>2. WordMatches(SetUsingAsCollateral(userConfig[u], id[p], FALSE), debt[u], balance'[u])
      BY <2>1, <1>1, <1>2, CollateralBitWritten
    <3> QED
      BY <3>1, <3>2, <2>1, <1>4
  <2>3. CASE ~(u = user /\ amount = balance[user][p])
    <3>1. userConfig'[u] = userConfig[u]
      BY <2>3, <1>4, <1>types
    <3>2. balance'[u][p] > 0 \/ balance'[u][p] = balance[u][p]
      <4>1. CASE u = user
        <5>1. balance'[u][p] = balance[u][p] - amount /\ balance[u][p] \in Nat
          BY <4>1, <1>3, <1>4, <1>types
        <5> QED
          BY <4>1, <5>1, <2>3, <1>1, <1>4
      <4>2. CASE u # user
        BY <4>2, <1>4, <1>types
      <4> QED
        BY <4>1, <4>2
    <3> QED
      BY <3>1, <3>2, <2>1, <1>1, <1>2, <1>4, WordKept
  <2> QED
    BY <2>2, <2>3
<1> QED
  BY <1>1, <1>4, <1>5, <1>6, <1>7, UsingKeepsInv

LEMMA TransferKeepsInv ==
  ASSUME MarketInv, NEW from \in Users, NEW to \in Users, NEW p \in Projects,
         NEW amount \in Amounts, Transfer(from, to, p, amount)
  PROVE  ListOK' /\ UsersOK' /\ UserBitsMatch' /\ UnlistedIsUnused' /\ CashOK'
<1> USE DEF MarketInv
<1>1. p \in aTokens /\ amount \in Nat /\ amount > 0 /\ Use
  BY MarketAssumption DEF Transfer
<1>2. \A u \in Users : WordMatches(userConfig[u], debt[u], balance[u])
  BY DEF UserBitsMatch, WordMatches
<1>3. Projects' = Projects /\ aTokens \subseteq Projects
  BY <1>1 DEF Use, Projects, ListOK
<1>types. /\ cash \in [Projects -> Nat] /\ balance \in [Users -> [Projects -> Nat]]
      /\ debt \in [Users -> [Projects -> Nat]] /\ userConfig \in [Users -> SUBSET Nat]
  BY DEF CashOK, UsersOK
<1>4. /\ cash' = cash /\ debt' = debt
      /\ balance' = [balance EXCEPT ![from][p] = @ - amount, ![to][p] = @ + amount]
      /\ userConfig' = FinalizeTransfer(from, to, p, amount)
      /\ amount <= balance[from][p]
      /\ from # to
  BY DEF Transfer
<1>5. cash' \in [Projects -> Nat] /\ Differ(cash, cash', p)
  BY <1>3, <1>4, <1>types DEF Differ
<1>6. /\ \A u \in Users : \A q \in Projects \ {p} : balance'[u][q] = balance[u][q]
      /\ balance'[from][p] = balance[from][p] - amount
      /\ balance'[to][p] = balance[to][p] + amount
      /\ \A u \in Users \ {from, to} : balance'[u] = balance[u]
      /\ balance' \in [Users -> [Projects -> Nat]]
  <2> DEFINE paid == [balance EXCEPT ![from][p] = @ - amount]
  <2>1. paid \in [Users -> [Projects -> Nat]]
    <3>1. balance[from][p] - amount \in Nat
      BY <1>1, <1>3, <1>4, <1>types
    <3> QED
      BY <3>1, <1>3, <1>types
  <2>2. /\ \A u \in Users : \A q \in Projects \ {p} : paid[u][q] = balance[u][q]
        /\ paid[from][p] = balance[from][p] - amount
        /\ \A u \in Users \ {from} : paid[u] = balance[u]
    BY <1>3, <1>types
  <2>3. balance' = [paid EXCEPT ![to][p] = @ + amount]
    BY <1>4
  <2> HIDE DEF paid
  <2>4. /\ \A u \in Users : \A q \in Projects \ {p} : balance'[u][q] = paid[u][q]
        /\ balance'[to][p] = paid[to][p] + amount
        /\ \A u \in Users \ {to} : balance'[u] = paid[u]
    BY <2>1, <2>3, <1>3
  <2>5. paid[to][p] + amount \in Nat
    BY <2>1, <1>1, <1>3
  <2>6. balance' \in [Users -> [Projects -> Nat]]
    BY <2>1, <2>3, <2>5, <1>3
  <2>7. balance'[from][p] = paid[from][p] /\ paid[to][p] = balance[to][p]
    BY <2>2, <2>4, <1>4
  <2>8. \A u \in Users \ {from, to} : balance'[u] = balance[u]
    BY <2>2, <2>4
  <2>9. \A u \in Users : \A q \in Projects \ {p} : balance'[u][q] = balance[u][q]
    BY <2>2, <2>4
  <2> QED
    BY <2>2, <2>4, <2>6, <2>7, <2>8, <2>9
<1>7. UsersOK'
  <2>1. \A on \in BOOLEAN : \A u \in Users :
          SetUsingAsCollateral(userConfig[u], id[p], on) \subseteq Nat
    BY <1>1, <1>types, ReserveIds DEF SetUsingAsCollateral, SetBit, CollateralBit
  <2>2. userConfig' \in [Users -> SUBSET Nat]
    BY <2>1, <1>4, <1>types DEF FinalizeTransfer
  <2> QED
    BY <2>2, <1>3, <1>4, <1>6, <1>types DEF UsersOK
<1>8. ASSUME NEW u \in Users
      PROVE  WordMatches(userConfig'[u], debt'[u], balance'[u]) /\ Differ(debt[u], debt'[u], p)
  <2>1. Differ(balance[u], balance'[u], p) /\ Differ(debt[u], debt'[u], p)
    BY <1>4, <1>6 DEF Differ
  <2>2. CASE u = from /\ balance[from][p] = amount
    <3>1. userConfig'[u] = SetUsingAsCollateral(userConfig[u], id[p], FALSE)
      BY <2>2, <1>4 DEF FinalizeTransfer
    <3>2. WordMatches(SetUsingAsCollateral(userConfig[u], id[p], FALSE), debt[u], balance'[u])
      BY <2>1, <1>1, <1>2, CollateralBitWritten
    <3> QED
      BY <3>1, <3>2, <2>1, <1>4
  <2>3. CASE u = to /\ balance[to][p] = 0
    <3>1. userConfig'[u] = SetUsingAsCollateral(userConfig[u], id[p], TRUE)
      BY <2>3, <1>4 DEF FinalizeTransfer
    <3>2. balance'[u][p] > 0
      BY <2>3, <1>1, <1>6
    <3>3. WordMatches(SetUsingAsCollateral(userConfig[u], id[p], TRUE), debt[u], balance'[u])
      BY <3>2, <2>1, <1>1, <1>2, CollateralBitWritten
    <3> QED
      BY <3>1, <3>3, <2>1, <1>4
  <2>4. CASE ~(u = from /\ balance[from][p] = amount) /\ ~(u = to /\ balance[to][p] = 0)
    <3>1. userConfig'[u] = userConfig[u]
      BY <2>4, <1>4 DEF FinalizeTransfer
    <3>2. balance'[u][p] > 0 \/ balance'[u][p] = balance[u][p]
      <4>1. balance[u][p] \in Nat
        BY <1>3, <1>types
      <4>2. CASE u = from
        <5>1. balance'[u][p] = balance[u][p] - amount /\ amount <= balance[u][p]
          BY <4>2, <1>4, <1>6
        <5>2. balance[u][p] # amount
          BY <4>2, <2>4
        <5> QED
          BY <4>1, <5>1, <5>2, <1>1
      <4>3. CASE u = to
        BY <4>1, <4>3, <2>4, <1>1, <1>6
      <4>4. CASE u \notin {from, to}
        BY <4>4, <1>6
      <4> QED
        BY <4>2, <4>3, <4>4
    <3> QED
      BY <3>1, <3>2, <2>1, <1>1, <1>2, <1>4, WordKept
  <2> QED
    BY <2>2, <2>3, <2>4
<1> QED
  BY <1>1, <1>4, <1>5, <1>7, <1>8, UsingKeepsInv

LEMMA BorrowKeepsInv ==
  ASSUME MarketInv, NEW p \in Projects, NEW amount \in Amounts,
         Borrow(p, amount)
  PROVE  ListOK' /\ UsersOK' /\ UserBitsMatch' /\ UnlistedIsUnused' /\ CashOK'
<1> USE DEF MarketInv
<1>1. p \in aTokens /\ amount \in Nat /\ amount > 0 /\ Use
  BY MarketAssumption DEF Borrow, Open
<1>2. \A u \in Users : WordMatches(userConfig[u], debt[u], balance[u])
  BY DEF UserBitsMatch, WordMatches
<1>3. Projects' = Projects /\ aTokens \subseteq Projects
  BY <1>1 DEF Use, Projects, ListOK
<1>types. /\ cash \in [Projects -> Nat] /\ balance \in [Users -> [Projects -> Nat]]
      /\ debt \in [Users -> [Projects -> Nat]] /\ userConfig \in [Users -> SUBSET Nat]
  BY DEF CashOK, UsersOK
<1>borrower. Borrower \in Users
  BY MarketAssumption
<1>4. /\ cash' = [cash EXCEPT ![p] = @ - amount]
      /\ debt' = [debt EXCEPT ![Borrower][p] = @ + amount]
      /\ balance' = balance
      /\ userConfig' = IF debt[Borrower][p] = 0
                         THEN [userConfig EXCEPT ![Borrower] = SetBorrowing(@, id[p], TRUE)]
                         ELSE userConfig
      /\ amount <= cash[p]
      /\ IsOn(configuration[p], "active")
  BY DEF Borrow, Open
<1>5. cash' \in [Projects -> Nat] /\ Differ(cash, cash', p)
  BY <1>1, <1>3, <1>4, <1>borrower, <1>types DEF Differ
<1>6. UsersOK'
  <2>1. debt' \in [Users -> [Projects -> Nat]]
    BY <1>1, <1>3, <1>4, <1>borrower, <1>types
  <2>2. SetBorrowing(userConfig[Borrower], id[p], TRUE) \subseteq Nat
    BY <1>1, <1>borrower, <1>types, ReserveIds DEF SetBorrowing, SetBit, BorrowingBit
  <2>3. userConfig' \in [Users -> SUBSET Nat]
    BY <2>2, <1>4, <1>types
  <2> QED
    BY <2>1, <2>3, <1>3, <1>4, <1>types DEF UsersOK
<1>7. ASSUME NEW u \in Users
      PROVE  WordMatches(userConfig'[u], debt'[u], balance'[u]) /\ Differ(debt[u], debt'[u], p)
  <2>1. Differ(balance[u], balance'[u], p) /\ Differ(debt[u], debt'[u], p)
    BY <1>3, <1>4, <1>types DEF Differ
  <2>2. CASE u = Borrower /\ debt[Borrower][p] = 0
    <3>1. userConfig'[u] = SetBorrowing(userConfig[u], id[p], TRUE)
      BY <2>2, <1>4, <1>types
    <3>2. TRUE <=> debt'[u][p] > 0
      BY <2>2, <1>1, <1>3, <1>4, <1>borrower, <1>types
    <3>3. WordMatches(SetBorrowing(userConfig[u], id[p], TRUE), debt'[u], balance[u])
      BY <3>2, <2>1, <1>1, <1>2, BorrowingBitWritten
    <3> QED
      BY <3>1, <3>3, <2>1, <1>4
  <2>3. CASE ~(u = Borrower /\ debt[Borrower][p] = 0)
    <3>1. userConfig'[u] = userConfig[u]
      BY <2>3, <1>4, <1>types
    <3>2. debt'[u][p] > 0 <=> debt[u][p] > 0
      BY <2>3, <1>1, <1>3, <1>4, <1>borrower, <1>types
    <3> QED
      BY <3>1, <3>2, <2>1, <1>1, <1>2, <1>4, WordKept
  <2> QED
    BY <2>2, <2>3
<1> QED
  BY <1>1, <1>4, <1>5, <1>6, <1>7, UsingKeepsInv

LEMMA RepayKeepsInv ==
  ASSUME MarketInv, NEW p \in Projects, NEW amount \in Amounts,
         Repay(p, amount)
  PROVE  ListOK' /\ UsersOK' /\ UserBitsMatch' /\ UnlistedIsUnused' /\ CashOK'
<1> USE DEF MarketInv
<1> DEFINE paid == PaybackAmount(amount, debt[Borrower][p])
<1>1. p \in aTokens /\ amount \in Nat /\ amount > 0 /\ Use
  BY MarketAssumption DEF Repay, Open
<1>2. \A u \in Users : WordMatches(userConfig[u], debt[u], balance[u])
  BY DEF UserBitsMatch, WordMatches
<1>3. Projects' = Projects /\ aTokens \subseteq Projects
  BY <1>1 DEF Use, Projects, ListOK
<1>types. /\ cash \in [Projects -> Nat] /\ balance \in [Users -> [Projects -> Nat]]
      /\ debt \in [Users -> [Projects -> Nat]] /\ userConfig \in [Users -> SUBSET Nat]
  BY DEF CashOK, UsersOK
<1>borrower. Borrower \in Users
  BY MarketAssumption
<1>4. /\ cash' = [cash EXCEPT ![p] = @ + paid]
      /\ debt' = [debt EXCEPT ![Borrower][p] = @ - paid]
      /\ balance' = balance
      /\ userConfig' = IF paid = debt[Borrower][p]
                         THEN [userConfig EXCEPT ![Borrower] = SetBorrowing(@, id[p], FALSE)]
                         ELSE userConfig
      /\ IsOn(configuration[p], "active")
  BY DEF Repay, Open
<1>paid. paid \in Nat /\ paid <= debt[Borrower][p]
  BY <1>1, <1>3, <1>borrower, <1>types DEF PaybackAmount
<1> HIDE DEF paid
<1>5. cash' \in [Projects -> Nat] /\ Differ(cash, cash', p)
  BY <1>1, <1>3, <1>4, <1>borrower, <1>paid, <1>types DEF Differ
<1>6. UsersOK'
  <2>1. debt' \in [Users -> [Projects -> Nat]]
    BY <1>1, <1>3, <1>4, <1>borrower, <1>paid, <1>types
  <2>2. SetBorrowing(userConfig[Borrower], id[p], FALSE) \subseteq Nat
    BY <1>1, <1>borrower, <1>types, ReserveIds DEF SetBorrowing, SetBit, BorrowingBit
  <2>3. userConfig' \in [Users -> SUBSET Nat]
    BY <2>2, <1>4, <1>types
  <2> QED
    BY <2>1, <2>3, <1>3, <1>4, <1>types DEF UsersOK
<1>7. ASSUME NEW u \in Users
      PROVE  WordMatches(userConfig'[u], debt'[u], balance'[u]) /\ Differ(debt[u], debt'[u], p)
  <2>1. Differ(balance[u], balance'[u], p) /\ Differ(debt[u], debt'[u], p)
    BY <1>3, <1>4, <1>types DEF Differ
  <2>2. CASE u = Borrower /\ paid = debt[Borrower][p]
    <3>1. userConfig'[u] = SetBorrowing(userConfig[u], id[p], FALSE)
      BY <2>2, <1>4, <1>types
    <3>2. FALSE <=> debt'[u][p] > 0
      BY <2>2, <1>1, <1>3, <1>4, <1>borrower, <1>paid, <1>types
    <3>3. WordMatches(SetBorrowing(userConfig[u], id[p], FALSE), debt'[u], balance[u])
      BY <3>2, <2>1, <1>1, <1>2, BorrowingBitWritten
    <3> QED
      BY <3>1, <3>3, <2>1, <1>4
  <2>3. CASE ~(u = Borrower /\ paid = debt[Borrower][p])
    <3>1. userConfig'[u] = userConfig[u]
      BY <2>3, <1>4, <1>types
    <3>2. debt'[u][p] > 0 <=> debt[u][p] > 0
      BY <2>3, <1>1, <1>3, <1>4, <1>borrower, <1>paid, <1>types
    <3> QED
      BY <3>1, <3>2, <2>1, <1>1, <1>2, <1>4, WordKept
  <2> QED
    BY <2>2, <2>3
<1> QED
  BY <1>1, <1>4, <1>5, <1>6, <1>7, UsingKeepsInv

-----------------------------------------------------------------------------
(* The steps of a market *)

LEMMA StoreIsSetting ==
  ASSUME NEW p \in Projects, NEW data, Store(p, data),
         cash[p] = 0 \/ (IsOn(configuration[p], "active") => IsOn(data, "active"))
  PROVE  Setting
<1>1. /\ configuration' = [configuration EXCEPT ![p] = data]
      /\ UNCHANGED <<market, stage, cursor, aTokens, id, reservesList, userVars>>
  BY DEF Store, scriptVars, reserveVars
<1>2. DOMAIN configuration' = Projects /\ configuration'[p] = data
        /\ \A q \in Projects \ {p} : configuration'[q] = configuration[q]
  BY <1>1 DEF Projects
<1> QED
  BY <1>1, <1>2 DEF Setting, StaysActive

\* A step that leaves every word and every user alone.
LEMMA SameWordsIsSetting ==
  ASSUME UNCHANGED <<configuration, aTokens, id, reservesList, userVars, market>>,
         stage' = "initialising" => stage = "initialising" /\ cursor' = cursor
  PROVE  Setting
BY DEF Setting, StaysActive, Projects

LEMMA ScriptSteps ==
  ASSUME MarketInv, Script
  PROVE  (\E p \in Projects : Listing(p)) \/ Setting
<1>1. CASE InitNextReserve
  <2> DEFINE entry == Rows[cursor + 1]
  <2>1. entry.project \in Projects
    <3>1. cursor + 1 \in DOMAIN Rows
      BY <1>1, MarketAssumption DEF InitNextReserve, MarketInv, ScriptOK, Rows
    <3> QED
      BY <3>1 DEF MarketInv, ScriptOK
  <2>2. cursor \in Nat /\ stage = "initialising"
    BY <1>1 DEF InitNextReserve, MarketInv, ScriptOK
  <2>3. Listing(entry.project)
    <3>1. \E curve : PoolInitReserve(entry.project, curve)
      BY <1>1 DEF InitNextReserve
    <3>2. \E decimals : configuration' = [configuration EXCEPT
                                            ![entry.project] = Initialised(@, decimals)]
      BY <1>1 DEF InitNextReserve
    <3>3. UNCHANGED <<userVars, market>> /\ cursor' = cursor + 1
      BY <1>1 DEF InitNextReserve
    <3>4. stage' = "initialising" => stage = "initialising" /\ cursor' \in Nat
      BY <2>2, <3>3
    <3> HIDE DEF entry
    <3> QED
      BY <3>1, <3>2, <3>3, <3>4, Zenon DEF Listing
  <2> QED
    BY <2>1, <2>3
<1>2. CASE HandOver \/ HandBack \/ Abort
  BY <1>2, SameWordsIsSetting DEF HandOver, HandBack, Abort, reserveVars
<1>3. CASE ConfigureReserves
  <2>1. /\ UNCHANGED <<aTokens, id, reservesList, userVars, market, stage>>
        /\ stage # "initialising"
    BY <1>3 DEF ConfigureReserves, reserveVars
  <2>2. configuration' = [p \in Projects |-> IF p \in {entry.project : entry \in Chunk}
                                               THEN Configured(configuration[p], RowOf(p))
                                               ELSE configuration[p]]
    BY <1>3 DEF ConfigureReserves
  <2>3. \A p \in Projects : StaysActive(p)
    BY <2>2, ConfiguringKeepsActive DEF StaysActive
  <2> QED
    BY <2>1, <2>2, <2>3 DEF Setting
<1> QED
  BY <1>1, <1>2, <1>3 DEF Script

LEMMA SwitchSteps ==
  ASSUME NEW p \in Projects, SwitchReserve(p)
  PROVE  Setting
<1> DEFINE word == configuration[p]
<1>1. CASE ActivateReserve(p)
  BY <1>1, ActivationHolds, StoreIsSetting DEF ActivateReserve
<1>2. CASE DeactivateReserve(p)
  BY <1>2, StoreIsSetting DEF DeactivateReserve, NoLiquidity
<1>3. ASSUME NEW on \in BOOLEAN, NEW f \in Switches \ {"active"}, Store(p, SwitchTo(word, f, on))
      PROVE  Setting
  BY <1>3, SwitchKeepsActive, StoreIsSetting
<1>4. {"borrowing", "stableRate", "frozen", "deposits", "withdrawals", "interestWithdrawals"}
        \subseteq Switches \ {"active"}
  BY DEF Switches
<1>5. ASSUME NEW on \in BOOLEAN, EnableBorrowingOnReserve(p, on)
      PROVE  Setting
  <2> DEFINE lent == SwitchTo(word, "borrowing", TRUE)
  <2>1. IsOn(lent, "active") <=> IsOn(word, "active")
    BY <1>4, SwitchKeepsActive
  <2>2. Store(p, SwitchTo(lent, "stableRate", on))
    BY <1>5 DEF EnableBorrowingOnReserve
  <2> HIDE DEF lent
  <2>3. IsOn(SwitchTo(lent, "stableRate", on), "active") <=> IsOn(lent, "active")
    BY <1>4, SwitchKeepsActive
  <2> QED
    BY <2>1, <2>2, <2>3, StoreIsSetting
<1>6. CASE DisableBorrowingOnReserve(p)
  BY <1>3, <1>4, <1>6 DEF DisableBorrowingOnReserve
<1>7. ASSUME NEW on \in BOOLEAN,
             \/ SetReserveStableRate(p, on) \/ SetReserveFrozen(p, on)
             \/ SetDepositsOnReserve(p, on) \/ SetWithdrawalsOnReserve(p, on)
             \/ SetInterestWithdrawalsOnReserve(p, on)
      PROVE  Setting
  BY <1>3, <1>4, <1>7 DEF SetReserveStableRate, SetReserveFrozen, SetDepositsOnReserve,
     SetWithdrawalsOnReserve, SetInterestWithdrawalsOnReserve
<1> QED
  BY <1>1, <1>2, <1>5, <1>6, <1>7 DEF SwitchReserve

LEMMA AdministrationSteps ==
  ASSUME MarketInv, NEW p \in Projects, Administration(p)
  PROVE  Listing(p) \/ Setting
<1>1. CASE BatchInitReserve(p)
  BY <1>1 DEF BatchInitReserve, Listing, scriptVars, MarketInv, ScriptOK
<1>2. CASE SwitchReserve(p)
  BY <1>2, SwitchSteps
<1>3. CASE \E t \in Terms : ConfigureReserveAsCollateral(p, t[1], t[2], t[3])
  BY <1>3, TermsKeepActive, StoreIsSetting DEF ConfigureReserveAsCollateral
<1>4. CASE \E factor \in Factors : SetReserveFactor(p, factor)
  <2>1. "reserveFactor" \in Fields \ {"active", "decimals"}
    BY DEF Fields, Switches
  <2> QED
    BY <1>4, <2>1, SetFieldKeepsActive, StoreIsSetting DEF SetReserveFactor
<1>5. CASE \E rate \in LiquidityRates : UpdateReserveRates(p, rate)
  BY <1>5, SameWordsIsSetting DEF UpdateReserveRates, scriptVars, reserveVars
<1>6. CASE \E i \in DOMAIN Rows : SetStrategy(p, Rows[i].row.strategy.name)
  BY <1>6, SameWordsIsSetting DEF SetStrategy, scriptVars
<1> QED
  BY <1>1, <1>2, <1>3, <1>4, <1>5, <1>6 DEF Administration

\* Whatever the step, the market and its projects stay.
LEMMA ScriptKept ==
  ASSUME MarketInv, market' = market, Projects' = Projects,
         stage' = "initialising" => cursor' \in Nat
  PROVE  ScriptOK'
BY DEF MarketInv, ScriptOK, Rows

LEMMA UsageKeepsInv ==
  ASSUME MarketInv, NEW p \in Projects, NEW amount \in Amounts, Usage(p, amount)
  PROVE  MarketInv'
<1>1. Use
  BY DEF Usage, Borrow, Repay, Deposit, Withdraw, Transfer
<1>2. ScriptOK'
  BY <1>1, ScriptKept DEF Use, scriptVars, Projects, MarketInv, ScriptOK
<1>3. ListOK' /\ UsersOK' /\ UserBitsMatch' /\ UnlistedIsUnused' /\ CashOK'
  BY DepositKeepsInv, WithdrawKeepsInv, TransferKeepsInv, BorrowKeepsInv, RepayKeepsInv
     DEF Usage
<1> QED
  BY <1>2, <1>3 DEF MarketInv

\* Every step keeps the invariant.
LEMMA NextKeepsInv ==
  ASSUME MarketInv, [Next]_vars
  PROVE  MarketInv'
<1>1. ASSUME NEW p \in Projects, Listing(p)
      PROVE  MarketInv'
  <2>1. Projects' = Projects
    BY <1>1, ListingKeepsProjects DEF MarketInv
  <2>2. ScriptOK'
    BY <1>1, <2>1, ScriptKept DEF Listing
  <2> QED
    BY <1>1, <2>2, ListingKeepsList, ListingKeepsWords, ListingKeepsCash DEF MarketInv
<1>2. ASSUME Setting
      PROVE  MarketInv'
  <2>1. ScriptOK'
    BY <1>2, ScriptKept DEF Setting, Projects, MarketInv, ScriptOK
  <2> QED
    BY <1>2, <2>1, SettingKeepsInv DEF MarketInv
<1>3. CASE Script
  BY <1>1, <1>2, <1>3, ScriptSteps
<1>4. CASE Beside
  <2> SUFFICES ASSUME NEW p \in Projects,
                      Administration(p) \/ \E amount \in Amounts : Usage(p, amount)
               PROVE  MarketInv'
    BY <1>4 DEF Beside
  <2>1. CASE Administration(p)
    BY <2>1, <1>1, <1>2, AdministrationSteps
  <2>2. CASE \E amount \in Amounts : Usage(p, amount)
    BY <2>2, UsageKeepsInv
  <2> QED
    BY <2>1, <2>2
<1>5. CASE UNCHANGED vars
  <2>1. Setting
    BY <1>5, SameWordsIsSetting DEF vars, scriptVars, reserveVars, userVars
  <2> QED
    BY <1>2, <2>1
<1> QED
  BY <1>3, <1>4, <1>5 DEF Next

LEMMA InitHasInv ==
  ASSUME Init
  PROVE  MarketInv
<1>1. Projects = {Rows[i].project : i \in DOMAIN Rows}
  BY DEF Init, Projects
<1>2. ScriptOK
  BY <1>1 DEF Init, ScriptOK
<1>3. /\ aTokens = {} /\ reservesList = <<>> /\ id = [p \in Projects |-> 0]
      /\ cash = [p \in Projects |-> 0]
      /\ balance = [user \in Users |-> [p \in Projects |-> 0]]
      /\ debt = [user \in Users |-> [p \in Projects |-> 0]]
      /\ userConfig = [user \in Users |-> {}]
  BY DEF Init, Nothing
<1>4. ListOK
  <2>1. MaxReserves \in Nat
    BY MarketAssumption
  <2> QED
    BY <1>3, <2>1 DEF ListOK, ListIsIndexed
<1>5. UsersOK /\ UserBitsMatch /\ UnlistedIsUnused
  BY <1>3 DEF UsersOK, UserBitsMatch, UnlistedIsUnused
<1>6. CashOK
  BY <1>3 DEF CashOK, InactiveHoldsNoCash
<1> QED
  BY <1>2, <1>4, <1>5, <1>6 DEF MarketInv

-----------------------------------------------------------------------------
(* The theorems *)

\* The invariant holds throughout, for any markets, users and administrators.
THEOREM MarketInvariant == Spec => []MarketInv
<1>1. Init => MarketInv
  BY InitHasInv
<1>2. MarketInv /\ [Next]_vars => MarketInv'
  BY NextKeepsInv
<1> QED
  BY <1>1, <1>2, PTL DEF Spec

\* _addReserveToList: the list and the ids are each other's inverse, for any
\* number of reserves and whoever lists them.
THEOREM ListCorrect == Spec => []ListIsIndexed
<1>1. MarketInv => ListIsIndexed
  BY DEF MarketInv, ListOK
<1> QED
  BY <1>1, MarketInvariant, PTL

\* UserConfiguration: a user's word says who owes what, in every market.
THEOREM UserBitsCorrect == Spec => []UserBitsMatch
<1>1. MarketInv => UserBitsMatch
  BY DEF MarketInv
<1> QED
  BY <1>1, MarketInvariant, PTL

\* _checkNoLiquidity: whatever is configured, and in any order, no reserve that
\* holds cash is switched off.
THEOREM InactiveCorrect == Spec => []InactiveHoldsNoCash
<1>1. MarketInv => InactiveHoldsNoCash
  BY DEF MarketInv, CashOK
<1> QED
  BY <1>1, MarketInvariant, PTL
-----------------------------------------------------------------------------
(* The types *)

\* What TypeOK says beside what the invariant does.
OtherTypes ==
  /\ stage \in {"initialising", "configuring", "done", "failed"}
  /\ cursor \in 0 .. Len(Rows)
  /\ poolAdmin \in {Deployer, Helper}
  /\ \A p \in Projects : configuration[p] \subseteq Nat
  /\ DOMAIN strategy = Projects
  /\ liquidityRate \in [Projects -> Nat]
  /\ spent \in Nat

\* A word stays a set of positions.
LEMMA FieldTypes ==
  ASSUME NEW data \in SUBSET Nat
  PROVE  /\ \A f \in Fields : \A value : SetField(data, f, value) \subseteq Nat
         /\ \A f \in Switches : \A on \in BOOLEAN : SwitchTo(data, f, on) \subseteq Nat
<1>1. \A f \in Fields : FieldStart[f] \in Nat
  BY DEF Fields, Switches, FieldStart
<1>2. \A value : Bits(value) \subseteq Nat
  BY DEF Bits
<1>3. Switches \subseteq Fields
  BY DEF Fields
<1>4. ASSUME NEW f \in Fields, NEW value PROVE SetField(data, f, value) \subseteq Nat
  <2>1. \A i \in Bits(value) : FieldStart[f] + i \in Nat
    BY <1>1, <1>2
  <2> QED
    BY <2>1 DEF SetField
<1>5. ASSUME NEW f \in Switches, NEW on \in BOOLEAN PROVE SwitchTo(data, f, on) \subseteq Nat
  BY <1>1, <1>3 DEF SwitchTo
<1> QED
  BY <1>4, <1>5

LEMMA WordTypes ==
  ASSUME NEW data \in SUBSET Nat
  PROVE  /\ \A decimals : Initialised(data, decimals) \subseteq Nat
         /\ \A ltv, threshold, bonus : WithTerms(data, ltv, threshold, bonus) \subseteq Nat
         /\ \A row : Configured(data, row) \subseteq Nat
<1>1. /\ {"decimals", "ltv", "liquidationThreshold", "liquidationBonus", "reserveFactor"}
           \subseteq Fields
      /\ {"active", "frozen", "borrowing", "stableRate", "deposits", "withdrawals",
          "interestWithdrawals"} \subseteq Switches
  BY DEF Fields, Switches
<1>2. ASSUME NEW decimals PROVE Initialised(data, decimals) \in SUBSET Nat
  BY <1>1, FieldTypes DEF Initialised
<1>3. ASSUME NEW ltv, NEW threshold, NEW bonus
      PROVE  WithTerms(data, ltv, threshold, bonus) \in SUBSET Nat
  BY <1>1, FieldTypes DEF WithTerms
<1>4. ASSUME NEW row PROVE Configured(data, row) \in SUBSET Nat
  <2> DEFINE terms  == WithTerms(data, row.baseLTVAsCollateral,
                                 row.liquidationThreshold, row.liquidationBonus)
             lent   == OpenedToBorrowers(terms, row)
             first  == Opened(lent, row, "deposits")
             second == Opened(first, row, "withdrawals")
             third  == Opened(second, row, "interestWithdrawals")
  <2>1. Configured(data, row) = SetField(third, "reserveFactor", row.reserveFactor)
    BY DEF Configured
  <2>2. ASSUME NEW word \in SUBSET Nat, NEW f \in {"deposits", "withdrawals", "interestWithdrawals"}
        PROVE  Opened(word, row, f) \in SUBSET Nat
    BY <1>1, FieldTypes DEF Opened
  <2>3. terms \in SUBSET Nat BY <1>3
  <2> HIDE DEF terms
  <2>4. lent \in SUBSET Nat
    <3>1. SwitchTo(terms, "borrowing", TRUE) \in SUBSET Nat BY <1>1, <2>3, FieldTypes
    <3>2. ("stableRate" \in row.enabled) \in BOOLEAN OBVIOUS
    <3>3. SwitchTo(SwitchTo(terms, "borrowing", TRUE), "stableRate", "stableRate" \in row.enabled)
            \in SUBSET Nat
      BY <1>1, <3>1, <3>2, FieldTypes
    <3> QED BY <2>3, <3>3 DEF OpenedToBorrowers
  <2> HIDE DEF lent
  <2>5. first \in SUBSET Nat BY <2>2, <2>4
  <2> HIDE DEF first
  <2>6. second \in SUBSET Nat BY <2>2, <2>5
  <2> HIDE DEF second
  <2>7. third \in SUBSET Nat BY <2>2, <2>6
  <2> HIDE DEF third
  <2> QED BY <1>1, <2>1, <2>7, FieldTypes
<1> QED
  BY <1>2, <1>3, <1>4

\* There are no more configurable rows than rows.
LEMMA ConfigurableRows ==
  ASSUME ScriptOK
  PROVE  /\ Len(Rows) \in Nat /\ DOMAIN Rows = 1 .. Len(Rows)
         /\ IsFiniteSet(Configurable)
         /\ Cardinality(Configurable) \in 0 .. Len(Rows)
<1>1. Len(Rows) \in Nat /\ DOMAIN Rows = 1 .. Len(Rows)
  BY MarketAssumption DEF ScriptOK, Rows
<1>2. IsFiniteSet(1 .. Len(Rows)) /\ Cardinality(1 .. Len(Rows)) = Len(Rows)
  <2>1. 1 \in Int /\ Len(Rows) \in Int BY <1>1
  <2>2. Cardinality(1 .. Len(Rows)) = IF 1 > Len(Rows) THEN 0 ELSE Len(Rows) - 1 + 1
    BY <2>1, FS_Interval
  <2> QED BY <1>1, <2>1, <2>2, FS_Interval
<1>3. Configurable \subseteq 1 .. Len(Rows)
  BY <1>1 DEF Configurable
<1>4. IsFiniteSet(Configurable) /\ Cardinality(Configurable) <= Len(Rows)
  BY <1>2, <1>3, FS_Subset
<1> QED
  BY <1>1, <1>4, FS_CardinalityType

\* A step that leaves the words, the curves and the rates alone.
LEMMA SameTypes ==
  ASSUME OtherTypes, UNCHANGED <<market, stage, cursor, poolAdmin, liquidityRate>>,
         DOMAIN configuration' = Projects, DOMAIN strategy' = DOMAIN strategy,
         \A p \in Projects : configuration'[p] \subseteq Nat, spent' \in Nat
  PROVE  OtherTypes'
BY DEF OtherTypes, Projects, Rows

LEMMA ScriptTypes ==
  ASSUME MarketInv, OtherTypes, Script, spent' \in Nat
  PROVE  OtherTypes'
<1>1. Len(Rows) \in Nat /\ Cardinality(Configurable) \in 0 .. Len(Rows)
  BY ConfigurableRows DEF MarketInv
<1>2. CASE InitNextReserve
  <2> DEFINE p == Rows[cursor + 1].project
             decimals == Rows[cursor + 1].row.reserveDecimals
             curve == Rows[cursor + 1].row.strategy.name
  <2>1. /\ configuration' = [configuration EXCEPT ![p] = Initialised(@, decimals)]
        /\ strategy' = [strategy EXCEPT ![p] = curve]
        /\ cursor < Len(Rows) /\ cursor' = cursor + 1
        /\ UNCHANGED <<market, stage, poolAdmin, liquidityRate>>
    BY <1>2 DEF InitNextReserve, PoolInitReserve
  <2> HIDE DEF p, decimals, curve
  <2>2. Projects' = Projects /\ DOMAIN strategy' = DOMAIN strategy /\ Rows' = Rows
    BY <2>1 DEF Projects, Rows
  <2>3. \A q \in Projects : configuration'[q] \subseteq Nat
    BY <2>1, WordTypes DEF OtherTypes, Projects
  <2>4. cursor' \in 0 .. Len(Rows)
    BY <1>1, <2>1 DEF OtherTypes
  <2> QED
    BY <2>1, <2>2, <2>3, <2>4 DEF OtherTypes
<1>3. CASE HandOver
  BY <1>1, <1>3 DEF HandOver, OtherTypes, reserveVars, Projects, Rows
<1>4. CASE ConfigureReserves
  <2>1. /\ configuration' = [p \in Projects |-> IF p \in {entry.project : entry \in Chunk}
                                                  THEN Configured(configuration[p], RowOf(p))
                                                  ELSE configuration[p]]
        /\ cursor' = ChunkEnd
        /\ UNCHANGED <<market, stage, poolAdmin, strategy, liquidityRate>>
    BY <1>4 DEF ConfigureReserves, reserveVars
  <2>2. Projects' = Projects /\ Rows' = Rows
    BY <2>1 DEF Projects, Rows
  <2>3. \A q \in Projects : configuration'[q] \subseteq Nat
    BY <2>1, WordTypes DEF OtherTypes
  <2>4. cursor' \in 0 .. Len(Rows)
    BY <1>1, <2>1 DEF ChunkEnd, enableChunks, OtherTypes
  <2> QED
    BY <2>1, <2>2, <2>3, <2>4 DEF OtherTypes
<1>5. CASE HandBack \/ Abort
  BY <1>5 DEF HandBack, Abort, OtherTypes, reserveVars, Projects, Rows
<1> QED
  BY <1>2, <1>3, <1>4, <1>5 DEF Script

LEMMA StoreTypes ==
  ASSUME OtherTypes, spent' \in Nat, NEW p \in Projects, NEW data \in SUBSET Nat, Store(p, data)
  PROVE  OtherTypes'
<1>1. /\ configuration' = [configuration EXCEPT ![p] = data]
      /\ UNCHANGED <<market, stage, cursor, poolAdmin, liquidityRate, strategy>>
  BY DEF Store, scriptVars, reserveVars
<1>2. DOMAIN configuration' = Projects /\ \A q \in Projects : configuration'[q] \subseteq Nat
  BY <1>1 DEF OtherTypes, Projects
<1> QED
  BY <1>1, <1>2, SameTypes

LEMMA AdministrationTypes ==
  ASSUME OtherTypes, spent' \in Nat, NEW p \in Projects, Administration(p)
  PROVE  OtherTypes'
<1> DEFINE word == configuration[p]
<1>1. word \in SUBSET Nat
  BY DEF OtherTypes
<1>2. ASSUME NEW f \in Switches, NEW on \in BOOLEAN, Store(p, SwitchTo(word, f, on))
      PROVE  OtherTypes'
  BY <1>1, <1>2, FieldTypes, StoreTypes
<1>3. Switches = {"active", "frozen", "borrowing", "stableRate", "deposits", "withdrawals",
                  "interestWithdrawals"}
  BY DEF Switches
<1>4. CASE ActivateReserve(p) \/ DeactivateReserve(p) \/ DisableBorrowingOnReserve(p)
  BY <1>2, <1>3, <1>4 DEF ActivateReserve, DeactivateReserve, DisableBorrowingOnReserve
<1>5. ASSUME NEW on \in BOOLEAN, EnableBorrowingOnReserve(p, on)
      PROVE  OtherTypes'
  <2>1. SwitchTo(word, "borrowing", TRUE) \in SUBSET Nat
    BY <1>1, <1>3, FieldTypes
  <2>2. SwitchTo(SwitchTo(word, "borrowing", TRUE), "stableRate", on) \in SUBSET Nat
    BY <1>3, <2>1, FieldTypes
  <2> QED
    BY <1>5, <2>2, StoreTypes DEF EnableBorrowingOnReserve
<1>6. ASSUME NEW on \in BOOLEAN,
             \/ SetReserveStableRate(p, on) \/ SetReserveFrozen(p, on)
             \/ SetDepositsOnReserve(p, on) \/ SetWithdrawalsOnReserve(p, on)
             \/ SetInterestWithdrawalsOnReserve(p, on)
      PROVE  OtherTypes'
  BY <1>2, <1>3, <1>6 DEF SetReserveStableRate, SetReserveFrozen, SetDepositsOnReserve,
     SetWithdrawalsOnReserve, SetInterestWithdrawalsOnReserve
<1>7. CASE SwitchReserve(p)
  BY <1>4, <1>5, <1>6, <1>7 DEF SwitchReserve
<1>8. CASE BatchInitReserve(p)
  <2> DEFINE curve == CurveFor(RowOf(p).strategy.name).name
             decimals == RowOf(p).reserveDecimals
  <2>1. /\ configuration' = [configuration EXCEPT ![p] = Initialised(@, decimals)]
        /\ strategy' = [strategy EXCEPT ![p] = curve]
        /\ UNCHANGED <<market, stage, cursor, poolAdmin, liquidityRate>>
    BY <1>8 DEF BatchInitReserve, PoolInitReserve, scriptVars
  <2> HIDE DEF curve, decimals
  <2>2. DOMAIN configuration' = Projects /\ \A q \in Projects : configuration'[q] \subseteq Nat
    BY <2>1, WordTypes DEF OtherTypes, Projects
  <2> QED
    BY <2>1, <2>2, SameTypes
<1>9. CASE \E t \in Terms : ConfigureReserveAsCollateral(p, t[1], t[2], t[3])
  BY <1>1, <1>9, WordTypes, StoreTypes DEF ConfigureReserveAsCollateral
<1>10. CASE \E factor \in Factors : SetReserveFactor(p, factor)
  <2>1. "reserveFactor" \in Fields
    BY DEF Fields
  <2> QED
    BY <1>1, <1>10, <2>1, FieldTypes, StoreTypes DEF SetReserveFactor
<1>11. CASE \E rate \in LiquidityRates : UpdateReserveRates(p, rate)
  BY <1>11, MarketAssumption
     DEF UpdateReserveRates, OtherTypes, scriptVars, reserveVars, Projects, Rows
<1>12. CASE \E i \in DOMAIN Rows : SetStrategy(p, Rows[i].row.strategy.name)
  <2>1. /\ UNCHANGED <<market, stage, cursor, poolAdmin, liquidityRate, configuration>>
        /\ DOMAIN strategy' = DOMAIN strategy
    BY <1>12 DEF SetStrategy, scriptVars
  <2> QED
    BY <2>1, SameTypes DEF OtherTypes, Projects
<1> QED
  BY <1>7, <1>8, <1>9, <1>10, <1>11, <1>12 DEF Administration

\* Every variable keeps its type: a word is a set of positions whatever is written,
\* and the script's place stays among the rows.
THEOREM MarketTypes == Spec => []TypeOK
<1>1. ASSUME Init PROVE OtherTypes
  <2>1. Len(Rows) \in Nat
    BY <1>1, InitHasInv, ConfigurableRows DEF MarketInv
  <2>2. /\ stage = "initialising" /\ cursor = 0 /\ poolAdmin = Deployer /\ spent = 0
        /\ strategy = [p \in Projects |-> ""] /\ liquidityRate = [p \in Projects |-> 0]
        /\ \A p \in Projects : configuration[p] = {}
    BY <1>1 DEF Init, Projects, Nothing
  <2>3. DOMAIN strategy = Projects /\ liquidityRate \in [Projects -> Nat]
    BY <2>2
  <2>4. cursor \in 0 .. Len(Rows) /\ spent \in Nat
    <3> DEFINE n == Len(Rows)
    <3>1. n \in Nat /\ cursor = 0 /\ spent = 0
      BY <2>1, <2>2
    <3> HIDE DEF n
    <3>2. cursor \in 0 .. n /\ spent \in Nat
      BY <3>1
    <3> QED
      BY <3>2 DEF n
  <2>5. \A p \in Projects : configuration[p] \subseteq Nat
    BY <2>2
  <2> QED
    BY <2>2, <2>3, <2>4, <2>5, Zenon DEF OtherTypes
<1>2. ASSUME MarketInv, OtherTypes, [Next]_vars PROVE OtherTypes'
  <2>1. spent' \in Nat
    BY <1>2 DEF Next, OtherTypes, vars
  <2>2. CASE Script
    BY <1>2, <2>1, <2>2, ScriptTypes
  <2>3. ASSUME NEW p \in Projects, Administration(p) PROVE OtherTypes'
    BY <1>2, <2>1, <2>3, AdministrationTypes
  <2>4. ASSUME NEW p \in Projects, NEW amount \in Amounts, Usage(p, amount) PROVE OtherTypes'
    <3>1. Use
      BY <2>4 DEF Usage, Borrow, Repay, Deposit, Withdraw, Transfer
    <3> QED
      BY <1>2, <2>1, <3>1, SameTypes DEF Use, scriptVars, reserveVars, OtherTypes, Projects
  <2>5. CASE UNCHANGED vars
    BY <1>2, <2>1, <2>5, SameTypes DEF vars, scriptVars, reserveVars, OtherTypes, Projects
  <2> QED
    BY <1>2, <2>2, <2>3, <2>4, <2>5 DEF Next, Beside
<1>3. MarketInv /\ OtherTypes => TypeOK
  BY DEF MarketInv, ScriptOK, ListOK, UsersOK, CashOK, OtherTypes, TypeOK
<1> QED
  BY <1>1, <1>2, <1>3, MarketInvariant, PTL DEF Spec
===============================================================================
