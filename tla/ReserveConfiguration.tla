-------------------------- MODULE ReserveConfiguration --------------------------
(***************************************************************************)
(* ReserveConfiguration.sol: twelve settings of a reserve packed into one  *)
(* word.  The word is the set of the positions of its bits that are one,   *)
(* so `word & mask` is an intersection and `|` a union.                    *)
(***************************************************************************)
EXTENDS Integers, FiniteSets, Functions

Switches == {"active", "frozen", "borrowing", "stableRate", "deposits",
             "withdrawals", "interestWithdrawals"}
Fields == {"ltv", "liquidationThreshold", "liquidationBonus", "decimals",
           "reserveFactor"} \cup Switches

\* The *_START_BIT_POSITION constants.
FieldStart ==
  [ltv |-> 0, liquidationThreshold |-> 16, liquidationBonus |-> 32,
   decimals |-> 48, active |-> 56, frozen |-> 57, borrowing |-> 58,
   stableRate |-> 59, reserveFactor |-> 64, deposits |-> 80,
   withdrawals |-> 81, interestWithdrawals |-> 82]

\* How many digits of ones the *_MASK constants leave out.
FieldWidth ==
  [f \in Fields |-> IF f \in Switches THEN 1 ELSE IF f = "decimals" THEN 8 ELSE 16]

\* Fault: the mask of a short field clears as much as that of a long one.
MaskedWide(f) == FieldStart[f] .. (FieldStart[f] + 15)

\* The bits a setter clears before it writes, which a getter reads.
Masked(f) == FieldStart[f] .. (FieldStart[f] + FieldWidth[f] - 1)

\* The MAX_VALID_* constants; a switch is a bool.
MaxValid(f) == 2 ^ FieldWidth[f] - 1

Bits(value) == {i \in 0 .. 16 : (value \div 2 ^ i) % 2 = 1}

\* set...: `(self.data & MASK) | (value << START)`.
SetField(data, f, value) ==
  (data \ Masked(f)) \cup {FieldStart[f] + i : i \in Bits(value)}

PlaceValue == [i \in 0 .. 15 |-> 2 ^ i]

Digits(data, f) == {i \in 0 .. FieldWidth[f] - 1 : FieldStart[f] + i \in data}

\* get...: `(self.data & ~MASK) >> START`, the value of the field's digits.
GetField(data, f) == SumFunctionOnSet(PlaceValue, Digits(data, f))

IsOn(data, f) == FieldStart[f] \in data
SwitchTo(data, f, on) ==
  (data \ Masked(f)) \cup (IF on THEN {FieldStart[f]} ELSE {})
===============================================================================
