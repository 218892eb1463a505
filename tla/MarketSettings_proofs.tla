-------------------------- MODULE MarketSettings_proofs --------------------------
(***************************************************************************)
(* The packed words of a market implement its settings: every setter       *)
(* writes the field it is about and no other, whatever the word was, so    *)
(* that every transaction is one that MarketSettings allows.               *)
(***************************************************************************)
EXTENDS MarketConfiguration_proofs, SumFunction_proofs, TokenUpgrades

-----------------------------------------------------------------------------
(* The value of digits *)

\* The value of a set of digits, of which there are sixteen at most.
Value(digits) == SumFunctionOnSet(PlaceValue, digits)

\* The last digits of a number, as many as n.
LastDigits(number, n) == {i \in 0 .. n - 1 : (number \div 2 ^ i) % 2 = 1}

\* Powers of two are positive, and each is twice the one before.
LEMMA Powers ==
  \A i \in 0 .. 15 : 2 ^ i \in Nat \ {0} /\ 2 ^ (i + 1) = 2 * 2 ^ i
<1> SUFFICES ASSUME NEW i \in 0 .. 15
             PROVE  2 ^ i \in Nat \ {0} /\ 2 ^ (i + 1) = 2 * 2 ^ i
  OBVIOUS
<1>1. CASE i = 0 BY <1>1
<1>2. CASE i = 1 BY <1>2
<1>3. CASE i = 2 BY <1>3
<1>4. CASE i = 3 BY <1>4
<1>5. CASE i = 4 BY <1>5
<1>6. CASE i = 5 BY <1>6
<1>7. CASE i = 6 BY <1>7
<1>8. CASE i = 7 BY <1>8
<1>9. CASE i = 8 BY <1>9
<1>10. CASE i = 9 BY <1>10
<1>11. CASE i = 10 BY <1>11
<1>12. CASE i = 11 BY <1>12
<1>13. CASE i = 12 BY <1>13
<1>14. CASE i = 13 BY <1>14
<1>15. CASE i = 14 BY <1>15
<1>16. CASE i = 15 BY <1>16
<1> QED
  BY <1>1, <1>2, <1>3, <1>4, <1>5, <1>6, <1>7, <1>8, <1>9, <1>10, <1>11, <1>12, <1>13,
     <1>14, <1>15, <1>16

Power(i) == 2 ^ i

\* They grow.
LEMMA PowersGrow ==
  \A i \in 0 .. 16 : /\ Power(i) \in Nat \ {0}
                     /\ i >= 1 => Power(i) >= 2
                     /\ i >= 8 => Power(i) >= 256
                     /\ i >= 16 => Power(i) >= 65536
<1>1. Power(0) = 1 BY DEF Power
<1>2. \A i \in 0 .. 15 : Power(i) \in Nat /\ Power(i + 1) = 2 * Power(i)
  BY Powers DEF Power
<1>3. Power(1) = 2 /\ Power(2) = 4 /\ Power(3) = 8 /\ Power(4) = 16 BY <1>1, <1>2
<1>4. Power(5) = 32 /\ Power(6) = 64 /\ Power(7) = 128 /\ Power(8) = 256 BY <1>2, <1>3
<1>5. Power(9) = 512 /\ Power(10) = 1024 /\ Power(11) = 2048 /\ Power(12) = 4096
  BY <1>2, <1>4
<1>6. Power(13) = 8192 /\ Power(14) = 16384 /\ Power(15) = 32768 /\ Power(16) = 65536
  BY <1>2, <1>5
<1> QED BY <1>1, <1>3, <1>4, <1>5, <1>6

LEMMA SixteenDigits == IsFiniteSet(0 .. 15)
<1>1. 0 \in Int /\ 15 \in Int OBVIOUS
<1> QED BY <1>1, FS_Interval

LEMMA PlaceValues == PlaceValue \in [0 .. 15 -> Int]
BY Powers DEF PlaceValue

\* One digit more adds its place value.
LEMMA DigitAdds ==
  ASSUME NEW s \in SUBSET (0 .. 15), NEW n \in (0 .. 15) \ s
  PROVE  Value(s \cup {n}) = Value(s) + PlaceValue[n]
<1>1. ASSUME NEW S, IsFiniteSet(S), PlaceValue \in [S -> Int]
      PROVE  \A t \in SUBSET S : \A i \in S \ t : Value(t \cup {i}) = Value(t) + PlaceValue[i]
  BY <1>1, SumAdds DEF Value
<1>2. \A t \in SUBSET (0 .. 15) : \A i \in (0 .. 15) \ t :
        Value(t \cup {i}) = Value(t) + PlaceValue[i]
  BY <1>1, SixteenDigits, PlaceValues, Zenon
<1> QED BY <1>2, Zenon

\* The remainder by twice a number, from the remainder by the number.
LEMMA RemainderStep ==
  ASSUME NEW v \in Nat, NEW q \in Nat \ {0}
  PROVE  /\ (v \div q) % 2 = 1 => v % (2 * q) = (v % q) + q
         /\ (v \div q) % 2 # 1 => v % (2 * q) = v % q
<1> DEFINE d == v \div q
           r == v % q
           h == d \div 2
           b == d % 2
<1>1. d \in Nat /\ r \in Nat /\ r < q /\ v = q * d + r OBVIOUS
<1> HIDE DEF d, r
<1>2. h \in Nat /\ b \in {0, 1} /\ d = 2 * h + b BY <1>1
<1> HIDE DEF h, b
<1>3. q * d = (2 * q) * h + q * b BY <1>1, <1>2
<1>4. v = (2 * q) * h + (q * b + r) BY <1>1, <1>2, <1>3
<1>5. q * b + r \in Nat /\ q * b + r < 2 * q BY <1>1, <1>2
<1>6. v % (2 * q) = q * b + r BY <1>2, <1>4, <1>5
<1> QED BY <1>1, <1>2, <1>6 DEF b, d, r

\* One digit more.
LEMMA DigitStep ==
  ASSUME NEW v \in Nat, NEW n \in 0 .. 15, Value(LastDigits(v, n)) = v % 2 ^ n
  PROVE  Value(LastDigits(v, n + 1)) = v % 2 ^ (n + 1)
<1> DEFINE s == LastDigits(v, n)
           q == 2 ^ n
           One(i) == (v \div 2 ^ i) % 2 = 1
<1>1. s = {i \in 0 .. n - 1 : One(i)} /\ LastDigits(v, n + 1) = {i \in 0 .. n : One(i)}
  BY DEF LastDigits
<1>2. PlaceValue[n] = q BY DEF PlaceValue
<1>3. q \in Nat \ {0} /\ 2 ^ (n + 1) = 2 * q BY Powers
<1>4. Value(s) = v % q OBVIOUS
<1>5. One(n) <=> (v \div q) % 2 = 1 OBVIOUS
<1> HIDE DEF s, q, One
<1>6. s \in SUBSET (0 .. 15) /\ n \notin s BY <1>1
<1>7. CASE One(n)
  <2>1. LastDigits(v, n + 1) = s \cup {n} BY <1>1, <1>7
  <2>2. n \in (0 .. 15) \ s BY <1>6
  <2>3. Value(s \cup {n}) = Value(s) + PlaceValue[n] BY <1>6, <2>2, DigitAdds
  <2>4. v % (2 * q) = (v % q) + q BY <1>3, <1>5, <1>7, RemainderStep
  <2> QED BY <1>2, <1>3, <1>4, <2>1, <2>3, <2>4
<1>8. CASE ~One(n)
  <2>1. LastDigits(v, n + 1) = s BY <1>1, <1>8
  <2>2. v % (2 * q) = v % q BY <1>3, <1>5, <1>8, RemainderStep
  <2> QED BY <1>3, <1>4, <2>1, <2>2
<1> QED BY <1>7, <1>8

\* The last digits of a number are worth its remainder.
LEMMA DigitsValue ==
  ASSUME NEW v \in Nat
  PROVE  /\ Value(LastDigits(v, 1)) = v % 2
         /\ Value(LastDigits(v, 8)) = v % 256
         /\ Value(LastDigits(v, 16)) = v % 65536
<1> DEFINE Right == {n \in 0 .. 16 : Value(LastDigits(v, n)) = v % 2 ^ n}
<1>1. 0 \in Right
  <2>1. LastDigits(v, 0) = {} BY DEF LastDigits
  <2>2. Value({}) = 0 BY SumOfNone DEF Value
  <2>3. v % 2 ^ 0 = 0
    <3>1. 2 ^ 0 = 1 OBVIOUS
    <3> QED BY <3>1
  <2> QED BY <2>1, <2>2, <2>3
<1>2. ASSUME NEW n \in 0 .. 15, n \in Right PROVE n + 1 \in Right
  <2>1. Value(LastDigits(v, n + 1)) = v % 2 ^ (n + 1) BY <1>2, DigitStep
  <2> QED BY <2>1
<1> HIDE DEF Right
<1>3. 0 \in Right /\ 1 \in Right /\ 2 \in Right /\ 3 \in Right /\ 4 \in Right BY <1>1, <1>2
<1>4. 5 \in Right /\ 6 \in Right /\ 7 \in Right /\ 8 \in Right BY <1>2, <1>3
<1>5. 9 \in Right /\ 10 \in Right /\ 11 \in Right /\ 12 \in Right BY <1>2, <1>4
<1>6. 13 \in Right /\ 14 \in Right /\ 15 \in Right /\ 16 \in Right BY <1>2, <1>5
<1>7. 2 ^ 1 = 2 /\ 2 ^ 8 = 256 /\ 2 ^ 16 = 65536 OBVIOUS
<1> QED BY <1>3, <1>4, <1>6, <1>7 DEF Right

-----------------------------------------------------------------------------
(* Reading what was written *)

\* A field is a switch of one bit, the decimals' eight or a number's sixteen.
LEMMA FieldPlaces ==
  ASSUME NEW f \in Fields
  PROVE  /\ FieldStart[f] \in Nat
         /\ FieldWidth[f] \in {1, 8, 16}
         /\ f \in Switches => FieldWidth[f] = 1
BY DEF Fields, Switches, FieldStart, FieldWidth

\* No two fields share a bit.
LEMMA FieldsApart ==
  ASSUME NEW f \in Fields, NEW g \in Fields, f # g
  PROVE  \/ FieldStart[f] + FieldWidth[f] <= FieldStart[g]
         \/ FieldStart[g] + FieldWidth[g] <= FieldStart[f]
<1> DEFINE End == [ltv |-> 16, liquidationThreshold |-> 32, liquidationBonus |-> 48,
                   decimals |-> 56, active |-> 57, frozen |-> 58, borrowing |-> 59,
                   stableRate |-> 60, reserveFactor |-> 80, deposits |-> 81,
                   withdrawals |-> 82, interestWithdrawals |-> 83]
<1>1. ASSUME NEW h \in Fields PROVE FieldStart[h] + FieldWidth[h] = End[h]
  BY DEF Fields, Switches, FieldStart, FieldWidth
<1>2. End[f] <= FieldStart[g] \/ End[g] <= FieldStart[f]
  BY DEF Fields, Switches, FieldStart
<1> QED BY <1>1, <1>2

\* What a setter accepts fits its field.
LEMMA ValidFits ==
  ASSUME NEW f \in Fields, NEW v \in 0 .. MaxValid(f)
  PROVE  /\ v \in Nat
         /\ Bits(v) = LastDigits(v, FieldWidth[f])
         /\ Value(LastDigits(v, FieldWidth[f])) = v
<1> DEFINE w == FieldWidth[f]
<1>1. w \in {1, 8, 16} BY FieldPlaces
<1>2. /\ v \in Nat
      /\ w = 1 => v < 2
      /\ w = 8 => v < 256
      /\ w = 16 => v < 65536
  <2>1. 2 ^ 1 = 2 /\ 2 ^ 8 = 256 /\ 2 ^ 16 = 65536 OBVIOUS
  <2>2. v \in 0 .. 2 ^ w - 1 BY DEF MaxValid
  <2> HIDE DEF w
  <2>3. CASE w = 1 BY <2>1, <2>2, <2>3
  <2>4. CASE w = 8 BY <2>1, <2>2, <2>4
  <2>5. CASE w = 16 BY <2>1, <2>2, <2>5
  <2> QED BY <1>1, <2>3, <2>4, <2>5
<1> HIDE DEF w
<1>3. ASSUME NEW i \in 0 .. 16, i >= w PROVE (v \div 2 ^ i) % 2 # 1
  <2> DEFINE q == Power(i)
  <2>0. /\ q \in Nat
        /\ i >= 1 => q >= 2
        /\ i >= 8 => q >= 256
        /\ i >= 16 => q >= 65536
    BY PowersGrow
  <2> HIDE DEF q
  <2>1. q \in Nat /\ v < q BY <1>1, <1>2, <1>3, <2>0
  <2>2. v \div q = 0 BY <1>2, <2>1
  <2>3. (v \div q) % 2 # 1 BY <2>2
  <2> QED BY <2>3 DEF q, Power
<1>4. Bits(v) = LastDigits(v, w)
  <2> DEFINE One(i) == (v \div 2 ^ i) % 2 = 1
  <2>1. Bits(v) = {i \in 0 .. 16 : One(i)} BY DEF Bits
  <2>2. LastDigits(v, w) = {i \in 0 .. w - 1 : One(i)} BY DEF LastDigits
  <2>3. \A i \in 0 .. 16 : i >= w => ~One(i) BY <1>3
  <2> HIDE DEF One
  <2> QED BY <1>1, <2>1, <2>2, <2>3
<1>5. Value(LastDigits(v, w)) = v
  <2>1. v < 2 => v % 2 = v BY <1>2
  <2>2. v < 256 => v % 256 = v BY <1>2
  <2>3. v < 65536 => v % 65536 = v BY <1>2
  <2>4. v \in Nat BY <1>2
  <2>5. /\ Value(LastDigits(v, 1)) = v % 2
        /\ Value(LastDigits(v, 8)) = v % 256
        /\ Value(LastDigits(v, 16)) = v % 65536
    BY <2>4, DigitsValue
  <2>6. CASE w = 1 BY <1>2, <2>1, <2>5, <2>6
  <2>7. CASE w = 8 BY <1>2, <2>2, <2>5, <2>7
  <2>8. CASE w = 16 BY <1>2, <2>3, <2>5, <2>8
  <2> QED BY <1>1, <2>6, <2>7, <2>8
<1> QED BY <1>2, <1>4, <1>5 DEF w

\* A getter returns what its setter wrote.
LEMMA FieldWritten ==
  ASSUME NEW data, NEW f \in Fields, NEW v \in 0 .. MaxValid(f)
  PROVE  GetField(SetField(data, f, v), f) = v
<1> DEFINE b == FieldStart[f]
           w == FieldWidth[f]
           word == SetField(data, f, v)
<1>1. b \in Nat /\ w \in {1, 8, 16} BY FieldPlaces
<1>2. Bits(v) = LastDigits(v, w) /\ Value(LastDigits(v, w)) = v BY ValidFits
<1>3. Bits(v) \subseteq 0 .. w - 1 BY <1>2 DEF LastDigits
<1>4. word = (data \ (b .. b + w - 1)) \cup {b + i : i \in Bits(v)}
  BY DEF SetField, Masked
<1>5. Digits(word, f) = {i \in 0 .. w - 1 : b + i \in word} BY DEF Digits
<1> HIDE DEF b, w, word
<1>6. ASSUME NEW i \in 0 .. w - 1 PROVE b + i \in word <=> i \in Bits(v)
  <2>1. b + i \in b .. b + w - 1 BY <1>1
  <2>2. ASSUME NEW j \in Bits(v), b + j = b + i PROVE j = i
    <3>1. j \in Int /\ i \in Int /\ b \in Int BY <1>1, <1>3
    <3> QED BY ONLY <2>2, <3>1
  <2> QED BY <1>4, <2>1, <2>2
<1>7. Digits(word, f) = Bits(v) BY <1>3, <1>5, <1>6
<1> QED BY <1>2, <1>7 DEF GetField, Value, word

\* ... and the other getters what they returned before.
LEMMA FieldKept ==
  ASSUME NEW data, NEW f \in Fields, NEW g \in Fields, f # g, NEW v \in 0 .. MaxValid(f)
  PROVE  GetField(SetField(data, f, v), g) = GetField(data, g)
<1> DEFINE b == FieldStart[f]
           w == FieldWidth[f]
           c == FieldStart[g]
           x == FieldWidth[g]
           word == SetField(data, f, v)
<1>1. b \in Nat /\ w \in {1, 8, 16} /\ c \in Nat /\ x \in {1, 8, 16} BY FieldPlaces
<1>2. b + w <= c \/ c + x <= b BY FieldsApart
<1>3. Bits(v) \subseteq 0 .. w - 1 BY ValidFits DEF LastDigits
<1>4. word = (data \ (b .. b + w - 1)) \cup {b + i : i \in Bits(v)}
  BY DEF SetField, Masked
<1>5. /\ Digits(word, g) = {i \in 0 .. x - 1 : c + i \in word}
      /\ Digits(data, g) = {i \in 0 .. x - 1 : c + i \in data}
  BY DEF Digits
<1> HIDE DEF b, w, c, x, word
<1>6. ASSUME NEW i \in 0 .. x - 1 PROVE c + i \in word <=> c + i \in data
  <2>1. c + i \notin b .. b + w - 1 BY <1>1, <1>2
  <2>2. \A j \in Bits(v) : b + j # c + i BY <1>1, <1>2, <1>3
  <2> QED BY <1>4, <2>1, <2>2
<1>7. Digits(word, g) = Digits(data, g) BY <1>5, <1>6
<1> QED BY <1>7 DEF GetField, word

\* The last digit of 0, and of 1.
LEMMA FirstDigit == LastDigits(0, 1) = {} /\ LastDigits(1, 1) = {0}
<1> DEFINE One(v, i) == (v \div 2 ^ i) % 2 = 1
<1>1. One(1, 0) /\ ~One(0, 0)
  <2>1. 2 ^ 0 = 1 OBVIOUS
  <2>2. (1 \div 1) % 2 = 1 /\ (0 \div 1) % 2 = 0 OBVIOUS
  <2> QED BY <2>1, <2>2
<1>2. \A v : LastDigits(v, 1) = {i \in 0 .. 1 - 1 : One(v, i)} BY DEF LastDigits
<1>3. 0 .. 1 - 1 = {0} OBVIOUS
<1> HIDE DEF One
<1>4. \A v : LastDigits(v, 1) = {i \in {0} : One(v, i)} BY <1>2, <1>3
<1> QED BY <1>1, <1>4

\* A switch is a field of one bit.
LEMMA SwitchIsField ==
  ASSUME NEW data, NEW f \in Switches, NEW on \in BOOLEAN
  PROVE  SwitchTo(data, f, on) = SetField(data, f, IF on THEN 1 ELSE 0)
<1>1. f \in Fields /\ FieldWidth[f] = 1 BY FieldPlaces DEF Fields
<1>2. MaxValid(f) = 1
  <2>1. 2 ^ 1 - 1 = 1 OBVIOUS
  <2> QED BY <1>1, <2>1 DEF MaxValid
<1>3. FieldStart[f] \in Nat BY <1>1, FieldPlaces
<1>4. 0 \in 0 .. MaxValid(f) /\ 1 \in 0 .. MaxValid(f) BY <1>2
<1>5. Bits(0) = LastDigits(0, 1) /\ Bits(1) = LastDigits(1, 1) BY <1>1, <1>4, ValidFits
<1>6. Bits(0) = {} /\ Bits(1) = {0} BY <1>5, FirstDigit
<1> QED BY <1>3, <1>6 DEF SwitchTo, SetField

\* A switch reads as it was written, and the other fields as before.
LEMMA SwitchWritten ==
  ASSUME NEW data, NEW f \in Switches, NEW on \in BOOLEAN
  PROVE  /\ GetField(SwitchTo(data, f, on), f) = IF on THEN 1 ELSE 0
         /\ \A g \in Fields \ {f} : GetField(SwitchTo(data, f, on), g) = GetField(data, g)
<1>1. f \in Fields /\ FieldWidth[f] = 1 BY FieldPlaces DEF Fields
<1>2. (IF on THEN 1 ELSE 0) \in 0 .. MaxValid(f)
  <2>1. 2 ^ 1 - 1 = 1 OBVIOUS
  <2> QED BY <1>1, <2>1 DEF MaxValid
<1> QED BY <1>1, <1>2, SwitchIsField, FieldWritten, FieldKept

\* A switch is off or on.
LEMMA SwitchRead ==
  ASSUME NEW data, NEW f \in Switches
  PROVE  GetField(data, f) = IF IsOn(data, f) THEN 1 ELSE 0
<1>1. f \in Fields /\ FieldWidth[f] = 1 /\ FieldStart[f] \in Nat BY FieldPlaces DEF Fields
<1>2. Digits(data, f) = IF IsOn(data, f) THEN {0} ELSE {}
  BY <1>1 DEF Digits, IsOn
<1>3. Value({}) = 0 BY SumOfNone DEF Value
<1>4. Value({0}) = 1
  <2>1. 1 % 2 = 1 /\ 1 \in Nat OBVIOUS
  <2> QED BY <2>1, FirstDigit, DigitsValue
<1> QED BY <1>1, <1>2, <1>3, <1>4 DEF GetField, Value
-----------------------------------------------------------------------------
(* What each transaction writes *)

\* A word keeps the fields outside `names`.
KeepsFields(new, old, names) ==
  \A f \in Fields \ names : GetField(new, f) = GetField(old, f)

LEMMA FieldNames ==
  /\ Switches \subseteq Fields
  /\ Abstract!Ratios \subseteq Fields \ Switches
  /\ Abstract!Deployed \subseteq Fields
  /\ {"decimals", "reserveFactor"} \subseteq Fields \ Switches
  /\ {"decimals", "reserveFactor"} \cap Abstract!Ratios = {}
BY DEF Fields, Switches, Abstract!Ratios, Abstract!Deployed

\* _initReserve
LEMMA InitialisedFields ==
  ASSUME NEW data, NEW decimals \in 0 .. 255
  PROVE  /\ KeepsFields(Initialised(data, decimals), data, {"decimals", "active", "frozen"})
         /\ GetField(Initialised(data, decimals), "active") = 1
         /\ GetField(Initialised(data, decimals), "frozen") = 0
         /\ GetField(Initialised(data, decimals), "decimals") = decimals
<1> DEFINE first == SetField(data, "decimals", decimals)
           second == SwitchTo(first, "active", TRUE)
           third == SwitchTo(second, "frozen", FALSE)
<1>1. decimals \in 0 .. MaxValid("decimals")
  <2>1. 2 ^ 8 - 1 = 255 OBVIOUS
  <2>2. FieldWidth["decimals"] = 8 BY DEF FieldWidth, Fields, Switches
  <2> QED BY <2>1, <2>2 DEF MaxValid
<1>2. "decimals" \in Fields /\ "active" \in Switches /\ "frozen" \in Switches
  BY DEF Fields, Switches
<1>3. Initialised(data, decimals) = third BY DEF Initialised
<1>4. /\ GetField(first, "decimals") = decimals
      /\ \A g \in Fields \ {"decimals"} : GetField(first, g) = GetField(data, g)
  BY <1>1, <1>2, FieldWritten, FieldKept
<1> HIDE DEF first
<1>5. /\ GetField(second, "active") = 1
      /\ \A g \in Fields \ {"active"} : GetField(second, g) = GetField(first, g)
  BY <1>2, SwitchWritten
<1> HIDE DEF second
<1>6. /\ GetField(third, "frozen") = 0
      /\ \A g \in Fields \ {"frozen"} : GetField(third, g) = GetField(second, g)
  BY <1>2, SwitchWritten
<1> HIDE DEF third
<1> QED BY <1>2, <1>3, <1>4, <1>5, <1>6, FieldNames DEF KeepsFields

\* configureReserveAsCollateral
LEMMA TermsFields ==
  ASSUME NEW data, NEW ltv \in Nat, NEW threshold \in Nat, NEW bonus \in Nat,
         ltv <= MaxValid("ltv"), threshold <= MaxValid("liquidationThreshold"),
         bonus <= MaxValid("liquidationBonus")
  PROVE  /\ KeepsFields(WithTerms(data, ltv, threshold, bonus), data, Abstract!Ratios)
         /\ GetField(WithTerms(data, ltv, threshold, bonus), "ltv") = ltv
         /\ GetField(WithTerms(data, ltv, threshold, bonus), "liquidationThreshold") = threshold
         /\ GetField(WithTerms(data, ltv, threshold, bonus), "liquidationBonus") = bonus
<1> DEFINE first == SetField(data, "ltv", ltv)
           second == SetField(first, "liquidationThreshold", threshold)
           third == SetField(second, "liquidationBonus", bonus)
<1>0. ASSUME NEW f \in {"ltv", "liquidationThreshold", "liquidationBonus"}
      PROVE  MaxValid(f) \in Nat
  <2>1. 2 ^ 16 - 1 \in Nat OBVIOUS
  <2>2. FieldWidth[f] = 16 BY DEF FieldWidth, Fields, Switches
  <2> QED BY <2>1, <2>2 DEF MaxValid
<1>1. /\ ltv \in 0 .. MaxValid("ltv")
      /\ threshold \in 0 .. MaxValid("liquidationThreshold")
      /\ bonus \in 0 .. MaxValid("liquidationBonus")
  BY <1>0
<1>2. "ltv" \in Fields /\ "liquidationThreshold" \in Fields /\ "liquidationBonus" \in Fields
  BY DEF Fields
<1>3. WithTerms(data, ltv, threshold, bonus) = third BY DEF WithTerms
<1>4. /\ GetField(first, "ltv") = ltv
      /\ \A g \in Fields \ {"ltv"} : GetField(first, g) = GetField(data, g)
  BY <1>1, <1>2, FieldWritten, FieldKept
<1> HIDE DEF first
<1>5. /\ GetField(second, "liquidationThreshold") = threshold
      /\ \A g \in Fields \ {"liquidationThreshold"} : GetField(second, g) = GetField(first, g)
  BY <1>1, <1>2, FieldWritten, FieldKept
<1> HIDE DEF second
<1>6. /\ GetField(third, "liquidationBonus") = bonus
      /\ \A g \in Fields \ {"liquidationBonus"} : GetField(third, g) = GetField(second, g)
  BY <1>1, <1>2, FieldWritten, FieldKept
<1> HIDE DEF third
<1> QED BY <1>2, <1>3, <1>4, <1>5, <1>6 DEF KeepsFields, Abstract!Ratios

\* What the configurator asks of the terms is what a loan needs to be covered.
LEMMA TermsCovered ==
  ASSUME NEW p, NEW ltv \in Nat, NEW threshold \in Nat, NEW bonus \in Nat, NEW data,
         ValidTerms(p, ltv, threshold, bonus),
         GetField(data, "ltv") = ltv,
         GetField(data, "liquidationThreshold") = threshold,
         GetField(data, "liquidationBonus") = bonus
  PROVE  Abstract!Covered(SettingsOf(data))
<1> DEFINE s == SettingsOf(data)
<1>1. s.ltv = ltv /\ s.liquidationThreshold = threshold /\ s.liquidationBonus = bonus
  BY DEF SettingsOf, Fields
<1> HIDE DEF s
<1>2. Abstract!Covered(s)
  BY <1>1 DEF ValidTerms, Abstract!Covered, PercentMul
<1> QED BY <1>2 DEF s

\* What a row asks of a word fits it.
RowFits(row) ==
  /\ row.baseLTVAsCollateral \in Nat /\ row.baseLTVAsCollateral <= MaxValid("ltv")
  /\ row.liquidationThreshold \in Nat
  /\ row.liquidationThreshold <= MaxValid("liquidationThreshold")
  /\ row.liquidationBonus \in Nat /\ row.liquidationBonus <= MaxValid("liquidationBonus")
  /\ row.reserveFactor \in Nat /\ row.reserveFactor <= MaxValid("reserveFactor")

\* The switches that configuring a row turns on but never off.
Opening == {"borrowing", "deposits", "withdrawals", "interestWithdrawals"}

\* An operation is opened.
LEMMA OpenedFields ==
  ASSUME NEW data, NEW row, NEW f \in Switches
  PROVE  /\ GetField(Opened(data, row, f), f) =
              IF f \in row.enabled THEN 1 ELSE GetField(data, f)
         /\ \A g \in Fields \ {f} : GetField(Opened(data, row, f), g) = GetField(data, g)
BY SwitchWritten DEF Opened

\* configureReserves, for one row.
LEMMA ConfiguredFields ==
  ASSUME NEW data, NEW row, RowFits(row)
  PROVE  /\ KeepsFields(Configured(data, row), data, Abstract!Deployed)
         /\ GetField(Configured(data, row), "ltv") = row.baseLTVAsCollateral
         /\ GetField(Configured(data, row), "liquidationThreshold") = row.liquidationThreshold
         /\ GetField(Configured(data, row), "liquidationBonus") = row.liquidationBonus
         /\ GetField(Configured(data, row), "reserveFactor") = row.reserveFactor
         /\ \A s \in Opening : GetField(Configured(data, row), s) =
              IF s \in row.enabled THEN 1 ELSE GetField(data, s)
         /\ GetField(Configured(data, row), "stableRate") =
              IF "borrowing" \notin row.enabled THEN GetField(data, "stableRate")
              ELSE IF "stableRate" \in row.enabled THEN 1 ELSE 0
<1> DEFINE terms  == WithTerms(data, row.baseLTVAsCollateral, row.liquidationThreshold,
                               row.liquidationBonus)
           open   == SwitchTo(terms, "borrowing", TRUE)
           lent   == OpenedToBorrowers(terms, row)
           first  == Opened(lent, row, "deposits")
           second == Opened(first, row, "withdrawals")
           third  == Opened(second, row, "interestWithdrawals")
           new    == SetField(third, "reserveFactor", row.reserveFactor)
<1>1. Configured(data, row) = new BY DEF Configured
<1>2. /\ KeepsFields(terms, data, Abstract!Ratios)
      /\ GetField(terms, "ltv") = row.baseLTVAsCollateral
      /\ GetField(terms, "liquidationThreshold") = row.liquidationThreshold
      /\ GetField(terms, "liquidationBonus") = row.liquidationBonus
  BY TermsFields DEF RowFits
<1>3. /\ "stableRate" \in Switches /\ Opening \subseteq Switches \ {"stableRate"}
      /\ "reserveFactor" \in Fields
  BY DEF Opening, Switches, Fields
<1> HIDE DEF terms
<1>4. /\ GetField(lent, "borrowing") =
           IF "borrowing" \in row.enabled THEN 1 ELSE GetField(terms, "borrowing")
      /\ GetField(lent, "stableRate") =
           IF "borrowing" \notin row.enabled THEN GetField(terms, "stableRate")
           ELSE IF "stableRate" \in row.enabled THEN 1 ELSE 0
      /\ \A g \in Fields \ {"borrowing", "stableRate"} : GetField(lent, g) = GetField(terms, g)
  <2> DEFINE stable == SwitchTo(open, "stableRate", "stableRate" \in row.enabled)
  <2>1. /\ "borrowing" \in row.enabled => lent = stable
        /\ "borrowing" \notin row.enabled => lent = terms
    BY DEF OpenedToBorrowers
  <2>2. /\ GetField(open, "borrowing") = 1
        /\ \A g \in Fields \ {"borrowing"} : GetField(open, g) = GetField(terms, g)
    BY <1>3, SwitchWritten DEF Opening
  <2> HIDE DEF open
  <2>3. ("stableRate" \in row.enabled) \in BOOLEAN OBVIOUS
  <2>4. /\ GetField(stable, "stableRate") = IF "stableRate" \in row.enabled THEN 1 ELSE 0
        /\ \A g \in Fields \ {"stableRate"} : GetField(stable, g) = GetField(open, g)
    BY <1>3, <2>3, SwitchWritten
  <2> HIDE DEF stable, lent
  <2>5. "borrowing" \in Fields BY DEF Fields, Switches
  <2> QED BY <2>1, <2>2, <2>4, <2>5
<1> HIDE DEF lent
<1>5. /\ GetField(first, "deposits") =
           IF "deposits" \in row.enabled THEN 1 ELSE GetField(lent, "deposits")
      /\ \A g \in Fields \ {"deposits"} : GetField(first, g) = GetField(lent, g)
  BY <1>3, OpenedFields DEF Opening
<1> HIDE DEF first
<1>6. /\ GetField(second, "withdrawals") =
           IF "withdrawals" \in row.enabled THEN 1 ELSE GetField(first, "withdrawals")
      /\ \A g \in Fields \ {"withdrawals"} : GetField(second, g) = GetField(first, g)
  BY <1>3, OpenedFields DEF Opening
<1> HIDE DEF second
<1>7. /\ GetField(third, "interestWithdrawals") =
           IF "interestWithdrawals" \in row.enabled THEN 1
           ELSE GetField(second, "interestWithdrawals")
      /\ \A g \in Fields \ {"interestWithdrawals"} : GetField(third, g) = GetField(second, g)
  BY <1>3, OpenedFields DEF Opening
<1> HIDE DEF third
<1>8. /\ GetField(new, "reserveFactor") = row.reserveFactor
      /\ \A g \in Fields \ {"reserveFactor"} : GetField(new, g) = GetField(third, g)
  <2>1. row.reserveFactor \in 0 .. MaxValid("reserveFactor")
    <3>1. 2 ^ 16 - 1 \in Nat OBVIOUS
    <3>2. FieldWidth["reserveFactor"] = 16 BY DEF FieldWidth, Fields, Switches
    <3>3. MaxValid("reserveFactor") \in Nat BY <3>1, <3>2 DEF MaxValid
    <3> QED BY <3>3 DEF RowFits
  <2> QED BY <1>3, <2>1, FieldWritten, FieldKept
<1> HIDE DEF new
<1>9. \A g \in Fields \ {"reserveFactor", "interestWithdrawals", "withdrawals", "deposits",
                         "borrowing", "stableRate"} : GetField(new, g) = GetField(terms, g)
  BY <1>4, <1>5, <1>6, <1>7, <1>8
<1>10. \A g \in Fields \ Abstract!Ratios : GetField(terms, g) = GetField(data, g)
  BY <1>2 DEF KeepsFields
<1>11. KeepsFields(new, data, Abstract!Deployed)
  BY <1>9, <1>10 DEF KeepsFields, Abstract!Deployed
<1>12. /\ GetField(new, "ltv") = row.baseLTVAsCollateral
       /\ GetField(new, "liquidationThreshold") = row.liquidationThreshold
       /\ GetField(new, "liquidationBonus") = row.liquidationBonus
  <2>1. {"ltv", "liquidationThreshold", "liquidationBonus"} \subseteq
          Fields \ {"reserveFactor", "interestWithdrawals", "withdrawals", "deposits",
                    "borrowing", "stableRate"}
    BY DEF Fields
  <2> QED BY <1>2, <1>9, <2>1
<1>13. Opening \cup {"stableRate"} \subseteq Fields \ (Abstract!Ratios \cup {"reserveFactor"})
  BY DEF Opening, Fields, Switches, Abstract!Ratios
<1>14. \A s \in Opening : GetField(new, s) = IF s \in row.enabled THEN 1 ELSE GetField(data, s)
  <2>1. GetField(new, "borrowing") =
          IF "borrowing" \in row.enabled THEN 1 ELSE GetField(data, "borrowing")
    BY <1>4, <1>5, <1>6, <1>7, <1>8, <1>10, <1>13 DEF Opening
  <2>2. GetField(new, "deposits") =
          IF "deposits" \in row.enabled THEN 1 ELSE GetField(data, "deposits")
    BY <1>4, <1>5, <1>6, <1>7, <1>8, <1>10, <1>13 DEF Opening
  <2>3. GetField(new, "withdrawals") =
          IF "withdrawals" \in row.enabled THEN 1 ELSE GetField(data, "withdrawals")
    BY <1>4, <1>5, <1>6, <1>7, <1>8, <1>10, <1>13 DEF Opening
  <2>4. GetField(new, "interestWithdrawals") =
          IF "interestWithdrawals" \in row.enabled THEN 1
          ELSE GetField(data, "interestWithdrawals")
    BY <1>4, <1>5, <1>6, <1>7, <1>8, <1>10, <1>13 DEF Opening
  <2> QED BY <2>1, <2>2, <2>3, <2>4 DEF Opening
<1>15. GetField(new, "stableRate") =
         IF "borrowing" \notin row.enabled THEN GetField(data, "stableRate")
         ELSE IF "stableRate" \in row.enabled THEN 1 ELSE 0
  BY <1>4, <1>5, <1>6, <1>7, <1>8, <1>10, <1>13
<1> QED BY <1>1, <1>8, <1>11, <1>12, <1>14, <1>15

\* So configuring a row opens operations but closes none, and its terms are covered.
LEMMA ConfiguredCovers ==
  ASSUME NEW data, NEW row, NEW p, RowFits(row),
         ValidTerms(p, row.baseLTVAsCollateral, row.liquidationThreshold,
                    row.liquidationBonus)
  PROVE  /\ Abstract!Covered(SettingsOf(Configured(data, row)))
         /\ \A s \in Opening : GetField(Configured(data, row), s) >= GetField(data, s)
<1>1. Abstract!Covered(SettingsOf(Configured(data, row)))
  <2> DEFINE word == Configured(data, row)
  <2>1. /\ GetField(word, "ltv") = row.baseLTVAsCollateral
        /\ GetField(word, "liquidationThreshold") = row.liquidationThreshold
        /\ GetField(word, "liquidationBonus") = row.liquidationBonus
    BY ConfiguredFields
  <2> HIDE DEF word
  <2>2. Abstract!Covered(SettingsOf(word)) BY <2>1, TermsCovered DEF RowFits
  <2> QED BY <2>2 DEF word
<1>2. ASSUME NEW s \in Opening
      PROVE  GetField(Configured(data, row), s) >= GetField(data, s)
  <2>1. GetField(data, s) \in {0, 1}
    <3>1. s \in Switches BY DEF Opening, Switches
    <3> QED BY <3>1, SwitchRead
  <2>2. GetField(Configured(data, row), s) = IF s \in row.enabled THEN 1 ELSE GetField(data, s)
    BY ConfiguredFields
  <2> QED BY <2>1, <2>2
<1> QED BY <1>1, <1>2

-----------------------------------------------------------------------------
(* The settings of a market *)

LEMMA SettingsRead ==
  /\ DOMAIN FieldsRead = Projects
  /\ \A p \in Projects : FieldsRead[p] = SettingsOf(configuration[p])
BY DEF FieldsRead

LEMMA SettingsReadNext ==
  ASSUME DOMAIN configuration' = Projects
  PROVE  /\ DOMAIN FieldsRead' = Projects
         /\ \A p \in Projects : FieldsRead'[p] = SettingsOf(configuration'[p])
BY DEF FieldsRead, Projects

LEMMA SettingIsField ==
  ASSUME NEW data, NEW f \in Fields
  PROVE  SettingsOf(data)[f] = GetField(data, f)
BY DEF SettingsOf

\* A word that keeps its fields keeps the project's settings.
LEMMA KeepsSettings ==
  ASSUME DOMAIN configuration' = Projects, NEW p \in Projects, NEW names,
         KeepsFields(configuration'[p], configuration[p], names)
  PROVE  Abstract!Keeps(p, names)
BY SettingsRead, SettingsReadNext, SettingIsField DEF KeepsFields, Abstract!Keeps

\* Words that stay keep their settings.
LEMMA TouchedAreWritten ==
  ASSUME DOMAIN configuration' = Projects, NEW written,
         \A q \in Projects \ written : configuration'[q] = configuration[q]
  PROVE  Abstract!Touched \subseteq written \cap Projects
BY SettingsRead, SettingsReadNext DEF Abstract!Touched

\* The step of the settings that a step of the words is.
LEMMA NextIsOneOf ==
  ASSUME DOMAIN configuration' = Projects,
         \/ \E p \in Projects : Abstract!List(p, Abstract!Touched)
         \/ Abstract!Change(Abstract!Touched)
         \/ Abstract!Deploy(Abstract!Touched)
  PROVE  Abstract!Next
<1>1. DOMAIN FieldsRead = Projects /\ DOMAIN FieldsRead' = Projects
  BY SettingsRead, SettingsReadNext
<1> QED BY <1>1, Zenon DEF Abstract!Next

\* A reserve is listed.
LEMMA ListingIsList ==
  ASSUME MarketInv, NEW p \in Projects, Listing(p), NEW decimals \in 0 .. 255,
         configuration' = [configuration EXCEPT ![p] = Initialised(@, decimals)]
  PROVE  Abstract!Next
<1> DEFINE word == Initialised(configuration[p], decimals)
<1>1. DOMAIN configuration' = Projects /\ configuration'[p] = word
      /\ \A q \in Projects \ {p} : configuration'[q] = configuration[q]
  BY DEF Projects
<1>2. /\ KeepsFields(word, configuration[p], {"decimals", "active", "frozen"})
      /\ GetField(word, "active") = 1 /\ GetField(word, "frozen") = 0
  BY InitialisedFields
<1> HIDE DEF word
<1>3. Abstract!Keeps(p, {"decimals", "active", "frozen"}) BY <1>1, <1>2, KeepsSettings
<1>4. FieldsRead'[p].active = 1 /\ FieldsRead'[p].frozen = 0
  <2>1. "active" \in Fields /\ "frozen" \in Fields BY DEF Fields, Switches
  <2>2. FieldsRead'[p] = SettingsOf(word) BY <1>1, SettingsReadNext
  <2> QED BY <1>2, <2>1, <2>2, SettingIsField
<1>5. Abstract!Touched \subseteq {p} BY <1>1, TouchedAreWritten
<1>6. ~Abstract!Contains(reservesList, p) /\ reservesList' = Append(reservesList, p)
  <2>1. p \notin aTokens /\ reservesList' = Append(reservesList, p)
    BY ListingAppends DEF MarketInv
  <2> QED BY <2>1 DEF MarketInv, ListOK, ListIsIndexed, Abstract!Contains
<1>7. Abstract!List(p, Abstract!Touched)
  BY <1>3, <1>4, <1>5, <1>6, Zenon DEF Abstract!List
<1> QED BY <1>1, <1>7, NextIsOneOf

\* What one transaction of the administrator may do to a word.
ChangesWord(new, old) ==
  \/ KeepsFields(new, old, Abstract!Ratios) /\ Abstract!Covered(SettingsOf(new))
  \/ KeepsFields(new, old, {"borrowing", "stableRate"}) /\ GetField(new, "borrowing") = 1
  \/ \E f \in Fields \ (Abstract!Ratios \cup {"decimals"}) : KeepsFields(new, old, {f})

\* A word is stored.
LEMMA StoreIsChange ==
  ASSUME NEW p \in Projects, NEW data, Store(p, data), ChangesWord(data, configuration[p])
  PROVE  Abstract!Next
<1>1. DOMAIN configuration' = Projects /\ configuration'[p] = data
      /\ \A q \in Projects \ {p} : configuration'[q] = configuration[q]
  BY DEF Store, Projects
<1>2. Abstract!Touched \subseteq {p} BY <1>1, TouchedAreWritten
<1>3. \A q, r \in Abstract!Touched : q = r BY <1>2
<1>4. FieldsRead'[p] = SettingsOf(data) BY <1>1, SettingsReadNext
<1>5. Abstract!SetTerms(p) \/ Abstract!OpenToBorrowers(p) \/ Abstract!SetOne(p)
  <2>1. CASE KeepsFields(data, configuration[p], Abstract!Ratios)
             /\ Abstract!Covered(SettingsOf(data))
    <3>1. Abstract!Keeps(p, Abstract!Ratios) BY <1>1, <2>1, KeepsSettings
    <3> QED BY <1>4, <2>1, <3>1 DEF Abstract!SetTerms
  <2>2. CASE KeepsFields(data, configuration[p], {"borrowing", "stableRate"})
             /\ GetField(data, "borrowing") = 1
    <3>1. Abstract!Keeps(p, {"borrowing", "stableRate"}) BY <1>1, <2>2, KeepsSettings
    <3>2. "borrowing" \in Fields BY DEF Fields, Switches
    <3>3. FieldsRead'[p].borrowing = 1 BY <1>4, <2>2, <3>2, SettingIsField
    <3> QED BY <3>1, <3>3 DEF Abstract!OpenToBorrowers
  <2>3. ASSUME NEW f \in Fields \ (Abstract!Ratios \cup {"decimals"}),
               KeepsFields(data, configuration[p], {f})
        PROVE  Abstract!SetOne(p)
    <3>1. Abstract!Keeps(p, {f}) BY <1>1, <2>3, KeepsSettings
    <3> QED BY <2>3, <3>1 DEF Abstract!SetOne
  <2> QED BY <2>1, <2>2, <2>3 DEF ChangesWord
<1>6. reservesList' = reservesList BY DEF Store, reserveVars
<1>7. Abstract!Change(Abstract!Touched)
  BY <1>2, <1>3, <1>5, <1>6, Zenon DEF Abstract!Change
<1> QED BY <1>1, <1>7, NextIsOneOf

\* A switch is turned.
LEMMA SwitchChangesWord ==
  ASSUME NEW data, NEW f \in Switches, NEW on \in BOOLEAN
  PROVE  ChangesWord(SwitchTo(data, f, on), data)
<1>1. f \in Fields \ (Abstract!Ratios \cup {"decimals"}) BY FieldNames
<1>2. KeepsFields(SwitchTo(data, f, on), data, {f}) BY SwitchWritten DEF KeepsFields
<1> QED BY <1>1, <1>2 DEF ChangesWord

LEMMA SwitchIsChange ==
  ASSUME NEW p \in Projects, SwitchReserve(p)
  PROVE  Abstract!Next
<1> DEFINE word == configuration[p]
<1>1. ASSUME NEW on \in BOOLEAN, NEW f \in Switches, Store(p, SwitchTo(word, f, on))
      PROVE  Abstract!Next
  BY <1>1, SwitchChangesWord, StoreIsChange
<1>2. Switches = {"active", "frozen", "borrowing", "stableRate", "deposits", "withdrawals",
                  "interestWithdrawals"}
  BY DEF Switches
<1>3. CASE ActivateReserve(p) BY <1>1, <1>2, <1>3 DEF ActivateReserve
<1>4. CASE DeactivateReserve(p) BY <1>1, <1>2, <1>4 DEF DeactivateReserve
<1>5. CASE DisableBorrowingOnReserve(p) BY <1>1, <1>2, <1>5 DEF DisableBorrowingOnReserve
<1>6. ASSUME NEW on \in BOOLEAN, EnableBorrowingOnReserve(p, on)
      PROVE  Abstract!Next
  <2> DEFINE open == SwitchTo(word, "borrowing", TRUE)
             stable == SwitchTo(open, "stableRate", on)
  <2>1. Store(p, stable) BY <1>6 DEF EnableBorrowingOnReserve
  <2>2. GetField(open, "borrowing") = 1
        /\ \A g \in Fields \ {"borrowing"} : GetField(open, g) = GetField(word, g)
    BY <1>2, SwitchWritten
  <2> HIDE DEF open
  <2>3. \A g \in Fields \ {"stableRate"} : GetField(stable, g) = GetField(open, g)
    BY <1>2, SwitchWritten
  <2> HIDE DEF stable
  <2>4. KeepsFields(stable, word, {"borrowing", "stableRate"}) BY <2>2, <2>3 DEF KeepsFields
  <2>5. "borrowing" \in Fields \ {"stableRate"} BY <1>2, FieldNames
  <2>6. GetField(stable, "borrowing") = 1 BY <2>2, <2>3, <2>5
  <2> QED BY <2>1, <2>4, <2>6, StoreIsChange DEF ChangesWord
<1>7. ASSUME NEW on \in BOOLEAN,
             \/ SetReserveStableRate(p, on) \/ SetReserveFrozen(p, on)
             \/ SetDepositsOnReserve(p, on) \/ SetWithdrawalsOnReserve(p, on)
             \/ SetInterestWithdrawalsOnReserve(p, on)
      PROVE  Abstract!Next
  BY <1>1, <1>2, <1>7 DEF SetReserveStableRate, SetReserveFrozen, SetDepositsOnReserve,
     SetWithdrawalsOnReserve, SetInterestWithdrawalsOnReserve
<1> QED BY <1>3, <1>4, <1>5, <1>6, <1>7 DEF SwitchReserve
-----------------------------------------------------------------------------
(* The rows and the deployment *)

\* While the script lists, the rows it has dealt with are listed; afterwards all
\* of the market is.
ListedFirst ==
  /\ stage = "initialising" =>
       cursor \in Nat /\ \A i \in DOMAIN Rows : i <= cursor => Rows[i].project \in aTokens
  /\ stage = "configuring" => Projects \subseteq aTokens

\* A project has one row.
LEMMA RowOfProject ==
  ASSUME ScriptOK
  PROVE  /\ \A i \in DOMAIN Rows : RowOf(Rows[i].project) = Rows[i].row
         /\ \A p \in Projects : \E i \in DOMAIN Rows : RowOf(p) = Rows[i].row
         /\ \A i \in DOMAIN Rows : RowIsPassable(Rows[i].row) /\ Rows[i].project \in Projects
         /\ DOMAIN Rows = 1 .. Len(Rows) /\ Len(Rows) \in Nat
<1>1. /\ DOMAIN Rows = 1 .. Len(Rows) /\ Len(Rows) \in Nat
      /\ \A i, j \in DOMAIN Rows : Rows[i].project = Rows[j].project => i = j
      /\ \A i \in DOMAIN Rows : RowIsPassable(Rows[i].row)
  BY MarketAssumption DEF ScriptOK, Rows
<1>2. ASSUME NEW i \in DOMAIN Rows PROVE RowOf(Rows[i].project) = Rows[i].row
  <2> DEFINE found == CHOOSE j \in DOMAIN Rows : Rows[j].project = Rows[i].project
  <2>1. found \in DOMAIN Rows /\ Rows[found].project = Rows[i].project OBVIOUS
  <2>2. RowOf(Rows[i].project) = Rows[found].row BY DEF RowOf
  <2> HIDE DEF found
  <2>3. found = i BY <1>1, <2>1
  <2> QED BY <2>2, <2>3
<1>3. \A p \in Projects : \E i \in DOMAIN Rows : p = Rows[i].project BY DEF ScriptOK
<1>4. \A i \in DOMAIN Rows : Rows[i].project \in Projects BY DEF ScriptOK
<1> QED BY <1>1, <1>2, <1>3, <1>4

\* A chunk of rows is configured.
LEMMA ConfiguringIsDeploy ==
  ASSUME MarketInv, ListedFirst, ConfigureReserves
  PROVE  Abstract!Next
<1> DEFINE chosen == {entry.project : entry \in Chunk}
<1>1. /\ stage = "configuring" /\ ChunkIsAccepted
      /\ configuration' = [p \in Projects |-> IF p \in chosen
                                                THEN Configured(configuration[p], RowOf(p))
                                                ELSE configuration[p]]
      /\ reservesList' = reservesList
  BY DEF ConfigureReserves, reserveVars
<1>2. \A entry \in Chunk : \E i \in DOMAIN Rows :
        entry = Rows[i] /\ Rows[i].row.baseLTVAsCollateral # -1
  BY DEF Chunk, Configurable
<1>3. ASSUME NEW p \in chosen
      PROVE  /\ p \in Projects
             /\ RowFits(RowOf(p))
             /\ ValidTerms(p, RowOf(p).baseLTVAsCollateral, RowOf(p).liquidationThreshold,
                           RowOf(p).liquidationBonus)
  <2>1. PICK entry \in Chunk : p = entry.project OBVIOUS
  <2>2. PICK i \in DOMAIN Rows : entry = Rows[i] /\ Rows[i].row.baseLTVAsCollateral # -1
    BY <1>2
  <2>3. RowOf(p) = entry.row /\ p \in Projects /\ RowIsPassable(entry.row)
    BY <2>1, <2>2, RowOfProject DEF MarketInv
  <2>4. /\ ValidTerms(p, entry.row.baseLTVAsCollateral, entry.row.liquidationThreshold,
                      entry.row.liquidationBonus)
        /\ entry.row.reserveFactor <= MaxValid("reserveFactor")
    BY <1>1, <2>1 DEF ChunkIsAccepted
  <2> QED BY <2>2, <2>3, <2>4 DEF RowIsPassable, RowFits, ValidTerms
<1> HIDE DEF chosen
<1>4. DOMAIN configuration' = Projects
      /\ \A q \in Projects \ chosen : configuration'[q] = configuration[q]
  BY <1>1
<1>5. Abstract!Touched \subseteq chosen \cap Projects BY <1>4, TouchedAreWritten
<1>6. ASSUME NEW p \in chosen \cap Projects
      PROVE  /\ Abstract!Contains(reservesList, p)
             /\ Abstract!Keeps(p, Abstract!Deployed)
             /\ Abstract!Covered(FieldsRead'[p])
             /\ \A s \in {"borrowing", "deposits", "withdrawals", "interestWithdrawals"} :
                  FieldsRead'[p][s] >= FieldsRead[p][s]
  <2>1. configuration'[p] = Configured(configuration[p], RowOf(p)) BY <1>1
  <2>2. /\ KeepsFields(configuration'[p], configuration[p], Abstract!Deployed)
        /\ Abstract!Covered(SettingsOf(configuration'[p]))
        /\ \A s \in {"borrowing", "deposits", "withdrawals", "interestWithdrawals"} :
             GetField(configuration'[p], s) >= GetField(configuration[p], s)
    BY <1>3, <2>1, ConfiguredFields, ConfiguredCovers DEF Opening
  <2>3. /\ FieldsRead[p] = SettingsOf(configuration[p])
        /\ FieldsRead'[p] = SettingsOf(configuration'[p])
    BY <1>4, SettingsRead, SettingsReadNext
  <2>4. Abstract!Keeps(p, Abstract!Deployed) BY <1>4, <2>2, KeepsSettings
  <2>5. ASSUME NEW s \in {"borrowing", "deposits", "withdrawals", "interestWithdrawals"}
        PROVE  FieldsRead'[p][s] >= FieldsRead[p][s]
    <3>1. s \in Fields BY DEF Fields, Switches
    <3> QED BY <2>2, <2>3, <3>1, SettingIsField
  <2>6. Abstract!Contains(reservesList, p)
    <3>1. p \in aTokens BY <1>1 DEF ListedFirst
    <3>2. id[p] \in Nat /\ id[p] < Len(reservesList) /\ reservesList[id[p] + 1] = p
            /\ Len(reservesList) \in Nat
      BY <3>1 DEF MarketInv, ListOK, ListIsIndexed
    <3>3. id[p] + 1 \in 1 .. Len(reservesList) BY <3>2
    <3> QED BY <3>2, <3>3 DEF Abstract!Contains
  <2> QED BY <2>2, <2>3, <2>4, <2>5, <2>6
<1>7. Abstract!Deploy(Abstract!Touched)
  <2> HIDE DEF Abstract!Touched
  <2> QED BY <1>1, <1>5, <1>6, Zenon DEF Abstract!Deploy
<1> QED BY <1>4, <1>7, NextIsOneOf

\* A step that leaves the words and the list alone leaves the settings alone.
LEMMA SameWordsSameSettings ==
  ASSUME configuration' = configuration, reservesList' = reservesList
  PROVE  UNCHANGED Abstract!settingsVars
BY DEF Abstract!settingsVars, FieldsRead, Projects

\* The deployment's steps.
LEMMA ScriptRefines ==
  ASSUME MarketInv, ListedFirst, Script
  PROVE  Abstract!Next \/ UNCHANGED Abstract!settingsVars
<1>1. CASE InitNextReserve
  <2> DEFINE entry == Rows[cursor + 1]
  <2>1. cursor + 1 \in DOMAIN Rows
    BY <1>1, RowOfProject DEF InitNextReserve, MarketInv, ScriptOK
  <2>2. entry.project \in Projects /\ entry.row.reserveDecimals \in 0 .. 255
    BY <2>1, RowOfProject DEF MarketInv, RowIsPassable
  <2>3. /\ PoolInitReserve(entry.project, entry.row.strategy.name)
        /\ configuration' = [configuration EXCEPT
             ![entry.project] = Initialised(@, entry.row.reserveDecimals)]
        /\ UNCHANGED <<userVars, market>>
        /\ stage = "initialising" /\ cursor' = cursor + 1 /\ cursor \in Nat
    BY <1>1 DEF InitNextReserve, MarketInv, ScriptOK
  <2>4. cursor' \in Nat BY <2>3
  <2> HIDE DEF entry
  <2>5. Listing(entry.project) BY <2>3, <2>4, Zenon DEF Listing
  <2> QED BY <2>2, <2>3, <2>5, ListingIsList
<1>2. CASE HandOver \/ HandBack \/ Abort
  BY <1>2, SameWordsSameSettings DEF HandOver, HandBack, Abort, reserveVars
<1>3. CASE ConfigureReserves BY <1>3, ConfiguringIsDeploy
<1> QED BY <1>1, <1>2, <1>3 DEF Script

\* The administrator's steps.
LEMMA AdministrationRefines ==
  ASSUME MarketInv, NEW p \in Projects, Administration(p)
  PROVE  Abstract!Next \/ UNCHANGED Abstract!settingsVars
<1>1. CASE BatchInitReserve(p)
  <2>1. RowOf(p).reserveDecimals \in 0 .. 255
    BY RowOfProject DEF MarketInv, RowIsPassable
  <2>2. Listing(p)
    BY <1>1 DEF BatchInitReserve, Listing, scriptVars, MarketInv, ScriptOK
  <2> QED BY <1>1, <2>1, <2>2, ListingIsList DEF BatchInitReserve
<1>2. CASE SwitchReserve(p) BY <1>2, SwitchIsChange
<1>3. ASSUME NEW t \in Terms, ConfigureReserveAsCollateral(p, t[1], t[2], t[3])
      PROVE  Abstract!Next
  <2> DEFINE word == WithTerms(configuration[p], t[1], t[2], t[3])
  <2>1. t[1] \in Nat /\ t[2] \in Nat /\ t[3] \in Nat BY MarketAssumption
  <2>2. ValidTerms(p, t[1], t[2], t[3]) /\ Store(p, word)
    BY <1>3 DEF ConfigureReserveAsCollateral
  <2>3. /\ KeepsFields(word, configuration[p], Abstract!Ratios)
        /\ GetField(word, "ltv") = t[1]
        /\ GetField(word, "liquidationThreshold") = t[2]
        /\ GetField(word, "liquidationBonus") = t[3]
    BY <2>1, <2>2, TermsFields DEF ValidTerms
  <2> HIDE DEF word
  <2>4. Abstract!Covered(SettingsOf(word)) BY <2>1, <2>2, <2>3, TermsCovered
  <2> QED BY <2>2, <2>3, <2>4, StoreIsChange DEF ChangesWord
<1>4. ASSUME NEW factor \in Factors, SetReserveFactor(p, factor)
      PROVE  Abstract!Next
  <2> DEFINE word == SetField(configuration[p], "reserveFactor", factor)
  <2>1. factor \in 0 .. MaxValid("reserveFactor")
    <3>1. 2 ^ 16 - 1 \in Nat OBVIOUS
    <3>2. FieldWidth["reserveFactor"] = 16 BY DEF FieldWidth, Fields, Switches
    <3>3. MaxValid("reserveFactor") \in Nat BY <3>1, <3>2 DEF MaxValid
    <3> QED BY <1>4, <3>3, MarketAssumption DEF SetReserveFactor
  <2>2. "reserveFactor" \in Fields \ (Abstract!Ratios \cup {"decimals"})
    <3>1. "reserveFactor" # "decimals" OBVIOUS
    <3> QED BY <3>1, FieldNames
  <2>3. Store(p, word) BY <1>4 DEF SetReserveFactor
  <2>4. KeepsFields(word, configuration[p], {"reserveFactor"})
    BY <2>1, <2>2, FieldKept DEF KeepsFields
  <2> HIDE DEF word
  <2> QED BY <2>2, <2>3, <2>4, StoreIsChange DEF ChangesWord
<1>5. CASE \E rate \in LiquidityRates : UpdateReserveRates(p, rate)
  BY <1>5, SameWordsSameSettings DEF UpdateReserveRates, reserveVars
<1>6. CASE \E i \in DOMAIN Rows : SetStrategy(p, Rows[i].row.strategy.name)
  BY <1>6, SameWordsSameSettings DEF SetStrategy
<1> QED BY <1>1, <1>2, <1>3, <1>4, <1>5, <1>6 DEF Administration

\* Every step.
LEMMA NextRefines ==
  ASSUME MarketInv, ListedFirst, [Next]_vars
  PROVE  [Abstract!Next]_(Abstract!settingsVars)
<1>1. CASE Script BY <1>1, ScriptRefines
<1>2. CASE Beside
  <2> SUFFICES ASSUME NEW p \in Projects,
                      Administration(p) \/ \E amount \in Amounts : Usage(p, amount)
               PROVE  Abstract!Next \/ UNCHANGED Abstract!settingsVars
    BY <1>2 DEF Beside
  <2>1. CASE Administration(p) BY <2>1, AdministrationRefines
  <2>2. CASE \E amount \in Amounts : Usage(p, amount)
    <3>1. Use BY <2>2 DEF Usage, Borrow, Repay, Deposit, Withdraw, Transfer
    <3> QED BY <3>1, SameWordsSameSettings DEF Use, reserveVars
  <2> QED BY <2>1, <2>2
<1>3. CASE UNCHANGED vars BY <1>3, SameWordsSameSettings DEF vars, reserveVars
<1> QED BY <1>1, <1>2, <1>3 DEF Next

-----------------------------------------------------------------------------
(* The deployment configures what it has listed. *)

LEMMA NextKeepsListedFirst ==
  ASSUME MarketInv, ListedFirst, [Next]_vars
  PROVE  ListedFirst'
<1>1. ASSUME aTokens \subseteq aTokens', Projects' = Projects,
             UNCHANGED <<market, stage, cursor>>
      PROVE  ListedFirst'
  BY <1>1 DEF ListedFirst, Rows
<1>2. ASSUME UNCHANGED <<market, stage, cursor, configuration, aTokens>>
      PROVE  ListedFirst'
  BY <1>1, <1>2 DEF Projects
<1>3. CASE InitNextReserve
  <2>1. /\ stage = "initialising" /\ stage' = stage /\ cursor' = cursor + 1 /\ market' = market
        /\ aTokens' = aTokens \cup {Rows[cursor + 1].project}
    BY <1>3 DEF InitNextReserve, PoolInitReserve
  <2>2. cursor \in Nat /\ DOMAIN Rows = 1 .. Len(Rows) /\ Len(Rows) \in Nat
    BY <2>1, RowOfProject DEF MarketInv, ScriptOK
  <2>3. Rows' = Rows BY <2>1 DEF Rows
  <2>4. ASSUME NEW i \in DOMAIN Rows, i <= cursor + 1
        PROVE  Rows[i].project \in aTokens'
    <3>1. CASE i <= cursor BY <2>1, <3>1 DEF ListedFirst
    <3>2. CASE i = cursor + 1 BY <2>1, <3>2
    <3>3. i \in Nat BY <2>2
    <3> QED BY <2>2, <2>4, <3>1, <3>2, <3>3
  <2> QED BY <2>1, <2>2, <2>3, <2>4 DEF ListedFirst
<1>4. CASE HandOver
  <2>1. /\ stage = "initialising" /\ cursor = Len(Rows) /\ stage' = "configuring"
        /\ aTokens' = aTokens /\ configuration' = configuration
    BY <1>4 DEF HandOver, reserveVars
  <2>2. \A i \in DOMAIN Rows : i <= Len(Rows) BY RowOfProject DEF MarketInv
  <2>3. Projects \subseteq aTokens BY <2>1, <2>2 DEF ListedFirst, MarketInv, ScriptOK
  <2> QED BY <2>1, <2>3 DEF ListedFirst, Projects
<1>5. CASE ConfigureReserves
  <2>1. /\ stage = "configuring" /\ stage' = stage /\ aTokens' = aTokens
        /\ DOMAIN configuration' = Projects
    BY <1>5 DEF ConfigureReserves, reserveVars
  <2> QED BY <2>1 DEF ListedFirst, Projects
<1>6. CASE HandBack \/ Abort
  BY <1>6 DEF HandBack, Abort, ListedFirst
<1>7. ASSUME NEW p \in Projects, Administration(p) PROVE ListedFirst'
  <2>1. CASE BatchInitReserve(p)
    BY <2>1, <1>1 DEF BatchInitReserve, PoolInitReserve, scriptVars, Projects
  <2>2. ASSUME NEW data, Store(p, data) PROVE ListedFirst'
    BY <2>2, <1>1 DEF Store, scriptVars, reserveVars, Projects
  <2>3. CASE SwitchReserve(p)
    BY <2>2, <2>3 DEF SwitchReserve, ActivateReserve, DeactivateReserve,
       DisableBorrowingOnReserve, EnableBorrowingOnReserve, SetReserveStableRate,
       SetReserveFrozen, SetDepositsOnReserve, SetWithdrawalsOnReserve,
       SetInterestWithdrawalsOnReserve
  <2>4. CASE \E t \in Terms : ConfigureReserveAsCollateral(p, t[1], t[2], t[3])
    BY <2>2, <2>4 DEF ConfigureReserveAsCollateral
  <2>5. CASE \E factor \in Factors : SetReserveFactor(p, factor)
    BY <2>2, <2>5 DEF SetReserveFactor
  <2>6. CASE \E rate \in LiquidityRates : UpdateReserveRates(p, rate)
    BY <2>6, <1>2 DEF UpdateReserveRates, scriptVars, reserveVars
  <2>7. CASE \E i \in DOMAIN Rows : SetStrategy(p, Rows[i].row.strategy.name)
    BY <2>7, <1>2 DEF SetStrategy, scriptVars
  <2> QED BY <1>7, <2>1, <2>3, <2>4, <2>5, <2>6, <2>7 DEF Administration
<1>8. ASSUME NEW p \in Projects, NEW amount \in Amounts, Usage(p, amount)
      PROVE  ListedFirst'
  <2>1. Use BY <1>8 DEF Usage, Borrow, Repay, Deposit, Withdraw, Transfer
  <2> QED BY <2>1, <1>2 DEF Use, scriptVars, reserveVars
<1>9. CASE UNCHANGED vars BY <1>2, <1>9 DEF vars, scriptVars, reserveVars
<1>10. CASE Beside BY <1>7, <1>8, <1>10 DEF Beside
<1>11. CASE Script BY <1>3, <1>4, <1>5, <1>6, <1>11 DEF Script
<1> QED BY <1>9, <1>10, <1>11 DEF Next

\* Only what is listed is configured by the script, whoever lists meanwhile.
THEOREM ListingComesFirst == Spec => []ListedFirst
<1>1. ASSUME Init PROVE ListedFirst
  <2>1. DOMAIN Rows = 1 .. Len(Rows) /\ Len(Rows) \in Nat
    BY <1>1, RowOfProject, InitHasInv DEF MarketInv
  <2>2. stage = "initialising" /\ cursor = 0 BY <1>1 DEF Init
  <2>3. \A i \in DOMAIN Rows : ~(i <= 0) BY <2>1
  <2> QED BY <2>2, <2>3 DEF ListedFirst
<1>2. MarketInv /\ ListedFirst /\ [Next]_vars => ListedFirst' BY NextKeepsListedFirst
<1> QED BY <1>1, <1>2, MarketInvariant, PTL DEF Spec

-----------------------------------------------------------------------------
(* The theorem *)

LEMMA InitRefines ==
  ASSUME Init
  PROVE  Abstract!Init
<1>1. \A f \in Fields : GetField({}, f) = 0
  <2>1. \A f : Digits({}, f) = {} BY DEF Digits
  <2>2. Value({}) = 0 BY SumOfNone DEF Value
  <2> QED BY <2>1, <2>2 DEF GetField, Value
<1>2. SettingsOf({}) = [f \in Fields |-> 0] BY <1>1 DEF SettingsOf
<1>3. \A p \in Projects : configuration[p] = {} BY DEF Init, Projects
<1>4. reservesList = <<>> BY DEF Init
<1> QED BY <1>2, <1>3, <1>4, SettingsRead DEF Abstract!Init

\* ReserveConfiguration.sol and LendingPoolConfigurator.sol: whatever a reserve's
\* word was, a transaction writes the settings it is about, of the projects it is
\* about, to values a loan can be covered with, and no other, in every market.
THEOREM WordsCorrect == Spec => WordsAreSettings
<1>1. Init => Abstract!Init BY InitRefines
<1>2. MarketInv /\ ListedFirst /\ [Next]_vars => [Abstract!Next]_(Abstract!settingsVars)
  BY NextRefines
<1> QED BY <1>1, <1>2, MarketInvariant, ListingComesFirst, PTL
        DEF Spec, WordsAreSettings, Abstract!Spec
-----------------------------------------------------------------------------
(* A deployment nobody interferes with *)

\* The words of the row `i`: when its reserve is listed, and when the script has
\* ended.
ListedWord(i) == Initialised({}, Rows[i].row.reserveDecimals)
FinalWord(i)  == IF i \in Configurable THEN Configured(ListedWord(i), Rows[i].row)
                 ELSE ListedWord(i)

\* The row `i` is listed, with its curve; its word is this.
Stands(i, word) ==
  /\ configuration[Rows[i].project] = word
  /\ strategy[Rows[i].project] = Rows[i].row.strategy.name

\* The script has configured this row.
Past(i) == i \in Configurable /\ Place(i) <= cursor

\* The script has dealt with the rows up to its cursor, and left the others.
UpToTheCursor ==
  /\ stage = "initialising" => \A i \in DOMAIN Rows :
       /\ i <= cursor => Stands(i, ListedWord(i))
       /\ i > cursor => configuration[Rows[i].project] = {}
  /\ stage = "configuring" => \A i \in DOMAIN Rows :
       IF Past(i) THEN Stands(i, FinalWord(i)) /\ RowFits(Rows[i].row)
       ELSE Stands(i, ListedWord(i))
  /\ stage = "done" => \A i \in DOMAIN Rows :
       Stands(i, FinalWord(i)) /\ (i \in Configurable => RowFits(Rows[i].row))

\* A row's place among those to configure.
LEMMA Places ==
  ASSUME ScriptOK
  PROVE  /\ IsFiniteSet(Configurable) /\ Cardinality(Configurable) \in Nat
         /\ \A i : Place(i) \in Nat /\ Place(i) <= Cardinality(Configurable)
<1>1. IsFiniteSet(Configurable) /\ Cardinality(Configurable) \in Nat
  BY ConfigurableRows
<1>2. ASSUME NEW i PROVE Place(i) \in Nat /\ Place(i) <= Cardinality(Configurable)
  <2> DEFINE upTo == {j \in Configurable : j <= i}
  <2>1. upTo \subseteq Configurable OBVIOUS
  <2>2. Place(i) = Cardinality(upTo) BY DEF Place
  <2> HIDE DEF upTo
  <2>3. IsFiniteSet(upTo) /\ Cardinality(upTo) <= Cardinality(Configurable)
    BY <1>1, <2>1, FS_Subset
  <2> QED BY <2>2, <2>3, FS_CardinalityType
<1> QED BY <1>1, <1>2

\* Rows are of different projects.
LEMMA RowsDiffer ==
  ASSUME ScriptOK, NEW i \in DOMAIN Rows, NEW j \in DOMAIN Rows
  PROVE  Rows[i].project = Rows[j].project => i = j
BY MarketAssumption DEF ScriptOK, Rows

\* The next row is listed.
LEMMA InitKeepsCursor ==
  ASSUME ScriptOK, UpToTheCursor, OtherTypes, InitNextReserve
  PROVE  UpToTheCursor'
<1> DEFINE k == cursor + 1
           p == Rows[k].project
           word == Initialised(configuration[p], Rows[k].row.reserveDecimals)
<1>1. /\ stage = "initialising" /\ cursor < Len(Rows)
      /\ configuration' = [configuration EXCEPT ![p] = word]
      /\ strategy' = [strategy EXCEPT ![p] = Rows[k].row.strategy.name]
      /\ cursor' = cursor + 1
      /\ market' = market /\ stage' = stage
  BY DEF InitNextReserve, PoolInitReserve
<1>2. cursor \in Nat /\ DOMAIN Rows = 1 .. Len(Rows) /\ Len(Rows) \in Nat
  BY RowOfProject DEF OtherTypes
<1>3. k \in DOMAIN Rows /\ p \in Projects /\ p \in DOMAIN strategy
  BY <1>1, <1>2, RowOfProject DEF OtherTypes
<1>4. configuration[p] = {}
  <2>1. k > cursor BY <1>2
  <2> QED BY <1>1, <1>3, <2>1 DEF UpToTheCursor
<1>5. word = ListedWord(k) BY <1>4 DEF ListedWord
<1>6. Rows' = Rows BY <1>1 DEF Rows
<1> HIDE DEF k, p, word
<1>7. ASSUME NEW i \in DOMAIN Rows
      PROVE  /\ i <= cursor' => Stands(i, ListedWord(i))'
             /\ i > cursor' => configuration'[Rows[i].project] = {}
  <2>1. ListedWord(i)' = ListedWord(i) BY <1>6 DEF ListedWord
  <2>2. CASE i = k
    <3>1. Rows[i].project = p BY <2>2 DEF p
    <3>2. configuration'[p] = ListedWord(i) BY <1>1, <1>3, <1>5, <2>2 DEF Projects
    <3>3. strategy'[p] = Rows[i].row.strategy.name BY <1>1, <1>3, <2>2
    <3>4. ~(i > cursor') BY <1>1, <1>2, <2>2 DEF k
    <3> QED BY <1>6, <2>1, <3>1, <3>2, <3>3, <3>4 DEF Stands
  <2>3. CASE i # k
    <3>1. Rows[i].project # p BY <1>3, <2>3, RowsDiffer DEF p
    <3>2. configuration'[Rows[i].project] = configuration[Rows[i].project]
            /\ strategy'[Rows[i].project] = strategy[Rows[i].project]
      BY <1>1, <3>1
    <3>3. /\ i <= cursor' => i <= cursor
          /\ i > cursor' => i > cursor
      BY <1>1, <1>2, <2>3 DEF k
    <3> QED BY <1>1, <1>6, <2>1, <3>2, <3>3 DEF UpToTheCursor, Stands
  <2> QED BY <2>2, <2>3
<1> QED BY <1>1, <1>6, <1>7 DEF UpToTheCursor

\* All rows are listed, and none is configured.
LEMMA HandOverKeepsCursor ==
  ASSUME ScriptOK, UpToTheCursor, HandOver
  PROVE  UpToTheCursor'
<1>1. /\ stage = "initialising" /\ cursor = Len(Rows) /\ stage' = "configuring"
      /\ cursor' = 0 /\ UNCHANGED <<market, configuration, strategy>>
  BY DEF HandOver, reserveVars
<1>2. DOMAIN Rows = 1 .. Len(Rows) /\ Len(Rows) \in Nat BY RowOfProject
<1>3. Rows' = Rows BY <1>1 DEF Rows
<1>4. ASSUME NEW i \in DOMAIN Rows PROVE ~Past(i)' /\ Stands(i, ListedWord(i))'
  <2>1. Stands(i, ListedWord(i)) BY <1>1, <1>2 DEF UpToTheCursor
  <2>2. Stands(i, ListedWord(i))' BY <1>1, <1>3, <2>1 DEF Stands, ListedWord
  <2>3. ASSUME i \in Configurable PROVE Place(i) # 0
    <3> DEFINE upTo == {j \in Configurable : j <= i}
    <3>1. i \in upTo BY <1>2, <2>3
    <3>2. IsFiniteSet(Configurable) /\ upTo \subseteq Configurable BY Places
    <3>3. Place(i) = Cardinality(upTo) BY DEF Place
    <3> HIDE DEF upTo
    <3>4. IsFiniteSet(upTo) BY <3>2, FS_Subset
    <3>5. Cardinality(upTo) # 0 BY <3>1, <3>4, FS_EmptySet
    <3> QED BY <3>3, <3>5
  <2>4. Configurable' = Configurable /\ Place(i)' = Place(i)
    BY <1>3 DEF Configurable, Place
  <2>5. Place(i) \in Nat BY Places
  <2> QED BY <1>1, <2>2, <2>3, <2>4, <2>5 DEF Past
<1> QED BY <1>1, <1>3, <1>4 DEF UpToTheCursor

\* A chunk is configured: the rows between the old cursor and the new.
LEMMA ConfiguringKeepsCursor ==
  ASSUME ScriptOK, UpToTheCursor, OtherTypes, ConfigureReserves
  PROVE  UpToTheCursor'
<1> DEFINE chosen == {entry.project : entry \in Chunk}
<1>1. /\ stage = "configuring" /\ ChunkIsAccepted /\ cursor < Cardinality(Configurable)
      /\ configuration' = [p \in Projects |-> IF p \in chosen
                                                THEN Configured(configuration[p], RowOf(p))
                                                ELSE configuration[p]]
      /\ cursor' = ChunkEnd
      /\ market' = market /\ stage' = stage /\ strategy' = strategy
  BY DEF ConfigureReserves, reserveVars
<1>2. Rows' = Rows BY <1>1 DEF Rows
<1>3. cursor \in Nat /\ ChunkEnd \in Nat /\ cursor < ChunkEnd
  BY <1>1, RowOfProject, Places DEF ChunkEnd, enableChunks, OtherTypes
<1>4. ASSUME NEW i \in DOMAIN Rows
      PROVE  Rows[i].project \in chosen
               <=> i \in Configurable /\ Place(i) \in (cursor + 1) .. ChunkEnd
  <2>1. Rows[i].project \in chosen
          <=> \E j \in Configurable : /\ Place(j) \in (cursor + 1) .. ChunkEnd
                                      /\ Rows[i].project = Rows[j].project
    BY DEF Chunk
  <2>2. Configurable \subseteq DOMAIN Rows BY DEF Configurable
  <2> HIDE DEF chosen
  <2> QED BY <2>1, <2>2, RowsDiffer
<1>5. ASSUME NEW i \in Configurable, Place(i) \in (cursor + 1) .. ChunkEnd
      PROVE  RowFits(Rows[i].row)
  <2>1. Rows[i] \in Chunk BY <1>5 DEF Chunk
  <2>2. i \in DOMAIN Rows /\ Rows[i].row.baseLTVAsCollateral # -1 BY DEF Configurable
  <2>3. RowIsPassable(Rows[i].row) BY <2>2, RowOfProject
  <2>4. /\ ValidTerms(Rows[i].project, Rows[i].row.baseLTVAsCollateral,
                      Rows[i].row.liquidationThreshold, Rows[i].row.liquidationBonus)
        /\ Rows[i].row.reserveFactor <= MaxValid("reserveFactor")
    BY <1>1, <2>1 DEF ChunkIsAccepted
  <2> QED BY <2>2, <2>3, <2>4 DEF RowIsPassable, RowFits, ValidTerms
<1> HIDE DEF chosen
<1>6. ASSUME NEW i \in DOMAIN Rows
      PROVE  IF Past(i)' THEN Stands(i, FinalWord(i))' /\ RowFits(Rows[i].row)
             ELSE Stands(i, ListedWord(i))'
  <2> DEFINE p == Rows[i].project
  <2>1. /\ Configurable' = Configurable /\ Place(i)' = Place(i)
        /\ ListedWord(i)' = ListedWord(i) /\ FinalWord(i)' = FinalWord(i)
    BY <1>2 DEF Configurable, Place, ListedWord, FinalWord
  <2>2. p \in Projects /\ RowOf(p) = Rows[i].row BY RowOfProject
  <2>3. strategy'[p] = Rows[i].row.strategy.name BY <1>1 DEF UpToTheCursor, Stands
  <2>4. Place(i) \in Nat BY Places
  <2>5. CASE i \in Configurable /\ Place(i) \in (cursor + 1) .. ChunkEnd
    <3>1. ~Past(i) /\ Past(i)' BY <1>1, <1>3, <2>1, <2>4, <2>5 DEF Past
    <3>2. configuration[p] = ListedWord(i) BY <1>1, <3>1 DEF UpToTheCursor, Stands
    <3>3. configuration'[p] = Configured(configuration[p], RowOf(p)) BY <1>1, <1>4, <2>2, <2>5
    <3>4. configuration'[p] = FinalWord(i) BY <2>2, <2>5, <3>2, <3>3 DEF FinalWord
    <3>5. RowFits(Rows[i].row) BY <1>5, <2>5
    <3> QED BY <1>2, <2>1, <2>3, <3>1, <3>4, <3>5 DEF Stands
  <2>6. CASE ~(i \in Configurable /\ Place(i) \in (cursor + 1) .. ChunkEnd)
    <3>1. Past(i)' <=> Past(i) BY <1>1, <1>3, <2>1, <2>4, <2>6 DEF Past
    <3>2. configuration'[p] = configuration[p] BY <1>1, <1>4, <2>2, <2>6
    <3> QED BY <1>1, <1>2, <2>1, <2>3, <3>1, <3>2 DEF UpToTheCursor, Stands
  <2> QED BY <2>5, <2>6
<1> QED BY <1>1, <1>2, <1>6 DEF UpToTheCursor

\* At the end every row to configure is past.
LEMMA HandBackKeepsCursor ==
  ASSUME ScriptOK, UpToTheCursor, HandBack
  PROVE  UpToTheCursor'
<1>1. /\ stage = "configuring" /\ cursor = Cardinality(Configurable) /\ stage' = "done"
      /\ UNCHANGED <<market, configuration, strategy>>
  BY DEF HandBack, reserveVars
<1>2. Rows' = Rows BY <1>1 DEF Rows
<1>3. ASSUME NEW i \in DOMAIN Rows
      PROVE  Stands(i, FinalWord(i))' /\ (i \in Configurable => RowFits(Rows[i].row))
  <2>1. Past(i) <=> i \in Configurable BY <1>1, Places DEF Past
  <2>2. Stands(i, FinalWord(i)) /\ (i \in Configurable => RowFits(Rows[i].row))
    BY <1>1, <2>1 DEF UpToTheCursor, FinalWord
  <2> QED BY <1>1, <1>2, <2>2 DEF Stands, FinalWord, ListedWord, Configurable
<1>4. Configurable' = Configurable BY <1>2 DEF Configurable
<1> QED BY <1>1, <1>2, <1>3, <1>4 DEF UpToTheCursor

\* The script alone keeps to its cursor.
LEMMA ScriptKeepsCursor ==
  ASSUME ScriptOK, UpToTheCursor, OtherTypes, Script
  PROVE  UpToTheCursor'
<1>1. CASE Abort
  BY <1>1 DEF Abort, UpToTheCursor
<1> QED BY <1>1, InitKeepsCursor, HandOverKeepsCursor, ConfiguringKeepsCursor,
           HandBackKeepsCursor DEF Script

\* Of some numbers of rows one is the least.
LEMMA LeastRow ==
  ASSUME NEW n \in Nat, NEW S, S \subseteq 1 .. n, S # {}
  PROVE  \E i \in S : \A j \in S : i <= j
<1> DEFINE UpTo(j) == {x \in S : x <= j}
           T == {UpTo(j) : j \in S}
<1>1. IsFiniteSet(S)
  <2>1. 1 \in Int /\ n \in Int OBVIOUS
  <2>2. IsFiniteSet(1 .. n) BY <2>1, FS_Interval
  <2> QED BY <2>2, FS_Subset
<1>2. PICK t \in T : \A u \in T : u \subseteq t => u = t
  <2>1. T \subseteq SUBSET S OBVIOUS
  <2>2. T # {} OBVIOUS
  <2> HIDE DEF T, UpTo
  <2> QED BY ONLY <1>1, <2>1, <2>2, SmallestSubset
<1>3. PICK i \in S : t = UpTo(i) OBVIOUS
<1>4. ASSUME NEW j \in S PROVE i <= j
  <2>1. SUFFICES ASSUME j < i PROVE FALSE BY <1>3
  <2>2. \A x \in S : x <= j => x <= i BY <2>1
  <2>3. UpTo(j) \subseteq t BY <1>3, <2>2
  <2>4. UpTo(j) \in T OBVIOUS
  <2>5. UpTo(j) = t BY <1>2, <2>3, <2>4, Zenon
  <2>6. i \in UpTo(i) OBVIOUS
  <2>7. i <= j BY <1>3, <2>5, <2>6
  <2> QED BY <2>1, <2>7
<1> QED BY <1>3, <1>4

\* The curve deployed under a row's name is the row's.
LEMMA CurveOfRow ==
  ASSUME ScriptOK, NEW i \in DOMAIN Rows
  PROVE  CurveFor(Rows[i].row.strategy.name) = Rows[i].row.strategy
<1> DEFINE name == Rows[i].row.strategy.name
           S == {j \in DOMAIN Rows : Rows[j].row.strategy.name = name}
           IsFirst(k) == /\ Rows[k].row.strategy.name = name
                         /\ \A j \in 1 .. (k - 1) : Rows[j].row.strategy.name # name
           found == CHOOSE k \in DOMAIN Rows : IsFirst(k)
<1>1. DOMAIN Rows = 1 .. Len(Rows) /\ Len(Rows) \in Nat BY RowOfProject
<1>2. PICK k \in S : \A j \in S : k <= j
  <2>1. S \subseteq 1 .. Len(Rows) /\ i \in S BY <1>1
  <2> HIDE DEF S
  <2> QED BY <1>1, <2>1, LeastRow
<1>3. k \in DOMAIN Rows /\ IsFirst(k)
  <2>1. ASSUME NEW j \in 1 .. (k - 1) PROVE Rows[j].row.strategy.name # name
    <3>1. j \in DOMAIN Rows /\ ~(k <= j) BY <1>1, <2>1
    <3> QED BY <1>2, <3>1
  <2> QED BY <2>1
<1>4. CurveFor(name) = Rows[found].row.strategy BY DEF CurveFor
<1> HIDE DEF IsFirst
<1>5. found \in DOMAIN Rows /\ IsFirst(found) BY <1>3
<1> HIDE DEF found
<1>6. Rows[found].row.strategy.name = name BY <1>5 DEF IsFirst
<1>7. Rows[found].row.strategy = Rows[i].row.strategy
  BY <1>5, <1>6, FilesAssumption DEF ScriptOK, Rows
<1> QED BY <1>4, <1>7

\* The switches of a word are the fields that read 1.
LEMMA SwitchesRead ==
  ASSUME NEW p
  PROVE  SwitchesOn(p) = {f \in Switches : GetField(configuration[p], f) = 1}
BY SwitchRead DEF SwitchesOn

\* A reserve as it is listed: active, and closed.
LEMMA ListedFields ==
  ASSUME ScriptOK, NEW i \in DOMAIN Rows
  PROVE  /\ GetField(ListedWord(i), "decimals") = Rows[i].row.reserveDecimals
         /\ \A f \in Switches :
              GetField(ListedWord(i), f) = IF f = "active" THEN 1 ELSE 0
<1> DEFINE word == ListedWord(i)
<1>1. Rows[i].row.reserveDecimals \in 0 .. 255 BY RowOfProject DEF RowIsPassable
<1>2. /\ KeepsFields(word, {}, {"decimals", "active", "frozen"})
      /\ GetField(word, "active") = 1 /\ GetField(word, "frozen") = 0
      /\ GetField(word, "decimals") = Rows[i].row.reserveDecimals
  BY <1>1, InitialisedFields DEF ListedWord
<1> HIDE DEF word
<1>3. \A f \in Switches \ {"active", "frozen"} : GetField(word, f) = GetField({}, f)
  BY <1>2 DEF KeepsFields, Switches, Fields
<1>4. ASSUME NEW f \in Switches PROVE GetField({}, f) = 0
  <2>1. ~IsOn({}, f) BY DEF IsOn
  <2> QED BY <2>1, SwitchRead
<1> QED BY <1>2, <1>3, <1>4 DEF word

\* A reserve as the script leaves it agrees with its row.
LEMMA FinalAgrees ==
  ASSUME ScriptOK, NEW i \in DOMAIN Rows, Stands(i, FinalWord(i)),
         i \in Configurable => RowFits(Rows[i].row)
  PROVE  Agrees(Rows[i].project, Rows[i].row)
<1> DEFINE p == Rows[i].project
           row == Rows[i].row
           word == ListedWord(i)
           new == Configured(word, row)
<1>1. configuration[p] = FinalWord(i) /\ CurveFor(strategy[p]) = row.strategy
  BY CurveOfRow DEF Stands
<1>2. /\ GetField(word, "decimals") = row.reserveDecimals
      /\ \A f \in Switches : GetField(word, f) = IF f = "active" THEN 1 ELSE 0
  BY ListedFields
<1>3. SwitchesOn(p) = {f \in Switches : GetField(configuration[p], f) = 1}
  BY SwitchesRead
<1>4. Switches = {"active", "frozen", "stableRate"} \cup Opening
        /\ "active" \notin Opening /\ "frozen" \notin Opening /\ "stableRate" \notin Opening
  BY DEF Switches, Opening
<1>5. /\ row.enabled \subseteq Opening \cup {"stableRate"}
      /\ "stableRate" \in row.enabled => "borrowing" \in row.enabled
  BY FilesAssumption DEF ScriptOK, Rows, Opening
<1>6. i \in Configurable <=> row.baseLTVAsCollateral # -1 BY DEF Configurable
<1>7. CASE i \notin Configurable
  <2>1. configuration[p] = word BY <1>1, <1>7 DEF FinalWord
  <2> HIDE DEF p, row, word
  <2>2. \A f \in Switches : GetField(configuration[p], f) = 1 <=> f = "active"
    BY <1>2, <2>1
  <2>3. SwitchesOn(p) = {"active"} BY <1>3, <1>4, <2>2
  <2>4. Agrees(p, row) BY <1>1, <1>2, <1>6, <1>7, <2>1, <2>3 DEF Agrees
  <2> QED BY <2>4 DEF p, row
<1>8. CASE i \in Configurable
  <2>1. configuration[p] = new BY <1>1, <1>8 DEF FinalWord
  <2>2. RowFits(row) BY <1>8
  <2> HIDE DEF p, row, word
  <2>3. /\ KeepsFields(new, word, Abstract!Deployed)
        /\ GetField(new, "ltv") = row.baseLTVAsCollateral
        /\ GetField(new, "liquidationThreshold") = row.liquidationThreshold
        /\ GetField(new, "liquidationBonus") = row.liquidationBonus
        /\ GetField(new, "reserveFactor") = row.reserveFactor
        /\ \A s \in Opening :
             GetField(new, s) = IF s \in row.enabled THEN 1 ELSE GetField(word, s)
        /\ GetField(new, "stableRate") =
             IF "borrowing" \notin row.enabled THEN GetField(word, "stableRate")
             ELSE IF "stableRate" \in row.enabled THEN 1 ELSE 0
    BY <2>2, ConfiguredFields
  <2>4. /\ GetField(new, "active") = GetField(word, "active")
        /\ GetField(new, "frozen") = GetField(word, "frozen")
        /\ GetField(new, "decimals") = GetField(word, "decimals")
    <3>1. {"active", "frozen", "decimals"} \subseteq Fields \ Abstract!Deployed
      BY DEF Fields, Switches, Abstract!Deployed, Abstract!Ratios
    <3> QED BY <2>3, <3>1 DEF KeepsFields
  <2> HIDE DEF new
  <2>5. ASSUME NEW f \in Switches
        PROVE  GetField(new, f) = 1 <=> f \in {"active"} \cup row.enabled
    <3>1. f \in Opening \/ f \in {"active", "frozen", "stableRate"} BY <1>4
    <3>2. CASE f \in Opening BY <1>2, <1>4, <2>3, <3>2
    <3>3. CASE f = "active" BY <1>2, <2>4, <3>3
    <3>4. CASE f = "frozen" BY <1>2, <1>4, <1>5, <2>4, <3>4
    <3>5. CASE f = "stableRate" BY <1>2, <1>4, <1>5, <2>3, <3>5
    <3> QED BY <3>1, <3>2, <3>3, <3>4, <3>5
  <2>6. SwitchesOn(p) = {"active"} \cup row.enabled
    BY <1>3, <1>4, <1>5, <2>1, <2>5
  <2>7. Agrees(p, row) BY <1>1, <1>2, <1>6, <1>8, <2>1, <2>3, <2>4, <2>6 DEF Agrees
  <2> QED BY <2>7 DEF p, row
<1> QED BY <1>7, <1>8

\* configureReservesByHelper2 and ATokensAndRatesHelper.sol: for every market whose
\* files make sense, of any number of reserves, a script that nobody interferes
\* with and that gets to its end leaves every reserve as its row says.
THEOREM ConfiguredCorrect == Spec => []ConfiguredAsListed
<1> DEFINE Alone == spent = 0 => UpToTheCursor
<1>1. ASSUME Init PROVE Alone
  <2>1. stage = "initialising" /\ cursor = 0 /\ ScriptOK
        /\ \A p \in Projects : configuration[p] = {}
    BY <1>1, InitHasInv DEF Init, Projects, MarketInv
  <2>2. DOMAIN Rows = 1 .. Len(Rows) /\ Len(Rows) \in Nat
        /\ \A i \in DOMAIN Rows : Rows[i].project \in Projects
    BY <2>1, RowOfProject
  <2>3. \A i \in DOMAIN Rows : ~(i <= cursor) BY <2>1, <2>2
  <2> QED BY <2>1, <2>2, <2>3 DEF UpToTheCursor
<1>2. ASSUME MarketInv, OtherTypes, Alone, [Next]_vars PROVE Alone'
  <2>1. SUFFICES ASSUME spent' = 0 PROVE UpToTheCursor' OBVIOUS
  <2>2. CASE Script /\ UNCHANGED spent
    BY <1>2, <2>1, <2>2, ScriptKeepsCursor DEF MarketInv
  <2>3. CASE spent' = spent + 1
    BY <1>2, <2>1, <2>3 DEF OtherTypes
  <2>4. CASE UNCHANGED vars
    <3>1. spent = 0 /\ UpToTheCursor BY <1>2, <2>1, <2>4 DEF vars
    <3>2. UNCHANGED <<market, stage, cursor, configuration, strategy>>
      BY <2>4 DEF vars, scriptVars, reserveVars
    <3> QED BY <3>1, <3>2 DEF UpToTheCursor, Stands, Past, Place, Configurable, FinalWord,
                              ListedWord, Rows
  <2> QED BY <1>2, <2>2, <2>3, <2>4 DEF Next
<1>3. ASSUME MarketInv, Alone PROVE ConfiguredAsListed
  <2> SUFFICES ASSUME stage = "done", spent = 0, NEW p \in Projects
               PROVE  Agrees(p, RowOf(p))
    BY DEF ConfiguredAsListed
  <2>1. PICK i \in DOMAIN Rows : p = Rows[i].project BY <1>3 DEF MarketInv, ScriptOK
  <2>2. RowOf(p) = Rows[i].row BY <1>3, <2>1, RowOfProject DEF MarketInv
  <2>3. Stands(i, FinalWord(i)) /\ (i \in Configurable => RowFits(Rows[i].row))
    BY <1>3 DEF UpToTheCursor
  <2> QED BY <1>3, <2>1, <2>2, <2>3, FinalAgrees DEF MarketInv
<1>4. MarketInv /\ TypeOK => OtherTypes BY DEF TypeOK, OtherTypes
<1> HIDE DEF Alone
<1> QED BY <1>1, <1>2, <1>3, <1>4, MarketInvariant, MarketTypes, PTL DEF Spec
-----------------------------------------------------------------------------
(* What stops a deployment *)

\* A chunk that is refused has a row without collateral whose reserve holds cash
\* or has a rate: its numbers are right and its reserve is listed.
LEMMA RefusedForLiquidity ==
  ASSUME MarketInv, OtherTypes, ListedFirst, stage = "configuring", ~ChunkIsAccepted
  PROVE  \E p \in Projects : /\ RowOf(p).liquidationThreshold = 0
                             /\ cash[p] > 0 \/ liquidityRate[p] > 0
<1>1. PICK entry \in Chunk :
        ~ /\ ValidTerms(entry.project, entry.row.baseLTVAsCollateral,
                        entry.row.liquidationThreshold, entry.row.liquidationBonus)
          /\ entry.row.reserveFactor <= MaxValid("reserveFactor")
  BY DEF ChunkIsAccepted
<1>2. PICK i \in DOMAIN Rows : entry = Rows[i] /\ Rows[i].row.baseLTVAsCollateral # -1
  BY DEF Chunk, Configurable
<1> DEFINE p   == Rows[i].project
           row == Rows[i].row
<1>3. p \in Projects /\ RowOf(p) = row BY RowOfProject DEF MarketInv
<1>4. /\ row.baseLTVAsCollateral <= row.liquidationThreshold
      /\ IF row.liquidationThreshold = 0
           THEN row.liquidationBonus = 0
           ELSE /\ row.liquidationBonus > PERCENTAGE_FACTOR
                /\ PercentMul(row.liquidationThreshold, row.liquidationBonus)
                     <= PERCENTAGE_FACTOR
      /\ row.baseLTVAsCollateral <= MaxValid("ltv")
      /\ row.liquidationThreshold <= MaxValid("liquidationThreshold")
      /\ row.liquidationBonus <= MaxValid("liquidationBonus")
      /\ row.reserveFactor <= MaxValid("reserveFactor")
  BY <1>2, TermsAssumption DEF MarketInv, ScriptOK, Rows
<1>5. row.liquidationThreshold = 0 /\ ~NoLiquidity(p)
  BY <1>1, <1>2, <1>4 DEF ValidTerms
<1>6. p \in aTokens BY <1>3 DEF ListedFirst
<1>7. cash[p] \in Nat /\ liquidityRate[p] \in Nat
  BY <1>3 DEF MarketInv, CashOK, OtherTypes
<1> HIDE DEF p, row
<1> QED BY <1>3, <1>5, <1>6, <1>7 DEF NoLiquidity

\* Only the script moves the script.
LEMMA OthersLeaveScript ==
  ASSUME Beside PROVE UNCHANGED scriptVars
<1>1. ASSUME NEW p \in Projects, Administration(p) PROVE UNCHANGED scriptVars
  BY <1>1 DEF Administration, SwitchReserve, BatchInitReserve, ActivateReserve,
     DeactivateReserve, DisableBorrowingOnReserve, EnableBorrowingOnReserve,
     SetReserveStableRate, SetReserveFrozen, SetDepositsOnReserve,
     SetWithdrawalsOnReserve, SetInterestWithdrawalsOnReserve, SetReserveFactor,
     ConfigureReserveAsCollateral, UpdateReserveRates, SetStrategy, Store
<1>2. ASSUME NEW p \in Projects, NEW amount \in Amounts, Usage(p, amount)
      PROVE  UNCHANGED scriptVars
  BY <1>2 DEF Usage, Borrow, Repay, Deposit, Withdraw, Transfer, Use
<1> QED BY <1>1, <1>2 DEF Beside

\* ATokensAndRatesHelper.sol and configureReserveAsCollateral: for all markets whose
\* files have acceptable terms, and whatever administrator and users do meanwhile,
\* nothing but liquidity in a reserve without collateral stops the configuring.
THEOREM RefusalsCorrect == Spec => OnlyLiquidityStopsConfiguring
<1>1. ASSUME MarketInv, OtherTypes, ListedFirst, [Next]_vars,
             stage = "configuring", stage' = "failed"
      PROVE  \E p \in Projects : /\ RowOf(p).liquidationThreshold = 0
                                 /\ cash[p] > 0 \/ liquidityRate[p] > 0
  <2>1. stage' # stage BY <1>1
  <2>2. Script BY <1>1, <2>1, OthersLeaveScript DEF Next, vars, scriptVars
  <2>3. Abort
    BY <1>1, <2>2 DEF Script, InitNextReserve, HandOver, ConfigureReserves, HandBack
  <2>4. ~ChunkIsAccepted BY <1>1, <2>3 DEF Abort
  <2> QED BY <1>1, <2>4, RefusedForLiquidity
<1>2. MarketInv /\ TypeOK => OtherTypes BY DEF TypeOK, OtherTypes
<1>3. MarketInv /\ OtherTypes /\ ListedFirst /\ [Next]_vars
        => [stage = "configuring" /\ stage' = "failed" =>
              \E p \in Projects : /\ RowOf(p).liquidationThreshold = 0
                                  /\ cash[p] > 0 \/ liquidityRate[p] > 0]_vars
  BY <1>1
<1> QED BY <1>2, <1>3, MarketInvariant, MarketTypes, ListingComesFirst, PTL
        DEF Spec, OnlyLiquidityStopsConfiguring

\* The script alone: no reserve holds anything, as many are listed as the cursor
\* says, and no row behind it is.
Undisturbed ==
  /\ \A p \in Projects : cash[p] = 0 /\ liquidityRate[p] = 0
  /\ stage = "initialising" =>
       /\ Len(reservesList) = cursor
       /\ \A i \in DOMAIN Rows : i > cursor => Rows[i].project \notin aTokens

\* A deployment nobody interferes with, of a market the list has room for.
NothingIsRefused == spent = 0 /\ Len(Rows) <= MaxReserves => stage # "failed"

\* A step of the script leaves the next row to be listed, and none is refused.
LEMMA ScriptIsUndisturbed ==
  ASSUME MarketInv, OtherTypes, ListedFirst, Undisturbed, Script,
         Len(Rows) <= MaxReserves => stage # "failed"
  PROVE  /\ Undisturbed'
         /\ Len(Rows') <= MaxReserves => stage' # "failed"
<1>1. DOMAIN Rows = 1 .. Len(Rows) /\ Len(Rows) \in Nat
      /\ \A i \in DOMAIN Rows : Rows[i].project \in Projects
  BY RowOfProject DEF MarketInv
<1>2. market' = market /\ UNCHANGED <<cash, liquidityRate>>
  BY DEF Script, InitNextReserve, HandOver, ConfigureReserves, HandBack, Abort, userVars
<1>3. Rows' = Rows BY <1>2 DEF Rows
<1>4. Projects' = Projects
  BY DEF Script, InitNextReserve, HandOver, ConfigureReserves, HandBack, Abort, Projects
<1>5. CASE InitNextReserve
  <2> DEFINE k == cursor + 1
             p == Rows[k].project
  <2>1. /\ stage = "initialising" /\ cursor < Len(Rows) /\ cursor' = cursor + 1
        /\ PoolInitReserve(p, Rows[k].row.strategy.name) /\ stage' = stage
        /\ configuration' =
             [configuration EXCEPT ![p] = Initialised(@, Rows[k].row.reserveDecimals)]
        /\ UNCHANGED userVars
    BY <1>5 DEF InitNextReserve
  <2>2. cursor \in Nat BY <1>1 DEF OtherTypes
  <2>3. k \in DOMAIN Rows /\ p \in Projects BY <1>1, <2>1, <2>2
  <2>4. Listing(p)
    <3> DEFINE curve    == Rows[k].row.strategy.name
               decimals == Rows[k].row.reserveDecimals
    <3>1. /\ PoolInitReserve(p, curve)
          /\ configuration' = [configuration EXCEPT ![p] = Initialised(@, decimals)]
      BY <2>1
    <3>2. stage = "initialising" /\ cursor' \in Nat /\ UNCHANGED <<userVars, market>>
      BY <1>2, <2>1, <2>2
    <3> HIDE DEF p, curve, decimals
    <3> QED BY <3>1, <3>2, Zenon DEF Listing
  <2>5. /\ aTokens' = aTokens \cup {p} /\ reservesList' = Append(reservesList, p)
        /\ reservesList \in Seq(Projects)
    BY <2>3, <2>4, ListingAppends DEF MarketInv, ListOK
  <2>6. Len(reservesList') = cursor' BY <2>1, <2>3, <2>5 DEF Undisturbed
  <2>7. ASSUME NEW i \in DOMAIN Rows, i > cursor' PROVE Rows[i].project \notin aTokens'
    <3>1. i > cursor /\ i # k BY <1>1, <2>1, <2>2, <2>7
    <3>2. Rows[i].project # p BY <2>3, <3>1, RowsDiffer DEF MarketInv
    <3> QED BY <2>1, <2>5, <3>1, <3>2 DEF Undisturbed
  <2> QED BY <1>2, <1>3, <1>4, <2>1, <2>6, <2>7 DEF Undisturbed
<1>6. CASE HandOver \/ ConfigureReserves \/ HandBack
  BY <1>2, <1>4, <1>6 DEF HandOver, ConfigureReserves, HandBack, Undisturbed
<1>7. CASE Abort
  <2>1. Undisturbed' BY <1>2, <1>4, <1>7 DEF Abort, Undisturbed
  <2>2. ASSUME Len(Rows) <= MaxReserves PROVE FALSE
    <3>1. stage # "configuring"
      BY <1>7, RefusedForLiquidity DEF Abort, Undisturbed
    <3>2. stage = "initialising" /\ cursor < Len(Rows)
            /\ ~CanInit(Rows[cursor + 1].project)
      BY <1>7, <3>1 DEF Abort
    <3>3. cursor \in Nat /\ MaxReserves \in Nat BY <1>1, MarketAssumption DEF OtherTypes
    <3>4. cursor + 1 \in DOMAIN Rows /\ cursor + 1 > cursor BY <1>1, <3>2, <3>3
    <3>5. Rows[cursor + 1].project \notin aTokens /\ Len(reservesList) = cursor
      BY <3>2, <3>4 DEF Undisturbed
    <3> QED BY <1>1, <2>2, <3>2, <3>3, <3>5 DEF CanInit
  <2> QED BY <1>3, <2>1, <2>2
<1> QED BY <1>5, <1>6, <1>7 DEF Script

\* What DeploymentEnds has of safety, for every market with acceptable terms: the
\* script of an undisturbed deployment is never refused a transaction, as long as
\* the market has no more rows than the pool has room for.
THEOREM UndisturbedIsAccepted == Spec => []NothingIsRefused
<1> DEFINE Alone ==
      spent = 0 => Undisturbed /\ (Len(Rows) <= MaxReserves => stage # "failed")
<1>1. ASSUME Init PROVE Alone
  <2>1. \A p \in Projects : cash[p] = 0 /\ liquidityRate[p] = 0
    BY <1>1 DEF Init, Nothing
  <2>2. stage = "initialising" /\ cursor = 0 /\ Len(reservesList) = 0 /\ aTokens = {}
    BY <1>1 DEF Init
  <2> QED BY <2>1, <2>2 DEF Undisturbed
<1>2. ASSUME MarketInv, OtherTypes, ListedFirst, Alone, [Next]_vars PROVE Alone'
  <2>1. SUFFICES ASSUME spent' = 0
                 PROVE  Undisturbed' /\ (Len(Rows') <= MaxReserves => stage' # "failed")
    OBVIOUS
  <2>2. CASE Script /\ UNCHANGED spent
    BY <1>2, <2>1, <2>2, ScriptIsUndisturbed
  <2>3. CASE spent' = spent + 1
    BY <1>2, <2>1, <2>3 DEF OtherTypes
  <2>4. CASE UNCHANGED vars
    <3>1. spent = 0 /\ Undisturbed /\ (Len(Rows) <= MaxReserves => stage # "failed")
      BY <1>2, <2>1, <2>4 DEF vars
    <3>2. UNCHANGED <<market, stage, cursor, configuration, aTokens, reservesList, cash,
                      liquidityRate>>
      BY <2>4 DEF vars, scriptVars, reserveVars, userVars
    <3> QED BY <3>1, <3>2 DEF Undisturbed, Rows, Projects
  <2> QED BY <1>2, <2>2, <2>3, <2>4 DEF Next
<1>3. Alone => NothingIsRefused BY DEF NothingIsRefused
<1>4. MarketInv /\ TypeOK => OtherTypes BY DEF TypeOK, OtherTypes
<1> HIDE DEF Alone
<1> QED BY <1>1, <1>2, <1>3, <1>4, MarketInvariant, MarketTypes, ListingComesFirst, PTL
        DEF Spec

-----------------------------------------------------------------------------
(* The tokens of the reserves, whatever is upgraded meanwhile *)

\* An upgrade is no step of the market: every theorem about Spec is one about the
\* market whose tokens are upgraded.
THEOREM UpgradedMarketIsMarket == UpgradeSpec => Spec
<1>1. UpgradeInit => Init BY DEF UpgradeInit
<1>2. [UpgradeNext]_upgradeVars => [Next]_vars BY DEF UpgradeNext, upgradeVars
<1> QED BY <1>1, <1>2, PTL DEF UpgradeSpec, Spec

\* A proxy, in so many words.
IsProxy(proxy) ==
  proxy = [implementation |-> proxy.implementation, revision |-> proxy.revision,
           settings |-> [project |-> proxy.settings.project,
                         underlying |-> proxy.settings.underlying,
                         decimals |-> proxy.settings.decimals]]

AreProxies(reserve) ==
  /\ reserve = [token \in Tokens |-> reserve[token]]
  /\ \A token \in Tokens : IsProxy(reserve[token])

\* What TokensServeTheirReserve says of one reserve, and that its tokens have been
\* initialized.
Serve(reserve, p, decimals) ==
  /\ \A token \in Tokens : reserve[token].settings.decimals = decimals
  /\ reserve["aToken"].settings.project = ProjectOf(p)
  /\ reserve["aToken"].settings.underlying # UnderlyingOf(p) =>
       /\ reserve["aToken"].settings.underlying = ZeroAddress
       /\ reserve["aToken"].revision = FirstRevision
  /\ reserve["pToken"].settings = PTokenSettings(p, decimals)
  /\ \A token \in DebtTokens :
       reserve[token].settings.underlying =
         IF reserve[token].revision = FirstRevision THEN UnderlyingOf(p) ELSE ProjectOf(p)
  /\ \A token \in Tokens :
       reserve[token].revision \in Nat /\ reserve[token].revision >= FirstRevision

TokensOK ==
  /\ tokens = [p \in Projects |-> tokens[p]]
  /\ \A p \in Projects : AreProxies(tokens[p])
  /\ \A p \in aTokens : Serve(tokens[p], p, Decimals(p))

\* The words of the listed reserves keep their decimals.
LEMMA DecimalsKept ==
  ASSUME MarketInv, ListedFirst, [Next]_vars
  PROVE  /\ Projects' = Projects
         /\ \A p \in aTokens : Decimals(p)' = Decimals(p)
<1>1. [Abstract!Next]_(Abstract!settingsVars) BY NextRefines
<1>2. DOMAIN FieldsRead = Projects /\ DOMAIN FieldsRead' = Projects'
  BY DEF FieldsRead
<1>3. Projects' = Projects
  BY <1>1, <1>2 DEF Abstract!Next, Abstract!settingsVars
<1>4. "decimals" \in Fields BY FieldNames
<1>5. \A p \in Projects : /\ FieldsRead[p]["decimals"] = Decimals(p)
                          /\ FieldsRead'[p]["decimals"] = Decimals(p)'
  BY <1>3, <1>4 DEF FieldsRead, SettingsOf, Decimals
<1>6. ASSUME NEW p \in aTokens PROVE FieldsRead'[p]["decimals"] = FieldsRead[p]["decimals"]
  <2>1. p \in Projects /\ Abstract!Contains(reservesList, p)
    BY DEF MarketInv, ListOK, ListIsIndexed, Abstract!Contains
  <2>2. CASE p \notin Abstract!Touched BY <1>2, <2>1, <2>2 DEF Abstract!Touched
  <2>3. CASE UNCHANGED Abstract!settingsVars BY <2>3 DEF Abstract!settingsVars
  <2>4. CASE p \in Abstract!Touched /\ \E q \in Projects : Abstract!List(q, Abstract!Touched)
    BY <2>1, <2>4 DEF Abstract!List
  <2>5. CASE p \in Abstract!Touched /\ Abstract!Change(Abstract!Touched)
    BY <1>4, <2>5, FieldNames DEF Abstract!Change, Abstract!SetTerms,
       Abstract!OpenToBorrowers, Abstract!SetOne, Abstract!Keeps
  <2>6. CASE p \in Abstract!Touched /\ Abstract!Deploy(Abstract!Touched)
    BY <1>4, <2>6, FieldNames DEF Abstract!Deploy, Abstract!Deployed, Abstract!Keeps
  <2> QED BY <1>1, <1>2, <2>2, <2>3, <2>4, <2>5, <2>6 DEF Abstract!Next
<1>7. aTokens \subseteq Projects BY DEF MarketInv, ListOK
<1> QED BY <1>3, <1>5, <1>6, <1>7

\* A reserve is listed with the decimals of its row.
LEMMA ListedDecimals ==
  ASSUME MarketInv, [Next]_vars
  PROVE  /\ aTokens \subseteq aTokens'
         /\ \A p \in aTokens' \ aTokens : Decimals(p)' = RowOf(p).reserveDecimals
<1> DEFINE Fresh(p) == p \in aTokens' \ aTokens => Decimals(p)' = RowOf(p).reserveDecimals
<1>1. ASSUME NEW i \in DOMAIN Rows, NEW curve, PoolInitReserve(Rows[i].project, curve),
             configuration' = [configuration EXCEPT ![Rows[i].project] =
                                 Initialised(@, Rows[i].row.reserveDecimals)]
      PROVE  aTokens \subseteq aTokens' /\ \A p : Fresh(p)
  <2> DEFINE q == Rows[i].project
             decimals == Rows[i].row.reserveDecimals
  <2>1. q \in Projects /\ decimals \in 0 .. 255 /\ RowOf(q) = Rows[i].row
    BY RowOfProject DEF MarketInv, RowIsPassable
  <2>2. aTokens' = aTokens \cup {q} BY <1>1 DEF PoolInitReserve
  <2>3. configuration'[q] = Initialised(configuration[q], decimals)
    BY <1>1, <2>1 DEF Projects
  <2> HIDE DEF q, decimals
  <2>4. ASSUME NEW p, p = q PROVE Decimals(p)' = decimals
    BY <2>1, <2>3, <2>4, InitialisedFields DEF Decimals
  <2>5. \A p : p = q => RowOf(p).reserveDecimals = decimals BY <2>1 DEF decimals
  <2> QED BY <2>2, <2>4, <2>5
<1>2. ASSUME InitNextReserve PROVE aTokens \subseteq aTokens' /\ \A p : Fresh(p)
  <2>1. cursor + 1 \in DOMAIN Rows
    BY <1>2, RowOfProject DEF InitNextReserve, MarketInv, ScriptOK
  <2> QED BY <1>1, <1>2, <2>1 DEF InitNextReserve
<1>3. ASSUME NEW p \in Projects, BatchInitReserve(p)
      PROVE  aTokens \subseteq aTokens' /\ \A q : Fresh(q)
  <2>1. PICK i \in DOMAIN Rows : p = Rows[i].project BY DEF MarketInv, ScriptOK
  <2>2. RowOf(p) = Rows[i].row BY <2>1, RowOfProject DEF MarketInv
  <2> QED BY <1>1, <1>3, <2>1, <2>2 DEF BatchInitReserve
<1>4. ASSUME aTokens' = aTokens PROVE aTokens \subseteq aTokens' /\ \A p : Fresh(p)
  BY <1>4
<1>5. ASSUME HandOver \/ ConfigureReserves \/ HandBack \/ Abort
      PROVE  aTokens' = aTokens
  BY <1>5 DEF HandOver, ConfigureReserves, HandBack, Abort, reserveVars
<1>6. ASSUME NEW p \in Projects, Administration(p), ~BatchInitReserve(p)
      PROVE  aTokens' = aTokens
  <2>1. ASSUME NEW data, Store(p, data) PROVE aTokens' = aTokens
    BY <2>1 DEF Store, reserveVars
  <2>2. CASE SwitchReserve(p)
    BY <2>1, <2>2 DEF SwitchReserve, ActivateReserve, DeactivateReserve,
       DisableBorrowingOnReserve, EnableBorrowingOnReserve, SetReserveStableRate,
       SetReserveFrozen, SetDepositsOnReserve, SetWithdrawalsOnReserve,
       SetInterestWithdrawalsOnReserve
  <2>3. CASE \E t \in Terms : ConfigureReserveAsCollateral(p, t[1], t[2], t[3])
    BY <2>1, <2>3 DEF ConfigureReserveAsCollateral
  <2>4. CASE \E factor \in Factors : SetReserveFactor(p, factor)
    BY <2>1, <2>4 DEF SetReserveFactor
  <2>5. CASE \E rate \in LiquidityRates : UpdateReserveRates(p, rate)
    BY <2>5 DEF UpdateReserveRates, reserveVars
  <2>6. CASE \E i \in DOMAIN Rows : SetStrategy(p, Rows[i].row.strategy.name)
    BY <2>6 DEF SetStrategy
  <2> QED BY <1>6, <2>2, <2>3, <2>4, <2>5, <2>6 DEF Administration
<1>7. ASSUME NEW p \in Projects, NEW amount \in Amounts, Usage(p, amount)
      PROVE  aTokens' = aTokens
  <2>1. Use BY <1>7 DEF Usage, Borrow, Repay, Deposit, Withdraw, Transfer
  <2> QED BY <2>1 DEF Use, reserveVars
<1>8. ASSUME UNCHANGED vars PROVE aTokens' = aTokens BY <1>8 DEF vars, reserveVars
<1>9. ASSUME Script PROVE aTokens \subseteq aTokens' /\ \A p : Fresh(p)
  BY <1>2, <1>4, <1>5, <1>9 DEF Script
<1> HIDE DEF Fresh
<1>10. ASSUME Beside PROVE aTokens \subseteq aTokens' /\ \A p : Fresh(p)
  <2>1. PICK p \in Projects :
          Administration(p) \/ \E amount \in Amounts : Usage(p, amount)
    BY <1>10 DEF Beside
  <2>2. CASE BatchInitReserve(p) BY <1>3, <2>2
  <2>3. CASE ~BatchInitReserve(p) BY <1>4, <1>6, <1>7, <2>1, <2>3
  <2> QED BY <2>2, <2>3
<1>11. aTokens \subseteq aTokens' /\ \A p : Fresh(p)
  BY <1>4, <1>8, <1>9, <1>10 DEF Next
<1> QED BY <1>11 DEF Fresh

\* A proxy that runs its first implementation.
LEMMA CreatedProxy ==
  ASSUME NEW settings,
         settings = [project |-> settings.project, underlying |-> settings.underlying,
                     decimals |-> settings.decimals]
  PROVE  /\ IsProxy(Initialize(NewProxy, FirstRevision, settings))
         /\ Initialize(NewProxy, FirstRevision, settings) =
              [implementation |-> FirstRevision, revision |-> FirstRevision,
               settings |-> settings]
<1> DEFINE given == [NewProxy EXCEPT !.implementation = FirstRevision]
<1>1. given = [implementation |-> FirstRevision, revision |-> 0,
               settings |-> NewProxy.settings]
  BY DEF NewProxy
<1>2. FirstRevision > given.revision BY <1>1 DEF FirstRevision
<1>3. Initialize(NewProxy, FirstRevision, settings) =
        [implementation |-> given.implementation, revision |-> FirstRevision,
         settings |-> settings]
  BY <1>2 DEF Initialize, Delegated, Initializes
<1> HIDE DEF given
<1>4. Initialize(NewProxy, FirstRevision, settings) =
        [implementation |-> FirstRevision, revision |-> FirstRevision,
         settings |-> settings]
  BY <1>1, <1>3
<1> QED BY <1>4 DEF IsProxy

\* An upgrade that succeeds.
LEMMA UpgradedProxy ==
  ASSUME NEW proxy, IsProxy(proxy), NEW implementation, Succeeds(proxy, implementation),
         NEW settings,
         settings = [project |-> settings.project, underlying |-> settings.underlying,
                     decimals |-> settings.decimals]
  PROVE  /\ IsProxy(Initialize(proxy, implementation, settings))
         /\ Initialize(proxy, implementation, settings) =
              [implementation |-> implementation, revision |-> implementation,
               settings |-> settings]
<1> DEFINE given == [proxy EXCEPT !.implementation = implementation]
<1>1. given = [implementation |-> implementation, revision |-> proxy.revision,
               settings |-> proxy.settings]
  BY DEF IsProxy
<1>2. implementation > given.revision BY <1>1 DEF Succeeds, Initializes
<1>3. Initialize(proxy, implementation, settings) =
        [implementation |-> given.implementation, revision |-> implementation,
         settings |-> settings]
  BY <1>2 DEF Initialize, Delegated, Initializes
<1> HIDE DEF given
<1>4. Initialize(proxy, implementation, settings) =
        [implementation |-> implementation, revision |-> implementation,
         settings |-> settings]
  BY <1>1, <1>3
<1> QED BY <1>4 DEF IsProxy

\* The tokens of a reserve that is being listed.
LEMMA NewTokens ==
  ASSUME NEW p, p \notin aTokens
  PROVE  LET settings(token) == InitTokens(p)[token].settings
             decimals == RowOf(p).reserveDecimals
         IN  /\ InitTokens(p) = [token \in Tokens |-> InitTokens(p)[token]]
             /\ \A token \in Tokens : /\ IsProxy(InitTokens(p)[token])
                                      /\ InitTokens(p)[token].revision = FirstRevision
             /\ settings("aToken") = [project |-> ProjectOf(p), underlying |-> ZeroAddress,
                                      decimals |-> decimals]
             /\ settings("pToken") = PTokenSettings(p, decimals)
             /\ \A token \in DebtTokens :
                  settings(token) = DebtTokenSettings(UnderlyingOf(p), decimals)
<1> DEFINE decimals == RowOf(p).reserveDecimals
           given(token) ==
             CASE token = "aToken" -> ATokenSettings(p, decimals)
               [] token = "pToken" -> PTokenSettings(p, decimals)
               [] token \in DebtTokens -> DebtTokenSettings(UnderlyingOf(p), decimals)
<1>1. InitTokens(p) = [token \in Tokens |-> Initialize(NewProxy, FirstRevision, given(token))]
  BY DEF InitTokens
<1>2. /\ given("aToken") = [project |-> ProjectOf(p), underlying |-> ZeroAddress,
                            decimals |-> decimals]
      /\ given("pToken") = PTokenSettings(p, decimals)
      /\ \A token \in DebtTokens : given(token) = DebtTokenSettings(UnderlyingOf(p), decimals)
  BY DEF ATokenSettings, getUnderlyingAsset, DebtTokens
<1> HIDE DEF given
<1>3. \A token \in Tokens :
        given(token) = [project |-> given(token).project,
                        underlying |-> given(token).underlying,
                        decimals |-> given(token).decimals]
  BY <1>2 DEF Tokens, PTokenSettings, DebtTokenSettings
<1>4. \A token \in Tokens :
        /\ IsProxy(InitTokens(p)[token])
        /\ InitTokens(p)[token] = [implementation |-> FirstRevision,
                                   revision |-> FirstRevision, settings |-> given(token)]
  BY <1>1, <1>3, CreatedProxy
<1>5. \A token \in Tokens : /\ InitTokens(p)[token].revision = FirstRevision
                            /\ InitTokens(p)[token].settings = given(token)
  <2> TAKE token \in Tokens
  <2> DEFINE proxy == InitTokens(p)[token]
             value == given(token)
  <2>1. proxy = [implementation |-> FirstRevision, revision |-> FirstRevision,
                 settings |-> value]
    BY <1>4
  <2> HIDE DEF proxy, value
  <2>2. proxy.revision = FirstRevision /\ proxy.settings = value BY <2>1
  <2> QED BY <2>2 DEF proxy, value
<1> QED BY <1>1, <1>2, <1>4, <1>5 DEF Tokens

LEMMA NewTokensServe ==
  ASSUME NEW p, p \notin aTokens
  PROVE  /\ AreProxies(InitTokens(p))
         /\ Serve(InitTokens(p), p, RowOf(p).reserveDecimals)
<1> DEFINE reserve == InitTokens(p)
           decimals == RowOf(p).reserveDecimals
<1>1. /\ reserve = [token \in Tokens |-> reserve[token]]
      /\ \A token \in Tokens : IsProxy(reserve[token]) /\ reserve[token].revision = FirstRevision
      /\ reserve["aToken"].settings = [project |-> ProjectOf(p), underlying |-> ZeroAddress,
                                       decimals |-> decimals]
      /\ reserve["pToken"].settings = PTokenSettings(p, decimals)
      /\ \A token \in DebtTokens :
           reserve[token].settings = DebtTokenSettings(UnderlyingOf(p), decimals)
  BY NewTokens
<1> HIDE DEF reserve, decimals
<1>2. /\ reserve["aToken"].settings.project = ProjectOf(p)
      /\ reserve["aToken"].settings.underlying = ZeroAddress
      /\ reserve["aToken"].settings.decimals = decimals
      /\ reserve["pToken"].settings.decimals = decimals
  BY <1>1 DEF PTokenSettings
<1>3. \A token \in DebtTokens : /\ reserve[token].settings.underlying = UnderlyingOf(p)
                                /\ reserve[token].settings.decimals = decimals
  BY <1>1 DEF DebtTokenSettings
<1>4. \A token \in Tokens :
        reserve[token].revision \in Nat /\ reserve[token].revision >= FirstRevision
  BY <1>1 DEF FirstRevision
<1>5. AreProxies(reserve) BY <1>1 DEF AreProxies
<1>6. Serve(reserve, p, decimals)
  BY <1>1, <1>2, <1>3, <1>4 DEF Serve, Tokens, DebtTokens
<1> QED BY <1>5, <1>6 DEF reserve, decimals

\* AToken.burn
LEMMA BurnKeepsService ==
  ASSUME NEW reserve, AreProxies(reserve), NEW asset
  PROVE  LET burnt == Burnt(reserve, asset)
         IN  /\ AreProxies(burnt)
             /\ \A token \in Tokens :
                  /\ burnt[token].revision = reserve[token].revision
                  /\ burnt[token].implementation = reserve[token].implementation
             /\ \A p, decimals :
                  Serve(reserve, p, decimals) /\ asset = UnderlyingOf(p) =>
                    Serve(burnt, p, decimals)
<1> DEFINE old == reserve["aToken"]
           new == [implementation |-> old.implementation, revision |-> old.revision,
                   settings |-> [project |-> old.settings.project, underlying |-> asset,
                                 decimals |-> old.settings.decimals]]
           burnt == Burnt(reserve, asset)
<1>1. old = [implementation |-> old.implementation, revision |-> old.revision,
             settings |-> [project |-> old.settings.project,
                           underlying |-> old.settings.underlying,
                           decimals |-> old.settings.decimals]]
  BY DEF AreProxies, IsProxy, Tokens
<1>2. [old EXCEPT !.settings.underlying = asset] = new
  <2> HIDE DEF old
  <2> QED BY <1>1
<1>3. burnt = [reserve EXCEPT !["aToken"] = new] BY <1>2 DEF Burnt
<1> HIDE DEF burnt
<1>4. /\ burnt = [token \in Tokens |-> burnt[token]]
      /\ burnt["aToken"] = new
      /\ \A token \in Tokens \ {"aToken"} : burnt[token] = reserve[token]
  <2> HIDE DEF new
  <2> QED BY <1>3 DEF AreProxies, Tokens
<1>5. /\ new.implementation = old.implementation /\ new.revision = old.revision
      /\ new.settings.project = old.settings.project
      /\ new.settings.underlying = asset
      /\ new.settings.decimals = old.settings.decimals
      /\ IsProxy(new)
  BY DEF IsProxy
<1> HIDE DEF new
<1>6. AreProxies(burnt) BY <1>4, <1>5 DEF AreProxies
<1>7. \A token \in Tokens : /\ burnt[token].revision = reserve[token].revision
                            /\ burnt[token].implementation = reserve[token].implementation
  BY <1>4, <1>5
<1>8. ASSUME NEW p, NEW decimals, Serve(reserve, p, decimals), asset = UnderlyingOf(p)
      PROVE  Serve(burnt, p, decimals)
  <2>1. "pToken" \in Tokens \ {"aToken"} /\ DebtTokens \subseteq Tokens \ {"aToken"}
        /\ "aToken" \in Tokens
    BY DEF Tokens, DebtTokens
  <2> QED BY <1>4, <1>5, <1>7, <1>8, <2>1 DEF Serve
<1> QED BY <1>6, <1>7, <1>8 DEF burnt

\* A transaction of the market.
LEMMA MarketKeepsTokens ==
  ASSUME MarketInv, MarketInv', ListedFirst, TokensOK, [Next]_vars, TokensFollow
  PROVE  /\ TokensOK'
         /\ \A p \in aTokens, token \in Tokens :
              tokens'[p][token].implementation = tokens[p][token].implementation
<1>1. /\ Projects' = Projects /\ aTokens \subseteq aTokens' /\ aTokens' \subseteq Projects
      /\ \A p \in aTokens : Decimals(p)' = Decimals(p)
      /\ \A p \in aTokens' \ aTokens : Decimals(p)' = RowOf(p).reserveDecimals
  BY DecimalsKept, ListedDecimals DEF MarketInv, ListOK
<1> DEFINE burnt(p) == Burnt(tokens[p], getUnderlyingAsset(p))
<1>2. /\ tokens' = [p \in Projects |-> tokens'[p]]
      /\ \A p \in Projects :
           tokens'[p] = IF p \in aTokens' \ aTokens THEN InitTokens(p)
                        ELSE IF Burns(p) THEN burnt(p) ELSE tokens[p]
  BY DEF TokensFollow
<1>3. ASSUME NEW p \in Projects
      PROVE  /\ AreProxies(burnt(p))
             /\ \A token \in Tokens :
                  burnt(p)[token].implementation = tokens[p][token].implementation
             /\ \A decimals :
                  Serve(tokens[p], p, decimals) /\ p \in aTokens => Serve(burnt(p), p, decimals)
  <2>1. AreProxies(tokens[p]) BY DEF TokensOK
  <2>2. p \in aTokens => getUnderlyingAsset(p) = UnderlyingOf(p) BY DEF getUnderlyingAsset
  <2> QED BY <2>1, <2>2, BurnKeepsService
<1> HIDE DEF burnt
<1>4. ASSUME NEW p \in Projects
      PROVE  /\ AreProxies(tokens'[p])
             /\ p \in aTokens' => Serve(tokens'[p], p, Decimals(p)')
             /\ p \in aTokens => \A token \in Tokens :
                  tokens'[p][token].implementation = tokens[p][token].implementation
  <2>1. CASE p \in aTokens' \ aTokens
    BY <1>1, <1>2, <2>1, NewTokensServe
  <2>2. CASE p \notin aTokens' \ aTokens /\ Burns(p)
    <3>1. tokens'[p] = burnt(p) BY <1>2, <2>2
    <3>2. p \in aTokens' => p \in aTokens /\ Serve(tokens[p], p, Decimals(p)')
      BY <1>1, <2>2 DEF TokensOK
    <3> QED BY <1>3, <3>1, <3>2
  <2>3. CASE p \notin aTokens' \ aTokens /\ ~Burns(p)
    <3>1. tokens'[p] = tokens[p] BY <1>2, <2>3
    <3>2. p \in aTokens' => p \in aTokens /\ Serve(tokens[p], p, Decimals(p)')
      BY <1>1, <2>3 DEF TokensOK
    <3> QED BY <3>1, <3>2 DEF TokensOK
  <2> QED BY <2>1, <2>2, <2>3
<1>5. TokensOK'
  <2>1. tokens' = [p \in Projects' |-> tokens'[p]] BY <1>1, <1>2
  <2>2. \A p \in Projects' : AreProxies(tokens'[p]) BY <1>1, <1>4
  <2>3. \A p \in aTokens' : Serve(tokens'[p], p, Decimals(p)') BY <1>1, <1>4
  <2>4. \A p \in Projects' : AreProxies(tokens[p])' BY <2>2 DEF AreProxies, IsProxy
  <2>5. \A p \in aTokens' : Serve(tokens[p], p, Decimals(p))' BY <2>3 DEF Serve
  <2> QED BY <2>1, <2>4, <2>5 DEF TokensOK
<1> QED BY <1>1, <1>4, <1>5

\* An upgrade.
LEMMA UpgradeKeepsTokens ==
  ASSUME MarketInv, TokensOK, Upgrade, UNCHANGED vars
  PROVE  /\ TokensOK'
         /\ \A p \in aTokens, token \in Tokens :
              tokens'[p][token].implementation # tokens[p][token].implementation =>
                /\ tokens'[p][token].revision = tokens'[p][token].implementation
                /\ tokens'[p][token].revision > tokens[p][token].revision
<1> DEFINE passed(p, token) ==
             IF token = "aToken" THEN ATokenSettings(p, Decimals(p))
             ELSE DebtTokenSettings(ProjectOf(p), Decimals(p))
<1>1. PICK q \in Projects, implementation \in Revisions, upgraded \in Tokens \ {"pToken"} :
        UpgradeTokenImplementation(q, upgraded, implementation, passed(q, upgraded))
  BY DEF Upgrade, UpdateAToken, UpdateDebtToken, Tokens, DebtTokens
<1> DEFINE settings == passed(q, upgraded)
           old == tokens[q][upgraded]
           new == Initialize(old, implementation, settings)
           reserve == [tokens[q] EXCEPT ![upgraded] = new]
<1>2. /\ q \in aTokens /\ Succeeds(old, implementation)
      /\ tokens' = [tokens EXCEPT ![q] = reserve]
  BY <1>1 DEF UpgradeTokenImplementation
<1>3. implementation \in Nat /\ upgraded \in Tokens /\ upgraded # "pToken"
  BY <1>1, RevisionAssumption
<1>4. /\ settings.decimals = Decimals(q)
      /\ upgraded = "aToken" => settings.project = ProjectOf(q)
                                /\ settings.underlying = UnderlyingOf(q)
      /\ upgraded # "aToken" => settings.underlying = ProjectOf(q)
      /\ settings = [project |-> settings.project, underlying |-> settings.underlying,
                     decimals |-> settings.decimals]
  BY <1>2 DEF ATokenSettings, DebtTokenSettings, getUnderlyingAsset
<1> HIDE DEF settings
<1>5. /\ AreProxies(tokens[q]) /\ Serve(tokens[q], q, Decimals(q)) /\ IsProxy(old)
      /\ old.revision \in Nat /\ old.revision >= FirstRevision
  BY <1>2, <1>3 DEF TokensOK, AreProxies, Serve
<1> HIDE DEF old
<1>6. IsProxy(new) /\ new = [implementation |-> implementation,
                             revision |-> implementation, settings |-> settings]
  BY <1>2, <1>4, <1>5, UpgradedProxy
<1> HIDE DEF new
<1>7. /\ new.revision = implementation /\ new.implementation = implementation
      /\ new.settings = settings /\ IsProxy(new)
      /\ implementation > old.revision
  BY <1>2, <1>6 DEF Succeeds, Initializes
<1>8. /\ implementation # FirstRevision /\ implementation >= FirstRevision
      /\ FirstRevision \in Nat
  BY <1>3, <1>5, <1>7 DEF FirstRevision
<1>9. /\ reserve = [token \in Tokens |-> reserve[token]]
      /\ reserve[upgraded] = new
      /\ \A token \in Tokens \ {upgraded} : reserve[token] = tokens[q][token]
  BY <1>3, <1>5 DEF AreProxies
<1> HIDE DEF reserve
<1>10. AreProxies(reserve) BY <1>5, <1>7, <1>9 DEF AreProxies
<1>11. Serve(reserve, q, Decimals(q))
  <2>1. DebtTokens \subseteq Tokens /\ "aToken" \in Tokens /\ "pToken" \in Tokens
        /\ "aToken" \notin DebtTokens /\ "pToken" \notin DebtTokens
        /\ (upgraded = "aToken" \/ upgraded \in DebtTokens)
    BY <1>3 DEF Tokens, DebtTokens
  <2>2. CASE upgraded = "aToken"
    BY <1>3, <1>4, <1>5, <1>7, <1>8, <1>9, <2>1, <2>2 DEF Serve
  <2>3. CASE upgraded \in DebtTokens
    BY <1>3, <1>4, <1>5, <1>7, <1>8, <1>9, <2>1, <2>3 DEF Serve
  <2> QED BY <2>1, <2>2, <2>3
<1>12. /\ tokens' = [p \in Projects |-> tokens'[p]]
       /\ tokens'[q] = reserve
       /\ \A p \in Projects \ {q} : tokens'[p] = tokens[p]
  BY <1>2 DEF TokensOK
<1>13. Projects' = Projects /\ aTokens' = aTokens /\ \A p : Decimals(p)' = Decimals(p)
  BY DEF vars, reserveVars, Projects, Decimals
<1>14. aTokens \subseteq Projects BY DEF MarketInv, ListOK
<1>15. TokensOK'
  <2>1. \A p \in Projects : AreProxies(tokens'[p]) BY <1>10, <1>12 DEF TokensOK
  <2>2. \A p \in aTokens : Serve(tokens'[p], p, Decimals(p)')
    BY <1>11, <1>12, <1>13, <1>14 DEF TokensOK
  <2>3. \A p \in Projects' : AreProxies(tokens[p])'
    BY <1>13, <2>1 DEF AreProxies, IsProxy
  <2>4. \A p \in aTokens' : Serve(tokens[p], p, Decimals(p))'
    BY <1>13, <2>2 DEF Serve
  <2> QED BY <1>12, <1>13, <2>3, <2>4 DEF TokensOK
<1>16. ASSUME NEW p \in aTokens, NEW token \in Tokens,
              tokens'[p][token].implementation # tokens[p][token].implementation
       PROVE  /\ tokens'[p][token].revision = tokens'[p][token].implementation
              /\ tokens'[p][token].revision > tokens[p][token].revision
  <2>1. p = q /\ token = upgraded BY <1>9, <1>12, <1>14, <1>16
  <2> QED BY <1>7, <1>9, <1>12, <2>1 DEF old
<1> QED BY <1>15, <1>16

\* The first state, and every step.
LEMMA InitHasTokens ==
  ASSUME UpgradeInit
  PROVE  TokensOK
<1>1. tokens = [p \in Projects |-> [token \in Tokens |-> NewProxy]] /\ aTokens = {}
  BY DEF UpgradeInit, Init
<1>2. IsProxy(NewProxy) BY DEF IsProxy, NewProxy
<1> QED BY <1>1, <1>2 DEF TokensOK, AreProxies

LEMMA StepKeepsTokens ==
  ASSUME MarketInv, MarketInv', ListedFirst, TokensOK, [UpgradeNext]_upgradeVars
  PROVE  /\ TokensOK'
         /\ \A p \in aTokens, token \in Tokens :
              tokens'[p][token].implementation # tokens[p][token].implementation =>
                /\ tokens'[p][token].revision = tokens'[p][token].implementation
                /\ tokens'[p][token].revision > tokens[p][token].revision
<1>1. CASE Next /\ TokensFollow BY <1>1, MarketKeepsTokens
<1>2. CASE Upgrade /\ UNCHANGED vars BY <1>2, UpgradeKeepsTokens
<1>3. CASE UNCHANGED upgradeVars
  BY <1>3 DEF upgradeVars, vars, reserveVars, TokensOK, AreProxies, IsProxy, Serve, Projects,
     Decimals
<1> QED BY <1>1, <1>2, <1>3 DEF UpgradeNext

\* The invariant of the tokens.
THEOREM TokensInvariant == UpgradeSpec => [](MarketInv /\ ListedFirst /\ TokensOK)
<1>1. UpgradeInit => TokensOK BY InitHasTokens
<1>2. MarketInv /\ MarketInv' /\ ListedFirst /\ TokensOK /\ [UpgradeNext]_upgradeVars => TokensOK'
  BY StepKeepsTokens
<1> QED BY <1>1, <1>2, UpgradedMarketIsMarket, MarketInvariant, ListingComesFirst, PTL
        DEF UpgradeSpec

\* _initReserve and the three update functions: in any market, whatever is listed,
\* used, configured and upgraded in any order, to any revisions, the tokens of a
\* reserve serve that reserve in the decimals of its word.
THEOREM TokensServeCorrect == UpgradeSpec => []TokensServeTheirReserve
<1>1. TokensOK => TokensServeTheirReserve
  BY DEF TokensOK, Serve, TokensServeTheirReserve, PTokenSettings
<1> QED BY <1>1, TokensInvariant, PTL

\* upgradeToAndCall and VersionedInitializable: no token comes to run an
\* implementation that was not initialized then, or one it has been past.
THEOREM UpgradesCorrect == UpgradeSpec => UpgradesInitialize
<1>1. /\ MarketInv /\ MarketInv' /\ ListedFirst /\ TokensOK
      /\ [UpgradeNext]_upgradeVars
      => [\A p \in aTokens, token \in Tokens :
            LET before == tokens[p][token]
                after  == tokens'[p][token]
            IN  after.implementation # before.implementation =>
                  /\ after.revision = after.implementation
                  /\ after.revision > before.revision]_upgradeVars
  BY StepKeepsTokens
<1> QED BY <1>1, TokensInvariant, PTL DEF UpgradeSpec, UpgradesInitialize
===============================================================================
