------------------------- MODULE FeeSchedule_proofs -------------------------
(***************************************************************************)
(* The base fee while the clock runs, for every fee validate admits, every   *)
(* activation point and every width of the exponent: what OperatorTheorems   *)
(* says of GetBaseFeeNumerator, as properties of the schedule.               *)
(***************************************************************************)
EXTENDS MCFeeParameters, OperatorTheorems

ScheduleInv ==
    /\ base_fee \in BaseFeeParameters /\ ValidBaseFee(base_fee)
    /\ clock \in Nat

LEMMA ScheduleInvariance == ScheduleSpec => []ScheduleInv
<1>1. ScheduleInit => ScheduleInv
    <2>1. OfferedBaseFees \subseteq BaseFeeParameters
        <3>1. /\ 1 .. MAX_FEE_NUMERATOR + 1 \subseteq Nat /\ 0 .. MaxPeriods \subseteq Nat
              /\ 0 .. BASIS_POINT_MAX + 1 \subseteq Nat /\ PeriodFrequencies \subseteq Nat
            BY ScheduleBounds, FeeScaleAssumption
        <3> QED
            BY <3>1 DEF OfferedBaseFees, BaseFeeParameters
    <2> QED
        BY <2>1 DEF ScheduleInit, ScheduleInv
<1>2. ScheduleInv /\ [ScheduleNext]_scheduleVars => ScheduleInv'
    <2> SUFFICES ASSUME ScheduleInv, [ScheduleNext]_scheduleVars PROVE ScheduleInv'
        OBVIOUS
    <2>1. base_fee' = base_fee /\ clock' \in Nat
        BY DEF ScheduleInv, ScheduleNext, scheduleVars
    <2> QED
        BY <2>1 DEF ScheduleInv
<1> QED
    BY <1>1, <1>2, PTL DEF ScheduleSpec

(* For every base fee that BaseFeeParameters::validate admits, the fee of    *)
(* every moment lies between that of the last period and the cliff fee, and  *)
(* so between the minimum and the maximum fee.                               *)
THEOREM FeeBounds == ScheduleSpec => []FeeStaysInBounds
<1>1. ScheduleInv => FeeStaysInBounds
    BY BaseFeeInBounds, ScheduleBounds DEF ScheduleInv, FeeStaysInBounds, CurrentFee
<1> QED
    BY <1>1, ScheduleInvariance, PTL

(* From the activation point on a schedule never raises the fee, however     *)
(* pow truncates: get_fee_in_period falls with the period.                   *)
THEOREM FeeOnlyFalls == ScheduleSpec => FeeNeverRises
<1>1. ScheduleInv /\ [ScheduleNext]_scheduleVars
      => [clock >= ActivationPoint => CurrentFee' <= CurrentFee]_scheduleVars
    <2> SUFFICES ASSUME ScheduleInv, ScheduleNext, clock >= ActivationPoint
                 PROVE  CurrentFee' <= CurrentFee
        OBVIOUS
    <2>1. /\ base_fee' = base_fee /\ clock' \in Nat /\ clock \in Nat /\ clock <= clock'
          /\ ActivationPoint \in Nat /\ ActivationPoint <= clock
        BY ScheduleBounds DEF ScheduleInv, ScheduleNext
    <2>2. GetBaseFeeNumerator(base_fee, ActivationPoint, clock')
            <= GetBaseFeeNumerator(base_fee, ActivationPoint, clock)
        BY <2>1, BaseFeeFalls DEF ScheduleInv
    <2> QED
        BY <2>1, <2>2 DEF CurrentFee
<1> QED
    BY <1>1, ScheduleInvariance, PTL DEF ScheduleSpec, FeeNeverRises
-----------------------------------------------------------------------------
(* PowTracksPower.  Power is a recursive function; its laws come first.      *)

PowerStep(x, p, i) == IF i = 0 THEN 1 ELSE x * p[i - 1]

PowerTable(x, n) == CHOOSE p : p = [i \in 0 .. n |-> PowerStep(x, p, i)]

LEMMA PowerIsTable ==
    ASSUME NEW x, NEW n
    PROVE  Power(x, n) = PowerTable(x, n)[n]
BY DEF Power, PowerTable, PowerStep

LEMMA PowerTableExists ==
    ASSUME NEW x
    PROVE  \A n \in Nat : \E p : p = [i \in 0 .. n |-> PowerStep(x, p, i)]
<1> DEFINE G == {n \in Nat : \E p : p = [i \in 0 .. n |-> PowerStep(x, p, i)]}
<1>1. 0 \in G
    <2> DEFINE p == [i \in 0 .. 0 |-> 1]
    <2>1. p = [i \in 0 .. 0 |-> PowerStep(x, p, i)]
        BY DEF PowerStep
    <2> QED
        BY <2>1
<1>2. ASSUME NEW n \in Nat, n \in G
      PROVE  n + 1 \in G
    <2>1. PICK p : p = [i \in 0 .. n |-> PowerStep(x, p, i)]
        BY <1>2
    <2> DEFINE q == [i \in 0 .. (n + 1) |-> PowerStep(x, p, i)]
    <2>2. \A i \in 0 .. n : q[i] = p[i]
        BY <2>1
    <2>3. \A i \in 0 .. (n + 1) : PowerStep(x, p, i) = PowerStep(x, q, i)
        <3>1. \A i \in 0 .. (n + 1) : i = 0 \/ i - 1 \in 0 .. n
            OBVIOUS
        <3> HIDE DEF q
        <3> QED
            BY <2>2, <3>1 DEF PowerStep
    <2>4. q = [i \in 0 .. (n + 1) |-> PowerStep(x, q, i)]
        BY <2>3
    <2> HIDE DEF q
    <2>5. n + 1 \in Nat /\ \E r : r = [i \in 0 .. (n + 1) |-> PowerStep(x, r, i)]
        BY <2>4
    <2> QED
        BY <2>5
<1> HIDE DEF G
<1>3. \A n \in Nat : n \in G
    BY <1>1, <1>2, SetOfNaturals
<1> QED
    BY <1>3 DEF G

LEMMA PowerTableValue ==
    ASSUME NEW x, NEW n \in Nat, NEW k \in 0 .. n
    PROVE  PowerTable(x, n)[k] = PowerStep(x, PowerTable(x, n), k)
<1> DEFINE p == PowerTable(x, n)
<1>1. \E q : q = [i \in 0 .. n |-> PowerStep(x, q, i)]
    <2>1. \A m \in Nat : \E q : q = [i \in 0 .. m |-> PowerStep(x, q, i)]
        BY PowerTableExists
    <2> QED
        BY <2>1, Zenon
<1>2. p = [i \in 0 .. n |-> PowerStep(x, p, i)]
    BY <1>1 DEF PowerTable
<1> HIDE DEF p
<1>3. p[k] = PowerStep(x, p, k)
    BY <1>2
<1> QED
    BY <1>3 DEF p

(* A longer table starts like a shorter one.                                 *)
LEMMA PowerTableAgrees ==
    ASSUME NEW x, NEW n \in Nat
    PROVE  PowerTable(x, n + 1)[n] = PowerTable(x, n)[n]
<1> DEFINE long == PowerTable(x, n + 1)
           short == PowerTable(x, n)
           G == {i \in Nat : i <= n => long[i] = short[i]}
<1>1. 0 \in G
    <2>1. 0 \in 0 .. n /\ 0 \in 0 .. (n + 1) /\ n + 1 \in Nat
        OBVIOUS
    <2>2. long[0] = PowerStep(x, long, 0) /\ short[0] = PowerStep(x, short, 0)
        BY <2>1, PowerTableValue
    <2> HIDE DEF long, short
    <2> QED
        BY <2>2 DEF PowerStep
<1>2. ASSUME NEW i \in Nat, i \in G
      PROVE  i + 1 \in G
    <2> SUFFICES ASSUME i + 1 <= n PROVE long[i + 1] = short[i + 1]
        OBVIOUS
    <2>1. /\ i + 1 \in 0 .. n /\ i + 1 \in 0 .. (n + 1) /\ n + 1 \in Nat
          /\ i + 1 # 0 /\ (i + 1) - 1 = i /\ i <= n
        OBVIOUS
    <2>2. long[i + 1] = PowerStep(x, long, i + 1) /\ short[i + 1] = PowerStep(x, short, i + 1)
        BY <2>1, PowerTableValue
    <2>3. long[i] = short[i]
        BY <1>2, <2>1
    <2> HIDE DEF long, short
    <2> QED
        BY <2>1, <2>2, <2>3 DEF PowerStep
<1> HIDE DEF G
<1>3. \A i \in Nat : i \in G
    BY <1>1, <1>2, SetOfNaturals
<1> QED
    BY <1>3 DEF G

LEMMA PowerLaws ==
    ASSUME NEW x, NEW n \in Nat
    PROVE  Power(x, 0) = 1 /\ Power(x, n + 1) = x * Power(x, n)
<1>1. /\ 0 \in 0 .. 0 /\ n + 1 \in Nat /\ n + 1 \in 0 .. (n + 1)
      /\ n + 1 # 0 /\ (n + 1) - 1 = n
    OBVIOUS
<1>2. PowerTable(x, 0)[0] = PowerStep(x, PowerTable(x, 0), 0)
    BY <1>1, PowerTableValue
<1>3. PowerTable(x, n + 1)[n + 1] = PowerStep(x, PowerTable(x, n + 1), n + 1)
    BY <1>1, PowerTableValue
<1> QED
    BY <1>1, <1>2, <1>3, PowerTableAgrees, PowerIsTable DEF PowerStep

LEMMA PowerType ==
    ASSUME NEW x \in Nat
    PROVE  /\ \A n \in Nat : Power(x, n) \in Nat
           /\ x # 0 => \A n \in Nat : Power(x, n) # 0
<1> DEFINE G == {n \in Nat : Power(x, n) \in Nat /\ (x # 0 => Power(x, n) # 0)}
<1>1. 0 \in G
    BY PowerLaws
<1>2. ASSUME NEW n \in Nat, n \in G
      PROVE  n + 1 \in G
    <2>1. Power(x, n) \in Nat /\ (x # 0 => Power(x, n) # 0) /\ Power(x, n + 1) = x * Power(x, n)
        BY <1>2, PowerLaws
    <2> DEFINE y == Power(x, n)
    <2> HIDE DEF y
    <2>2. ASSUME y \in Nat, x # 0 => y # 0
          PROVE  x * y \in Nat /\ (x # 0 => x * y # 0)
        BY <2>2
    <2> QED
        BY <2>1, <2>2 DEF y
<1> HIDE DEF G
<1>3. \A n \in Nat : n \in G
    BY <1>1, <1>2, SetOfNaturals
<1> QED
    BY <1>3 DEF G

LEMMA PowerAdds ==
    ASSUME NEW x \in Nat, NEW m \in Nat
    PROVE  \A n \in Nat : Power(x, m + n) = Power(x, m) * Power(x, n)
<1> DEFINE G == {n \in Nat : Power(x, m + n) = Power(x, m) * Power(x, n)}
           a == Power(x, m)
<1>0. a \in Nat
    BY PowerType
<1>1. 0 \in G
    <2>1. m + 0 = m /\ Power(x, 0) = 1
        BY PowerLaws
    <2> QED
        BY <1>0, <2>1
<1>2. ASSUME NEW n \in Nat, n \in G
      PROVE  n + 1 \in G
    <2> DEFINE b == Power(x, n)
               c == Power(x, m + n)
    <2>1. /\ b \in Nat /\ c = a * b /\ m + n \in Nat /\ m + (n + 1) = (m + n) + 1
          /\ Power(x, (m + n) + 1) = x * c /\ Power(x, n + 1) = x * b
        BY <1>2, PowerType, PowerLaws
    <2> HIDE DEF a, b, c
    <2>2. x * c = a * (x * b)
        BY <1>0, <2>1
    <2> QED
        BY <2>1, <2>2 DEF a
<1> HIDE DEF G, a
<1>3. \A n \in Nat : n \in G
    BY <1>1, <1>2, SetOfNaturals
<1> QED
    BY <1>3 DEF G

(* Where base is at most one, so are its powers.                             *)
LEMMA PowerAtMost ==
    ASSUME NEW x \in Nat, NEW y \in Nat, x <= y
    PROVE  \A n \in Nat : Power(x, n) <= Power(y, n)
<1> DEFINE G == {n \in Nat : Power(x, n) <= Power(y, n)}
<1>1. 0 \in G
    BY PowerLaws
<1>2. ASSUME NEW n \in Nat, n \in G
      PROVE  n + 1 \in G
    <2> DEFINE a == Power(x, n)
               b == Power(y, n)
    <2>1. /\ a \in Nat /\ b \in Nat /\ a <= b
          /\ Power(x, n + 1) = x * a /\ Power(y, n + 1) = y * b
        BY <1>2, PowerType, PowerLaws
    <2> HIDE DEF a, b
    <2>2. x * a <= x * b /\ x * b <= y * b /\ x * a \in Int /\ x * b \in Int /\ y * b \in Int
        BY <2>1, ProductsOrdered
    <2>3. x * a <= y * b
        BY <2>2
    <2> QED
        BY <2>1, <2>3
<1> HIDE DEF G
<1>3. \A n \in Nat : n \in G
    BY <1>1, <1>2, SetOfNaturals
<1> QED
    BY <1>3 DEF G

(* Cancelling a factor.                                                      *)
LEMMA CancelFactor ==
    ASSUME NEW u \in Nat, NEW v \in Nat, NEW d \in Nat \ {0}, u * d <= v * d
    PROVE  u <= v
<1>1. d * u <= d * v
    OBVIOUS
<1> QED
    BY <1>1, FactorDrops

(* Products with at most equal factors, on either side.                      *)
LEMMA ProductsAtMost ==
    ASSUME NEW x \in Nat, NEW y \in Nat, NEW u \in Nat, NEW v \in Nat, x <= u, y <= v
    PROVE  x * y \in Nat /\ u * v \in Nat /\ x * y <= u * v
<1>1. /\ x * y <= x * v /\ x * v <= u * v
      /\ x * y \in Nat /\ x * v \in Nat /\ u * v \in Nat
    BY ProductsOrdered
<1> QED
    BY <1>1

(* number stands for base^n in fixed point, short of it by at most loss      *)
(* units in the last place.                                                  *)
Tracks(base, number, loss, n) ==
    /\ number * Power(ONE_Q, n) <= ONE_Q * Power(base, n)
    /\ ONE_Q * Power(base, n) <= (number + loss) * Power(ONE_Q, n)

(* c is a * b / O truncated, where a tracks A / Q and b tracks B / R.        *)
IsTruncatedProduct(O, a, b, c, d, e, A, B, Q, R) ==
    /\ a <= O /\ B <= R /\ c * O <= a * b /\ a * b <= (c + 1) * O
    /\ a * Q <= O * A /\ O * A <= (a + d) * Q
    /\ b * R <= O * B /\ O * B <= (b + e) * R

(* A truncated product loses what its factors lost and one unit more: with   *)
(* A, B the powers and Q, R their scales, (ONE_Q A)(ONE_Q B) is at most      *)
(* (a + d) Q times ONE_Q B, and so (a b + a e + d ONE_Q) Q R.                *)
LEMMA ProductTracks ==
    ASSUME NEW O \in Nat \ {0}, NEW a \in Nat, NEW b \in Nat, NEW c \in Nat, NEW d \in Nat,
           NEW e \in Nat, NEW A \in Nat, NEW B \in Nat, NEW Q \in Nat, NEW R \in Nat,
           IsTruncatedProduct(O, a, b, c, d, e, A, B, Q, R)
    PROVE  /\ c * (Q * R) <= O * (A * B)
           /\ O * (A * B) <= (c + (d + e + 1)) * (Q * R)
<1> a <= O /\ B <= R /\ c * O <= a * b /\ a * b <= (c + 1) * O
    BY DEF IsTruncatedProduct
<1> /\ a * Q <= O * A /\ O * A <= (a + d) * Q
    /\ b * R <= O * B /\ O * B <= (b + e) * R
    BY DEF IsTruncatedProduct
<1> DEFINE S == Q * R
           P == A * B
<1>0. S \in Nat /\ P \in Nat /\ a * b \in Nat /\ c * O \in Nat
    OBVIOUS
<1>1. c * S <= O * P
    <2>1. (a * Q) * (b * R) <= (O * A) * (O * B)
        BY ProductsAtMost
    <2>2. (a * Q) * (b * R) = (a * b) * S /\ (O * A) * (O * B) = (O * P) * O
        OBVIOUS
    <2> HIDE DEF S, P
    <2>3. (c * O) * S <= (a * b) * S
        BY <1>0, ProductsAtMost
    <2>4. (c * O) * S = (c * S) * O
        BY <1>0
    <2>5. c * S \in Nat /\ O * P \in Nat /\ (a * b) * S \in Nat
        BY <1>0
    <2>6. (c * S) * O <= (O * P) * O
        BY <2>1, <2>2, <2>3, <2>4, <2>5
    <2> QED
        BY <2>5, <2>6, CancelFactor
<1>2. O * P <= (c + (d + e + 1)) * S
    <2> DEFINE Y == O * B
    <2>1. Y \in Nat /\ Y <= (b + e) * R /\ Y <= O * R
        BY ProductsAtMost
    <2>2. (O * A) * Y <= ((a + d) * Q) * Y
        BY <2>1, ProductsAtMost
    <2>3. ((a + d) * Q) * Y = (a * Q) * Y + (d * Q) * Y
        BY <2>1
    <2>4. (a * Q) * Y <= (a * Q) * ((b + e) * R)
        BY <2>1, ProductsAtMost
    <2>5. (d * Q) * Y <= (d * Q) * (O * R)
        BY <2>1, ProductsAtMost
    <2>6. (a * Q) * ((b + e) * R) = (a * b) * S + (a * e) * S
        OBVIOUS
    <2>7. (d * Q) * (O * R) = (O * d) * S
        OBVIOUS
    <2>8. (O * A) * Y = (O * P) * O
        OBVIOUS
    <2> HIDE DEF S, P, Y
    <2>9. (a * b) * S <= ((c + 1) * O) * S /\ (a * e) * S <= (O * e) * S
        <3>1. a * e <= O * e /\ a * e \in Nat /\ O * e \in Nat /\ (c + 1) * O \in Nat
            BY ProductsAtMost
        <3> QED
            BY <1>0, <3>1, ProductsAtMost
    <2>10. ((c + 1) * O) * S + (O * e) * S + (O * d) * S = ((c + (d + e + 1)) * S) * O
        BY <1>0
    <2>11. /\ (a * b) * S \in Nat /\ (a * e) * S \in Nat /\ ((c + 1) * O) * S \in Nat
           /\ (O * e) * S \in Nat /\ (O * d) * S \in Nat /\ (O * P) * O \in Nat
           /\ (a * Q) * Y \in Nat /\ (d * Q) * Y \in Nat
           /\ ((c + (d + e + 1)) * S) * O \in Nat
        BY <1>0, <2>1
    <2>12. (O * P) * O <= ((c + (d + e + 1)) * S) * O
        BY <2>2, <2>3, <2>4, <2>5, <2>6, <2>7, <2>8, <2>9, <2>10, <2>11
    <2>13. O * P \in Nat /\ (c + (d + e + 1)) * S \in Nat
        BY <1>0
    <2> QED
        BY <2>12, <2>13, CancelFactor
<1> QED
    BY <1>1, <1>2

LEMMA MulDivDownTracks ==
    ASSUME NEW base \in 0 .. ONE_Q, NEW a \in 0 .. ONE_Q, NEW b \in Nat, NEW d \in Nat,
           NEW e \in Nat, NEW m \in Nat, NEW n \in Nat,
           Tracks(base, a, d, m), Tracks(base, b, e, n)
    PROVE  Tracks(base, MulDivDown(a, b, ONE_Q), d + e + 1, m + n)
<1> DEFINE c == MulDivDown(a, b, ONE_Q)
<1>0. ONE_Q \in Nat \ {0} /\ base \in Nat /\ base <= ONE_Q /\ a \in Nat /\ a <= ONE_Q
    BY OneQAssumption
<1>1. c \in Nat /\ c * ONE_Q <= a * b /\ a * b <= (c + 1) * ONE_Q
    <2>1. c \in Nat /\ c * ONE_Q <= a * b
        BY <1>0, MulDivDownType, MulDivDownCovered
    <2>2. ASSUME (c + 1) * ONE_Q < a * b PROVE FALSE
        <3>1. a * b \in Nat /\ (c + 1) * ONE_Q \in Nat
            BY <1>0, <2>1
        <3> DEFINE z == a * b
        <3>2. z \in Nat /\ z >= (c + 1) * ONE_Q
            BY <2>2, <3>1
        <3>3. z \div ONE_Q >= c + 1
            <4>1. c + 1 \in Nat
                BY <2>1
            <4> HIDE DEF z, c
            <4> QED BY <1>0, <3>2, <4>1, DivLowerBound
        <3>4. c = z \div ONE_Q
            BY DEF MulDivDown
        <3> HIDE DEF c, z
        <3> QED
            BY <2>1, <3>3, <3>4
    <2>3. a * b \in Nat /\ (c + 1) * ONE_Q \in Nat
        BY <1>0, <2>1
    <2> QED
        BY <2>1, <2>2, <2>3
<1> HIDE DEF c
<1>2. /\ Power(base, m) \in Nat /\ Power(base, n) \in Nat
      /\ Power(ONE_Q, m) \in Nat /\ Power(ONE_Q, n) \in Nat
      /\ Power(base, n) <= Power(ONE_Q, n)
    BY <1>0, PowerType, PowerAtMost
<1>3. /\ Power(base, m + n) = Power(base, m) * Power(base, n)
      /\ Power(ONE_Q, m + n) = Power(ONE_Q, m) * Power(ONE_Q, n)
    BY <1>0, PowerAdds
<1>4. /\ a * Power(ONE_Q, m) <= ONE_Q * Power(base, m)
      /\ ONE_Q * Power(base, m) <= (a + d) * Power(ONE_Q, m)
      /\ b * Power(ONE_Q, n) <= ONE_Q * Power(base, n)
      /\ ONE_Q * Power(base, n) <= (b + e) * Power(ONE_Q, n)
    BY DEF Tracks
<1>5. /\ c * (Power(ONE_Q, m) * Power(ONE_Q, n)) <= ONE_Q * (Power(base, m) * Power(base, n))
      /\ ONE_Q * (Power(base, m) * Power(base, n))
            <= (c + (d + e + 1)) * (Power(ONE_Q, m) * Power(ONE_Q, n))
    <2>1. IsTruncatedProduct(ONE_Q, a, b, c, d, e, Power(base, m), Power(base, n),
                             Power(ONE_Q, m), Power(ONE_Q, n))
        BY <1>0, <1>1, <1>2, <1>4 DEF IsTruncatedProduct
    <2> QED
        BY <1>0, <1>1, <1>2, <2>1, ProductTracks
<1>6. Tracks(base, c, d + e + 1, m + n)
    BY <1>3, <1>5 DEF Tracks
<1> QED
    BY <1>6 DEF c

(* The bits of power below bit k, which the first k steps of pow have read.  *)
LowBits(power, k) == power - Bits(power, k) * TwoTo(k)

LEMMA LowBitsNext ==
    ASSUME NEW power \in Nat, NEW k \in Nat
    PROVE  /\ LowBits(power, k) \in Nat /\ LowBits(power, 0) = 0
           /\ TwoTo(0) = 1 /\ TwoTo(k + 1) = TwoTo(k) + TwoTo(k)
           /\ LowBits(power, k + 1) = IF Bits(power, k) % 2 = 1 THEN LowBits(power, k) + TwoTo(k)
                                      ELSE LowBits(power, k)
<1> DEFINE t == TwoTo(k)
           x == Bits(power, k)
           y == Bits(power, k + 1)
<1>1. /\ t \in Nat \ {0} /\ TwoTo(k + 1) = 2 * t /\ TwoTo(0) = 1
      /\ x \in Nat /\ y = x \div 2
    <2>1. t \in Nat \ {0} /\ x \in Nat /\ y = x \div 2
        BY TwoToType, BitsHalve
    <2>2. TwoTo(k + 1) = 2 * t /\ TwoTo(0) = 1
        BY PowersOfTwo DEF TwoTo
    <2> QED
        BY <2>1, <2>2
<1>2. power - x * t \in Nat
    <2>1. x = power \div t
        BY DEF Bits
    <2> HIDE DEF t, x
    <2>2. x * t <= power
        <3>1. t * (power \div t) <= power /\ power \div t \in Nat
            BY <1>1
        <3> QED
            BY <1>1, <2>1, <3>1
    <2>3. x * t \in Nat
        BY <1>1
    <2> QED
        BY <2>2, <2>3
<1>3. LowBits(power, 0) = 0
    <2>1. Bits(power, 0) = power
        <3>1. power \div 1 = power
            OBVIOUS
        <3> QED
            BY <1>1, <3>1 DEF Bits
    <2> QED
        BY <1>1, <2>1 DEF LowBits
<1> HIDE DEF t, x, y
<1>4. power - y * (2 * t) = IF x % 2 = 1 THEN (power - x * t) + t ELSE power - x * t
    <2>1. CASE x % 2 = 1
        <3>1. x = 2 * y + 1 /\ y \in Nat
            BY <1>1, <2>1
        <3>2. x * t = y * (2 * t) + t /\ y * (2 * t) \in Int
            BY <1>1, <3>1
        <3> QED
            BY <1>1, <2>1, <3>2
    <2>2. CASE x % 2 # 1
        <3>1. x = 2 * y /\ y \in Nat
            BY <1>1, <2>2
        <3>2. x * t = y * (2 * t)
            BY <1>1, <3>1
        <3> QED
            BY <2>2, <3>2
    <2> QED
        BY <2>1, <2>2
<1>5. 2 * t = t + t
    BY <1>1
<1> QED
    BY <1>1, <1>2, <1>3, <1>4, <1>5 DEF LowBits, t, x, y

(* After k bits the squares stand for base^(2^k) and the result for base to  *)
(* the bits read so far.                                                     *)
LEMMA PowTableTracks ==
    ASSUME NEW base \in 0 .. ONE_Q, NEW power \in Nat
    PROVE  \A k \in 0 .. EXPONENT_BITS :
              Tracks(base, PowTable(base, power)[k].result, LowBits(power, k), LowBits(power, k))
<1> DEFINE table == PowTable(base, power)
           Good(k) == /\ Tracks(base, table[k].squared, TwoTo(k) - 1, TwoTo(k))
                      /\ Tracks(base, table[k].result, LowBits(power, k), LowBits(power, k))
           G == {k \in Nat : k <= EXPONENT_BITS => Good(k)}
<1>0. ONE_Q \in Nat \ {0} /\ EXPONENT_BITS \in Nat /\ base \in Nat
    BY OneQAssumption, FeeScaleAssumption
<1>1. 0 \in G
    <2>1. table[0].squared = base /\ table[0].result = ONE_Q
        BY PowTableFirst
    <2>2. TwoTo(0) = 1 /\ LowBits(power, 0) = 0
        BY LowBitsNext
    <2>3. /\ Power(base, 0) = 1 /\ Power(ONE_Q, 0) = 1
          /\ Power(base, 1) = base /\ Power(ONE_Q, 1) = ONE_Q
        <3>1. Power(base, 0 + 1) = base * Power(base, 0) /\ Power(base, 0) = 1
            BY PowerLaws
        <3>2. Power(ONE_Q, 0 + 1) = ONE_Q * Power(ONE_Q, 0) /\ Power(ONE_Q, 0) = 1
            BY PowerLaws
        <3> QED
            BY <1>0, <3>1, <3>2
    <2>4. Tracks(base, base, 0, 1) /\ Tracks(base, ONE_Q, 0, 0)
        BY <1>0, <2>3 DEF Tracks
    <2>5. Good(0)
        <3>1. 1 - 1 = 0
            OBVIOUS
        <3> QED
            BY <2>1, <2>2, <2>4, <3>1
    <2> QED
        BY <2>5
<1>2. ASSUME NEW k \in Nat, k \in G
      PROVE  k + 1 \in G
    <2> SUFFICES ASSUME k + 1 <= EXPONENT_BITS PROVE Good(k + 1)
        OBVIOUS
    <2> DEFINE s == table[k].squared
               r == table[k].result
               t == TwoTo(k)
               low == LowBits(power, k)
    <2>1. k < EXPONENT_BITS /\ k \in 0 .. EXPONENT_BITS /\ Good(k)
        BY <1>0, <1>2
    <2>2. s \in 0 .. ONE_Q /\ r \in 0 .. ONE_Q /\ s \in Nat
        BY <1>0, <2>1, PowTableType
    <2>3. /\ t \in Nat \ {0} /\ t - 1 \in Nat /\ low \in Nat
          /\ TwoTo(k + 1) = t + t
          /\ LowBits(power, k + 1) = IF Bits(power, k) % 2 = 1 THEN low + t ELSE low
        <3>1. t \in Nat \ {0}
            BY TwoToType
        <3>2. t - 1 \in Nat
            <4> HIDE DEF t
            <4> QED BY <3>1
        <3> QED
            BY <3>1, <3>2, LowBitsNext
    <2>4. /\ table[k + 1].squared = MulDivDown(s, s, ONE_Q)
          /\ table[k + 1].result = IF Bits(power, k) % 2 = 1 THEN MulDivDown(r, s, ONE_Q) ELSE r
        BY <2>1, PowTableBits
    <2>5. Tracks(base, s, t - 1, t) /\ Tracks(base, r, low, low)
        BY <2>1
    <2> HIDE DEF table, s, r, t, low
    <2>6. /\ Tracks(base, MulDivDown(s, s, ONE_Q), (t - 1) + (t - 1) + 1, t + t)
          /\ Tracks(base, MulDivDown(r, s, ONE_Q), low + (t - 1) + 1, low + t)
        BY <2>2, <2>3, <2>5, MulDivDownTracks
    <2>7. (t - 1) + (t - 1) + 1 = (t + t) - 1 /\ low + (t - 1) + 1 = low + t
        BY <2>3
    <2> QED
        BY <2>3, <2>4, <2>5, <2>6, <2>7
<1> HIDE DEF G
<1>3. \A k \in Nat : k \in G
    BY <1>1, <1>2, SetOfNaturals
<1> HIDE DEF table
<1>4. \A k \in 0 .. EXPONENT_BITS : Good(k)
    BY <1>0, <1>3 DEF G
<1> QED
    BY <1>4 DEF table

(* A power by squaring is below the exact one by at most a unit in the last  *)
(* place per unit of its exponent, and never above it.                       *)
LEMMA PowTracks ==
    ASSUME NEW base \in 0 .. ONE_Q, NEW power \in Nat, power < TwoTo(EXPONENT_BITS)
    PROVE  Tracks(base, Pow(base, power), power, power)
<1>0. EXPONENT_BITS \in Nat /\ TwoTo(EXPONENT_BITS) \in Nat \ {0}
    BY FeeScaleAssumption, TwoToType
<1>1. Bits(power, EXPONENT_BITS) = 0
    <2> DEFINE t == TwoTo(EXPONENT_BITS)
    <2> HIDE DEF t
    <2>1. ASSUME t \in Nat \ {0}, power < t PROVE power \div t = 0
        BY <2>1
    <2> QED
        BY <1>0, <2>1 DEF Bits, t
<1>2. LowBits(power, EXPONENT_BITS) = power
    BY <1>0, <1>1 DEF LowBits
<1>3. EXPONENT_BITS \in 0 .. EXPONENT_BITS
    BY <1>0
<1> QED
    BY <1>2, <1>3, PowTableTracks, PowIsTable

(* For every schedule that validate admits and every period of it,           *)
(* fee_math's pow is at most the exact power and short of it by at most one  *)
(* unit in the last place per period, at every scale and width.              *)
THEOREM PowAccuracy == ScheduleSpec => []PowTracksPower
<1>1. ScheduleInv => PowTracksPower
    <2> SUFFICES ASSUME ScheduleInv, base_fee.mode = "Exponential",
                        NEW period \in 1 .. base_fee.number_of_period
                 PROVE  LET base  == ReductionBase(base_fee.reduction_factor)
                            scale == Power(ONE_Q, period - 1)
                        IN  Power(base, period) \in Pow(base, period) * scale
                                                    .. (Pow(base, period) + period) * scale
        BY DEF PowTracksPower
    <2> DEFINE base  == ReductionBase(base_fee.reduction_factor)
               scale == Power(ONE_Q, period - 1)
               exact == Power(base, period)
               pow   == Pow(base, period)
    <2>1. /\ base_fee.reduction_factor \in Nat /\ base_fee.number_of_period \in Nat
          /\ base_fee.reduction_factor <= BASIS_POINT_MAX
          /\ base_fee.number_of_period < TwoTo(EXPONENT_BITS)
        BY ValidSchedule DEF ScheduleInv, BaseFeeParameters
    <2>2. base \in 0 .. ONE_Q /\ ONE_Q \in Nat \ {0} /\ base \in Nat
        BY <2>1, ReductionBaseType, OneQAssumption
    <2>3. /\ period \in Nat /\ period - 1 \in Nat /\ (period - 1) + 1 = period
          /\ period < TwoTo(EXPONENT_BITS)
        <3>1. EXPONENT_BITS \in Nat
            BY FeeScaleAssumption
        <3>2. TwoTo(EXPONENT_BITS) \in Nat
            BY <3>1, TwoToType
        <3> QED
            BY <2>1, <3>2
    <2>4. /\ exact \in Nat /\ scale \in Nat /\ Power(ONE_Q, period) = ONE_Q * scale
        <3>1. Power(ONE_Q, (period - 1) + 1) = ONE_Q * scale
            BY <2>3, PowerLaws
        <3> QED
            BY <2>2, <2>3, <3>1, PowerType
    <2>5. pow \in Nat
        BY <2>2, <2>3, PowFalls
    <2>6. /\ pow * (ONE_Q * scale) <= ONE_Q * exact
          /\ ONE_Q * exact <= (pow + period) * (ONE_Q * scale)
        BY <2>2, <2>3, <2>4, PowTracks DEF Tracks
    <2> HIDE DEF base, scale, exact, pow
    <2>7. pow * scale \in Nat /\ (pow + period) * scale \in Nat
        BY <2>3, <2>4, <2>5
    <2>8. /\ ONE_Q * (pow * scale) <= ONE_Q * exact
          /\ ONE_Q * exact <= ONE_Q * ((pow + period) * scale)
        <3>1. /\ pow * (ONE_Q * scale) = ONE_Q * (pow * scale)
              /\ (pow + period) * (ONE_Q * scale) = ONE_Q * ((pow + period) * scale)
            BY <2>2, <2>3, <2>4, <2>5
        <3> QED
            BY <2>6, <3>1
    <2>9. pow * scale <= exact /\ exact <= (pow + period) * scale
        BY <2>2, <2>4, <2>7, <2>8, FactorDrops
    <2>10. exact \in pow * scale .. (pow + period) * scale
        BY <2>4, <2>7, <2>9
    <2> QED
        BY <2>10 DEF exact, pow, scale, base
<1> QED
    BY <1>1, ScheduleInvariance, PTL
=============================================================================
