--------------------------- MODULE RateLimitProofs ---------------------------
(***************************************************************************)
(* RateBound for every rate, every width of an int and every length of the   *)
(* run. The bucket is refilled by two conversions to int that can wrap; the  *)
(* heart of the proof is that they never add tokens that were not earned.    *)
(***************************************************************************)
EXTENDS RateLimit, TLAPS

\* The sign bit, and the number of ints.
Half == IntMax + 1
Range32 == 2 * Half

\* The quotient and the remainder of a division of naturals.
LEMMA DivMod ==
    ASSUME NEW m \in Nat \ {0}, NEW z \in Nat
    PROVE  z \div m \in Nat /\ z % m \in 0..(m - 1) /\ z = m * (z \div m) + (z % m)
<1>1. z % m \in 0..(m - 1) /\ z = m * (z \div m) + (z % m) /\ z \div m \in Int
  OBVIOUS
<1> DEFINE q == z \div m
<1>2. q >= 0
  <2>1. SUFFICES ASSUME q <= -1 PROVE FALSE
    BY <1>1
  <2>2. m * q <= -m
    BY <1>1, <2>1
  <2> QED
    BY <1>1, <2>2
<1> QED
  BY <1>1, <1>2

\* The remainder of a division is the number itself or at least a divisor less.
LEMMA ModDown ==
    ASSUME NEW m \in Nat \ {0}, NEW z \in Nat
    PROVE  z % m \in 0..(m - 1) /\ (z % m = z \/ z % m <= z - m)
<1> DEFINE q == z \div m
<1>1. z % m \in 0..(m - 1) /\ z = m * q + (z % m) /\ q \in Nat
  BY DivMod
<1>2. q = 0 \/ m * q >= m
  BY <1>1
<1> QED
  BY <1>1, <1>2

\* A value that is no less than the least int is stored as itself or as an int
\* below it by a whole range at least.
LEMMA Int32Down ==
    ASSUME NEW x \in Int, x >= -Half
    PROVE  Int32(x) \in (-Half)..IntMax /\ (Int32(x) = x \/ Int32(x) <= x - Range32)
<1>1. Half \in Nat /\ Range32 \in Nat \ {0} /\ x + Half \in Nat
  BY RateAssumption DEF Half, Range32
<1>2. Int32(x) = ((x + Half) % Range32) - Half
  BY RateAssumption DEF Int32, Half, Range32
<1> DEFINE z == x + Half
<1>3. z \in Nat /\ Int32(x) = (z % Range32) - Half
  BY <1>1, <1>2
<1> HIDE DEF z
<1>4. z % Range32 \in 0..(Range32 - 1) /\ (z % Range32 = z \/ z % Range32 <= z - Range32)
  BY <1>1, <1>3, ModDown
<1> QED
  BY <1>1, <1>3, <1>4, RateAssumption DEF z, Half, Range32

\* A value below the least int by no more than a range is stored a range above.
LEMMA Int32Up ==
    ASSUME NEW x \in Int, x < -Half, x >= -Half - Range32
    PROVE  Int32(x) = x + Range32
<1>1. Half \in Nat \ {0} /\ Range32 \in Nat \ {0} /\ x + Half + Range32 \in 0..(Range32 - 1)
  BY RateAssumption DEF Half, Range32
<1>2. Int32(x) = ((x + Half) % Range32) - Half
  BY RateAssumption DEF Int32, Half, Range32
<1> DEFINE y == x + Half
<1>3. y \in Int /\ y % Range32 \in 0..(Range32 - 1) /\ y = Range32 * (y \div Range32) + (y % Range32)
      /\ y \div Range32 \in Int
  BY <1>1
<1>4. y \div Range32 = -1
  <2> DEFINE q == y \div Range32
  <2>1. y >= -Range32 /\ y < 0
    BY <1>1
  <2>2. q < 0
    <3>1. SUFFICES ASSUME q >= 0 PROVE FALSE
      BY <1>3
    <3>2. Range32 * q >= 0
      BY <1>1, <1>3, <3>1
    <3> QED
      BY <1>1, <1>3, <2>1, <3>2
  <2>3. q > -2
    <3>1. SUFFICES ASSUME q <= -2 PROVE FALSE
      BY <1>3
    <3>2. Range32 * q <= -2 * Range32
      BY <1>1, <1>3, <3>1
    <3> QED
      BY <1>1, <1>3, <2>1, <3>2
  <2> QED
    BY <1>3, <2>2, <2>3
<1> HIDE DEF y
<1>5. y % Range32 = y + Range32
  BY <1>1, <1>3, <1>4
<1> QED
  BY <1>1, <1>2, <1>5 DEF y, Half, Range32

\* The tokens earned since the last refill, before they are cut to an int.
Earned == (max_tokens * (clock - last_refill)) \div PerSecond

LEMMA EarnedPaid ==
    ASSUME RateTypeOK
    PROVE  Earned \in Nat /\ Earned * PerSecond <= max_tokens * (clock - last_refill)
<1> DEFINE a == max_tokens * (clock - last_refill)
<1>1. max_tokens \in Nat /\ clock - last_refill \in Nat
  BY RateAssumption DEF RateTypeOK
<1>2. a \in Nat
  BY <1>1
<1> HIDE DEF a
<1>3. a % PerSecond \in 0..(PerSecond - 1) /\ a = PerSecond * (a \div PerSecond) + (a % PerSecond)
      /\ a \div PerSecond \in Nat
  BY <1>2, RateAssumption, DivMod
<1>4. (a \div PerSecond) * PerSecond <= a
  BY <1>2, <1>3, RateAssumption
<1> QED
  BY <1>3, <1>4 DEF Earned, a

\* refill_tokens never adds more than was earned, wherever it wraps.
LEMMA RefillEarned ==
    ASSUME RateTypeOK
    PROVE  /\ refill_tokens \in (-Half)..max_tokens
           /\ refill_tokens <= tokens + Earned
<1>1. /\ max_tokens \in 0..IntMax /\ tokens \in (-Half)..max_tokens
      /\ Half \in Nat /\ Half = IntMax + 1 /\ Range32 = 2 * Half
  BY RateAssumption DEF RateTypeOK, Half, Range32
<1>2. Earned \in Nat
  BY EarnedPaid
<1> DEFINE i == Int32(Earned)
           sum == Int32(tokens + i)
<1>3. i \in (-Half)..IntMax /\ (i = Earned \/ i <= Earned - Range32)
  BY <1>1, <1>2, Int32Down
<1>4. refill_tokens = IF sum < max_tokens THEN sum ELSE max_tokens
  BY DEF refill_tokens, Earned
<1> HIDE DEF i, sum
<1>5. CASE tokens + i >= -Half
  <2>1. sum \in (-Half)..IntMax /\ sum <= tokens + i
    BY <1>1, <1>3, <1>5, Int32Down DEF sum
  <2> QED
    BY <1>1, <1>2, <1>3, <1>4, <2>1
<1>6. CASE tokens + i < -Half
  <2>1. sum = tokens + i + Range32
    BY <1>1, <1>3, <1>6, Int32Up DEF sum
  <2>2. i <= Earned - Range32
    BY <1>1, <1>2, <1>3, <1>6
  <2> QED
    BY <1>1, <1>2, <1>3, <1>4, <1>6, <2>1, <2>2
<1> QED
  BY <1>1, <1>3, <1>5, <1>6
------------------------------------------------------------------------------
RateInv == RateTypeOK /\ RatePaid /\ RateBound

LEMMA RateInitInv == RateInit => RateInv
  BY RateAssumption DEF RateInit, RateInv, RateTypeOK, RatePaid, RateBound

\* A check: the refill is paid for by the time since the last one, and what is
\* admitted leaves the bucket.
LEMMA CheckInv ==
    ASSUME RateInv, check_rate_limit
    PROVE  RateInv'
<1> DEFINE t == refill_tokens
<1>1. RateTypeOK /\ RatePaid /\ RateBound
  BY DEF RateInv
<1>2. /\ t \in (-Half)..max_tokens /\ t <= tokens + Earned
      /\ Earned \in Nat /\ Earned * PerSecond <= max_tokens * (clock - last_refill)
  BY <1>1, RefillEarned, EarnedPaid
<1>3. /\ last_refill' = clock /\ max_tokens' = max_tokens /\ clock' = clock /\ from' = from
      /\ \/ t > 0 /\ tokens' = t - 1 /\ admitted' = admitted + 1
         \/ t <= 0 /\ tokens' = t /\ admitted' = admitted
      /\ admitted < MaxWindow
  <2>1. t > 0 \/ t <= 0
    BY <1>1, <1>2, RateAssumption DEF RateTypeOK, Half
  <2> QED
    BY <1>2, <2>1, RateAssumption DEF check_rate_limit, Half
<1> HIDE DEF t
<1>4. /\ max_tokens \in Rates /\ max_tokens \in Nat /\ tokens \in (-Half)..max_tokens /\ tokens \in Int
      /\ clock \in 0..MaxClock /\ last_refill \in 0..clock /\ from \in 0..clock
      /\ admitted \in 0..MaxWindow /\ PerSecond \in Nat \ {0} /\ t \in Int /\ Half \in Nat
      /\ MaxWindow \in Nat
  BY <1>1, <1>2, RateAssumption DEF RateTypeOK, Half
<1>5. RateTypeOK'
  BY <1>2, <1>3, <1>4 DEF RateTypeOK, Half
<1>6. (admitted + t) * PerSecond <= max_tokens * PerSecond + max_tokens * (clock - from)
  <2>1. CASE last_refill < from
    <3>1. admitted = 0 /\ t <= max_tokens
      BY <1>1, <1>2, <1>4, <2>1 DEF RatePaid
    <3>2. t * PerSecond <= max_tokens * PerSecond
      BY <1>4, <3>1
    <3>3. max_tokens * (clock - from) >= 0
      BY <1>4
    <3> QED
      BY <1>4, <3>1, <3>2, <3>3
  <2>2. CASE ~(last_refill < from)
    <3>1. (admitted + tokens) * PerSecond <= max_tokens * PerSecond + max_tokens * (last_refill - from)
      BY <1>1, <2>2 DEF RatePaid
    <3>2. (admitted + t) * PerSecond <= (admitted + tokens + Earned) * PerSecond
      BY <1>2, <1>4
    <3>3. (admitted + tokens + Earned) * PerSecond = (admitted + tokens) * PerSecond + Earned * PerSecond
      BY <1>2, <1>4
    <3>4. max_tokens * (last_refill - from) + max_tokens * (clock - last_refill) = max_tokens * (clock - from)
      BY <1>4
    <3> QED
      BY <1>2, <1>4, <3>1, <3>2, <3>3, <3>4
  <2> QED
    BY <2>1, <2>2
<1>7. admitted' + tokens' = admitted + t
  BY <1>3, <1>4
<1>8. RatePaid'
  BY <1>3, <1>4, <1>6, <1>7 DEF RatePaid
<1>9. RateBound'
  <2>1. CASE t > 0 /\ tokens' = t - 1 /\ admitted' = admitted + 1
    <3>1. admitted' * PerSecond <= (admitted + t) * PerSecond
      BY <1>4, <2>1
    <3> QED
      BY <1>3, <1>4, <1>6, <2>1, <3>1 DEF RateBound
  <2>2. CASE admitted' = admitted
    BY <1>1, <1>3, <2>2 DEF RateBound
  <2> QED
    BY <1>3, <2>1, <2>2
<1> QED
  BY <1>5, <1>8, <1>9 DEF RateInv

LEMMA RateNextInv == RateInv /\ [RateNext]_rateVars => RateInv'
<1> SUFFICES ASSUME RateInv, [RateNext]_rateVars PROVE RateInv'
  OBVIOUS
<1>1. /\ max_tokens \in Nat /\ tokens \in Int /\ clock \in 0..MaxClock /\ last_refill \in 0..clock
      /\ from \in 0..clock /\ admitted \in 0..MaxWindow /\ PerSecond \in Nat \ {0}
      /\ max_tokens * PerSecond \in Nat /\ max_tokens \in Rates /\ tokens <= max_tokens
  BY RateAssumption DEF RateInv, RateTypeOK
<1>2. CASE check_rate_limit
  BY <1>2, CheckInv
<1>3. CASE RateTick
  <2>1. max_tokens * (clock + 1 - from) = max_tokens * (clock - from) + max_tokens
    BY <1>1
  <2>2. admitted * PerSecond \in Int /\ max_tokens * (clock - from) \in Int
    BY <1>1
  <2>3. RateBound'
    BY <1>1, <1>3, <2>1, <2>2 DEF RateTick, RateInv, RateBound
  <2>4. RateTypeOK' /\ RatePaid'
    BY <1>1, <1>3, RateAssumption DEF RateTick, RateInv, RateTypeOK, RatePaid
  <2> QED
    BY <2>3, <2>4 DEF RateInv
<1>4. CASE RateWindow
  <2>1. RateTypeOK'
    BY <1>1, <1>4, RateAssumption DEF RateWindow, RateInv, RateTypeOK
  <2>2. RateBound'
    BY <1>1, <1>4 DEF RateWindow, RateBound
  <2>3. tokens * PerSecond <= max_tokens * PerSecond
    BY <1>1
  <2>4. RatePaid'
    BY <1>1, <1>4, <2>3 DEF RateWindow, RatePaid
  <2> QED
    BY <2>1, <2>2, <2>4 DEF RateInv
<1>5. CASE UNCHANGED rateVars
  BY <1>5 DEF rateVars, RateInv, RateTypeOK, RatePaid, RateBound
<1> QED
  BY <1>2, <1>3, <1>4, <1>5 DEF RateNext

\* check_rate_limit keeps the promise of a token bucket in every window of time:
\* a burst of max_tokens and then no more than the rate, for every rate, width
\* of int and idle time, wherever the conversions of refill_tokens wrap.
THEOREM RateBounded == RateSpec => []RateBound
<1>1. RateSpec => []RateInv
  BY RateInitInv, RateNextInv, PTL DEF RateSpec
<1>2. RateInv => RateBound
  BY DEF RateInv
<1> QED
  BY <1>1, <1>2, PTL
==============================================================================
