--------------------------- MODULE TickTimeProofs ---------------------------
(***************************************************************************)
(* Facts about the wrap-around clock, for every half range.                *)
(***************************************************************************)
EXTENDS TickTime, TLAPS

\* Unsigned arithmetic of one wrap in either direction, without the modulo.
LEMMA WrapCases ==
    ASSUME NEW a \in (-Modulus) .. (2 * Modulus - 1)
    PROVE  a % Modulus = IF a < 0 THEN a + Modulus
                         ELSE IF a < Modulus THEN a
                         ELSE a - Modulus
<1>1. CASE a < 0
  BY <1>1, HalfAssumption DEF Modulus
<1>2. CASE a >= 0 /\ a < Modulus
  BY <1>2, HalfAssumption DEF Modulus
<1>3. CASE a >= Modulus
  BY <1>3, HalfAssumption DEF Modulus
<1>. QED
  BY <1>1, <1>2, <1>3, HalfAssumption DEF Modulus

\* The same for a deadline at most RTS_TICK_MAX_ADVANCE away in the future or
\* in the past; a sum of ticks is a tick value.
LEMMA TickAddCases ==
    ASSUME NEW time \in Ticks, NEW d \in (-MaxAdvance) .. MaxAdvance
    PROVE  /\ TickAdd(time, d) = IF time + d < 0 THEN time + d + Modulus
                                ELSE IF time + d < Modulus THEN time + d
                                ELSE time + d - Modulus
           /\ TickAdd(time, d) \in Ticks
<1> DEFINE sum == time + d
<1>1. sum \in (-Modulus) .. (2 * Modulus - 1)
  BY HalfAssumption DEF Ticks, Modulus, MaxAdvance
<1>2. TickAdd(time, d) = sum % Modulus
  BY DEF TickAdd
<1> HIDE DEF sum
<1>3. TickAdd(time, d) = IF sum < 0 THEN sum + Modulus
                         ELSE IF sum < Modulus THEN sum
                         ELSE sum - Modulus
  BY <1>1, <1>2, WrapCases
<1>. QED
  BY <1>3, HalfAssumption DEF Ticks, Modulus, MaxAdvance, sum

\* Moving the clock forward by e leaves a deadline d ticks away d - e ticks
\* away: adding ticks composes across the wrap.
LEMMA TickAddShift ==
    ASSUME NEW time \in Ticks,
           NEW d \in 1 .. MaxAdvance, NEW e \in 1 .. MaxAdvance
    PROVE  TickAdd(TickAdd(time, e), d - e) = TickAdd(time, d)
<1> DEFINE later == TickAdd(time, e)
<1>1. /\ d \in (-MaxAdvance) .. MaxAdvance
      /\ e \in (-MaxAdvance) .. MaxAdvance
      /\ d - e \in (-MaxAdvance) .. MaxAdvance
  BY HalfAssumption DEF MaxAdvance
<1>2. /\ later = IF time + e < Modulus THEN time + e ELSE time + e - Modulus
      /\ later \in Ticks
  BY <1>1, TickAddCases, HalfAssumption DEF Ticks, Modulus, MaxAdvance
<1>3. TickAdd(time, d) = IF time + d < Modulus THEN time + d
                         ELSE time + d - Modulus
  BY <1>1, TickAddCases, HalfAssumption DEF Ticks, Modulus, MaxAdvance
<1> HIDE DEF later
<1>4. TickAdd(later, d - e) =
        IF later + (d - e) < 0 THEN later + (d - e) + Modulus
        ELSE IF later + (d - e) < Modulus THEN later + (d - e)
        ELSE later + (d - e) - Modulus
  BY <1>1, <1>2, TickAddCases
<1>5. TickAdd(later, d - e) = TickAdd(time, d)
  BY <1>2, <1>3, <1>4, HalfAssumption DEF Ticks, Modulus, MaxAdvance
<1>. QED
  BY <1>5 DEF later

\* rts_tick_before orders two ticks as their true distances from a common
\* origin do, as long as the two lie less than half the range apart.
THEOREM TickBeforeIsTrueOrder ==
    ASSUME NEW time \in Ticks,
           NEW x \in (-MaxAdvance) .. MaxAdvance,
           NEW y \in (-MaxAdvance) .. MaxAdvance,
           x - y < Half, y - x < Half
    PROVE  TickBefore(TickAdd(time, x), TickAdd(time, y)) <=> x < y
<1> DEFINE tx == TickAdd(time, x)
           ty == TickAdd(time, y)
<1>1. tx = IF time + x < 0 THEN time + x + Modulus
           ELSE IF time + x < Modulus THEN time + x
           ELSE time + x - Modulus
  BY TickAddCases
<1>2. ty = IF time + y < 0 THEN time + y + Modulus
           ELSE IF time + y < Modulus THEN time + y
           ELSE time + y - Modulus
  BY TickAddCases
<1>. /\ tx \in Ticks
     /\ ty \in Ticks
  BY TickAddCases
<1> HIDE DEF tx, ty
<1>3. tx - ty \in (-Modulus) .. (2 * Modulus - 1)
  BY HalfAssumption DEF Ticks, Modulus
<1>4. \/ tx - ty = x - y
      \/ tx - ty = x - y + Modulus
      \/ tx - ty = x - y - Modulus
  BY <1>1, <1>2, HalfAssumption DEF Ticks, Modulus, MaxAdvance
<1> DEFINE distance == tx - ty
<1>5. /\ distance \in (-Modulus) .. (2 * Modulus - 1)
      /\ TickElapsed(ty, tx) = distance % Modulus
  BY <1>3 DEF TickElapsed
<1>6. \/ distance = x - y
      \/ distance = x - y + Modulus
      \/ distance = x - y - Modulus
  BY <1>4
<1> HIDE DEF distance
<1>7. TickElapsed(ty, tx) = IF distance < 0 THEN distance + Modulus
                            ELSE IF distance < Modulus THEN distance
                            ELSE distance - Modulus
  BY <1>5, WrapCases
<1>8. TickElapsed(ty, tx) = IF x < y THEN x - y + Modulus ELSE x - y
  BY <1>5, <1>6, <1>7, HalfAssumption DEF Modulus, MaxAdvance
<1>. QED
  BY <1>8, HalfAssumption DEF TickBefore, Modulus, MaxAdvance, tx, ty

\* rts_tick_reached is exact: a deadline x ticks away (negative once it has
\* passed) counts as reached precisely when no tick is left, whatever the
\* clock value and however often it has wrapped.
THEOREM TickReachedIsExact ==
    ASSUME NEW time \in Ticks, NEW x \in (-MaxAdvance) .. MaxAdvance
    PROVE  TickReached(time, TickAdd(time, x)) <=> x <= 0
<1>1. 0 \in (-MaxAdvance) .. MaxAdvance
  BY HalfAssumption DEF MaxAdvance
<1>2. TickAdd(time, 0) = time
  BY <1>1, TickAddCases, HalfAssumption DEF Ticks, Modulus
<1>3. TickBefore(TickAdd(time, x), time) <=> x < 0
  BY <1>1, <1>2, TickBeforeIsTrueOrder, HalfAssumption DEF MaxAdvance
<1>4. x # 0 => TickAdd(time, x) # time
  BY TickAddCases, HalfAssumption DEF Ticks, Modulus, MaxAdvance
<1>. QED
  BY <1>2, <1>3, <1>4, HalfAssumption DEF TickReached, MaxAdvance

\* Two ticks that both lie 1 .. RTS_TICK_MAX_ADVANCE ahead of the same time are
\* never half the clock range apart, the distance rts_tick_is_before asserts
\* against.
THEOREM FutureTicksUnambiguous ==
    ASSUME NEW time \in Ticks,
           NEW x \in 1 .. MaxAdvance, NEW y \in 1 .. MaxAdvance
    PROVE  TickElapsed(TickAdd(time, x), TickAdd(time, y)) # Half
<1> DEFINE tx == TickAdd(time, x)
           ty == TickAdd(time, y)
           diff == ty - tx
<1>1. x \in (-MaxAdvance) .. MaxAdvance /\ y \in (-MaxAdvance) .. MaxAdvance
  BY HalfAssumption DEF MaxAdvance
<1>2. /\ tx \in Ticks /\ ty \in Ticks
      /\ tx = IF time + x < Modulus THEN time + x ELSE time + x - Modulus
      /\ ty = IF time + y < Modulus THEN time + y ELSE time + y - Modulus
  BY <1>1, TickAddCases, HalfAssumption DEF Ticks, Modulus, MaxAdvance
<1>3. /\ diff \in Int
      /\ diff \in {y - x, y - x - Modulus, y - x + Modulus}
      /\ diff \in (-Modulus) .. (2 * Modulus - 1)
  BY <1>2, HalfAssumption DEF Ticks, Modulus, MaxAdvance
<1>4. TickElapsed(tx, ty) = diff % Modulus
  BY DEF TickElapsed
<1> HIDE DEF diff
<1>5. diff % Modulus = IF diff < 0 THEN diff + Modulus
                       ELSE IF diff < Modulus THEN diff ELSE diff - Modulus
  BY <1>3, WrapCases
<1>6. diff % Modulus # Half
  BY <1>3, <1>5, HalfAssumption DEF Modulus, MaxAdvance
<1>. QED
  BY <1>4, <1>6
=============================================================================
