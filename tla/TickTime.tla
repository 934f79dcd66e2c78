------------------------------ MODULE TickTime ------------------------------
(***************************************************************************)
(* The wrap-around clock of the kernel (kernel/time_internal.h).           *)
(*                                                                         *)
(* A tick count is an unsigned integer that wraps at Modulus = 2 * Half.   *)
(* In the program Half is RTS_TICK_HALF_RANGE = 2^31 and Modulus is 2^32.  *)
(* Every operator below is parameterised by Half, so that the model        *)
(* checker can use a tiny clock and the proofs can cover every clock.      *)
(***************************************************************************)
EXTENDS Integers

CONSTANT Half       \* RTS_TICK_HALF_RANGE

ASSUME HalfAssumption == Half \in Nat /\ Half >= 2

Modulus == 2 * Half

\* The values of rts_tick_t.
Ticks == 0 .. (Modulus - 1)

\* RTS_TICK_MAX_ADVANCE: the longest delay, and the most ticks one call of
\* rts_kernel_tick_advance may report.
MaxAdvance == Half - 1

\* a + d and a - b in unsigned arithmetic.
TickAdd(a, d) == (a + d) % Modulus

TickElapsed(start, end) == (end - start) % Modulus

\* rts_tick_before: the top bit of a - b is set, and a - b is not the
\* ambiguous half range.
TickBefore(a, b) ==
    LET distance == TickElapsed(b, a)
    IN  distance # Half /\ distance >= Half

\* rts_tick_reached.
TickReached(time, deadline) == time = deadline \/ TickBefore(deadline, time)
=============================================================================
