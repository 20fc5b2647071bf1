----------------------------- MODULE Durations -----------------------------
(***************************************************************************)
(* The two Duration types: the kernel's (kernel/common/time.rs), signed    *)
(* and brought to a common sign by new, and libstd's (libstd/src/time.rs), *)
(* unsigned, whose operators panic where the result does not fit. Plain    *)
(* sums wrap: the build (Makefile) has no overflow checks. The kernel's    *)
(* seconds, an i64, are not bounded here.                                  *)
(***************************************************************************)
EXTENDS Integers, FiniteSetsExt

CONSTANTS NANOS_PER_SEC, NANOS_PER_MILLI,
          I32,         \* the kernel's nanoseconds are -I32..I32 - 1
          MaxSecs,     \* the largest number of seconds libstd can hold
          MaxFactor    \* the largest factor, or number of nanoseconds given to new

ASSUME DurationsAssumption ==
  /\ {NANOS_PER_SEC, NANOS_PER_MILLI} \subseteq Nat \ {0} /\ NANOS_PER_SEC % NANOS_PER_MILLI = 0
  /\ {MaxSecs, MaxFactor, I32} \subseteq Nat /\ 2 * NANOS_PER_SEC < I32

VARIABLES clock, other, factor   \* operands

durationVars == <<clock, other, factor>>

Panic == [secs |-> -1, nanos |-> -1]
Total(d) == d.secs * NANOS_PER_SEC + d.nanos
Magnitude(x) == IF x < 0 THEN -x ELSE x

-----------------------------------------------------------------------------
(* The kernel's Duration::new: the first state of each loop that ends it.    *)
kernel_new(secs, nanos) ==
  LET Moved(d, j) == [secs |-> d.secs + j, nanos |-> d.nanos - j * NANOS_PER_SEC]
      Loops(d) == 0..(Magnitude(d.nanos) \div NANOS_PER_SEC) + 1
      d0 == [secs |-> secs, nanos |-> nanos]
      over(d) == d.nanos >= NANOS_PER_SEC \/ (d.nanos > 0 /\ d.secs < 0)
      d1 == Moved(d0, Min({j \in Loops(d0) : ~ over(Moved(d0, j))}))
      under(d) == d.nanos < 0 /\ d.secs > 0
  IN Moved(d1, -Min({j \in Loops(d1) : ~ under(Moved(d1, -j))}))

(* A sum of two i32.                                                         *)
i32(x) == ((x + I32) % (2 * I32)) - I32

kernel_add(a, b) == kernel_new(a.secs + b.secs, i32(a.nanos + b.nanos))
kernel_sub(a, b) == kernel_new(a.secs - b.secs, i32(a.nanos - b.nanos))

(* eq and partial_cmp look at the sign of the difference only.               *)
kernel_eq(a, b) == kernel_sub(a, b) = [secs |-> 0, nanos |-> 0]
partial_cmp(a, b) ==
  LET dif == kernel_sub(a, b)
  IN CASE dif.secs > 0 -> "Greater"
       [] dif.secs < 0 -> "Less"
       [] dif.secs = 0 /\ dif.nanos > 0 -> "Greater"
       [] dif.secs = 0 /\ dif.nanos < 0 -> "Less"
       [] OTHER -> "Equal"

-----------------------------------------------------------------------------
Made(secs, nanos) == IF secs \in 0..MaxSecs THEN [secs |-> secs, nanos |-> nanos] ELSE Panic

(* libstd's Duration::new, whose sum is not checked, and from_millis.        *)
std_new(secs, nanos) == [secs |-> (secs + nanos \div NANOS_PER_SEC) % (MaxSecs + 1), nanos |-> nanos % NANOS_PER_SEC]
from_millis(ms) ==
  LET per == NANOS_PER_SEC \div NANOS_PER_MILLI
  IN Made(ms \div per, (ms % per) * NANOS_PER_MILLI)

std_add(a, b) ==
  LET n == a.nanos + b.nanos
  IN IF n >= NANOS_PER_SEC THEN Made(a.secs + b.secs + 1, n - NANOS_PER_SEC) ELSE Made(a.secs + b.secs, n)

(* Mutant: the borrowed second is not taken away.                            *)
std_sub_Borrow(a, b) ==
  IF a.nanos >= b.nanos THEN Made(a.secs - b.secs, a.nanos - b.nanos)
                        ELSE Made(a.secs - b.secs, a.nanos + NANOS_PER_SEC - b.nanos)

std_sub(a, b) ==
  IF a.nanos >= b.nanos THEN Made(a.secs - b.secs, a.nanos - b.nanos)
                        ELSE Made(a.secs - b.secs - 1, a.nanos + NANOS_PER_SEC - b.nanos)

std_mul(a, k) ==
  LET total_nanos == a.nanos * k
  IN Made(a.secs * k + total_nanos \div NANOS_PER_SEC, total_nanos % NANOS_PER_SEC)

std_div(a, k) ==
  LET secs == a.secs \div k
      carry == a.secs - secs * k
  IN Made(secs, a.nanos \div k + (carry * NANOS_PER_SEC) \div k)

(* Instants are times of the kernel's clock, as sys_clock_gettime gives them. *)
Instant(d) == std_new(d.secs, d.nanos)
duration_since(a, b) == std_sub(Instant(a), Instant(b))

(* thread::sleep_ms: the time it asks sys_nanosleep for.                     *)
sleep_ms(ms) ==
  LET per == NANOS_PER_SEC \div NANOS_PER_MILLI
      d == std_new(ms \div per, (ms % per) * NANOS_PER_MILLI)
  IN kernel_new(d.secs, d.nanos)

-----------------------------------------------------------------------------
Small == -2 * NANOS_PER_SEC..2 * NANOS_PER_SEC

DurationsInit == /\ clock \in {kernel_new(s, n) : s \in -2..2, n \in Small}
                 /\ other \in {kernel_new(s, n) : s \in -2..2, n \in Small}
                 /\ factor \in 0..MaxFactor

(* The timer's interrupt moves the clock on, by a positive time.             *)
Tick == /\ clock.secs <= MaxSecs /\ other.secs >= 0 /\ other.nanos >= 0
        /\ clock' = kernel_add(clock, other) /\ UNCHANGED <<other, factor>>

DurationsSpec == DurationsInit /\ [][Tick]_durationVars

-----------------------------------------------------------------------------
Unsigned(d) == d.secs \in 0..MaxSecs /\ d.nanos \in 0..NANOS_PER_SEC - 1
Fits(total, d) == IF total \in 0..(MaxSecs + 1) * NANOS_PER_SEC - 1 THEN Unsigned(d) /\ Total(d) = total ELSE d = Panic

Within(nanos) == nanos \in -I32..I32 - 1

(* The kernel's sums, differences and comparisons, which decide when a       *)
(* sleeper wakes, are those of the times the operands stand for, whatever    *)
(* their signs, unless the nanoseconds wrap: those of two times with less    *)
(* than a second of them do not, but new leaves any number of negative ones  *)
(* beside no seconds. libstd's new is exact up to a number of seconds that   *)
(* wraps, its operators give the exact result in normal form or panic, and   *)
(* a division loses less than a nanosecond for each of its parts (Duration). *)
DurationLaws ==
  /\ Within(clock.nanos + other.nanos) => Total(kernel_add(clock, other)) = Total(clock) + Total(other)
  /\ Within(clock.nanos - other.nanos) =>
       /\ Total(kernel_sub(clock, other)) = Total(clock) - Total(other)
       /\ kernel_eq(clock, other) <=> Total(clock) = Total(other)
       /\ partial_cmp(clock, other) = IF Total(clock) > Total(other) THEN "Greater"
                                      ELSE IF Total(clock) < Total(other) THEN "Less" ELSE "Equal"
  /\ Unsigned(clock) =>
       /\ LET d == std_new(clock.secs, clock.nanos + factor)
          IN Unsigned(d) /\ Total(d) = (Total(clock) + factor) % ((MaxSecs + 1) * NANOS_PER_SEC)
       /\ Fits(Total(clock) * factor, std_mul(clock, factor))
       /\ Fits(clock.secs * NANOS_PER_MILLI, from_millis(clock.secs))
       /\ Total(sleep_ms(clock.secs)) = clock.secs * NANOS_PER_MILLI
       /\ factor > 0 => LET q == std_div(clock, factor)
                        IN Unsigned(q) /\ Total(clock) \div factor - Total(q) \in 0..1
       /\ Unsigned(other) => /\ Fits(Total(clock) + Total(other), std_add(clock, other))
                             /\ Fits(Total(clock) - Total(other), duration_since(clock, other))
=============================================================================
