----------------------------- MODULE PowersOfTwo -----------------------------
(***************************************************************************)
(* The powers of two a u64 can hold (2^64 bounds them from above), and the *)
(* bit arithmetic the gateway does with them.                              *)
(***************************************************************************)
EXTENDS Integers

Power2[k \in 0 .. 64] == IF k = 0 THEN 1 ELSE 2 * Power2[k - 1]

\* A u64: its highest bit is one of 64.
IsU64(n) ==
  n \in Nat /\ (n = 0 \/ \E k \in 0 .. 63 : Power2[k] <= n /\ n < Power2[k + 1])

\* The position of the highest set bit: 63 less the leading zeros.
floor_pot(x) == IF x = 0 THEN 0
                ELSE CHOOSE k \in 0 .. 63 : Power2[k] <= x /\ x < Power2[k + 1]

\* A number is a power of two when nothing is left below its highest bit.
IsPowerOfTwo(n) == n > 0 /\ n = Power2[floor_pot(n)]
==============================================================================
