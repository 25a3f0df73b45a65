------------------------------ MODULE ModArith ------------------------------
(***************************************************************************)
(* Serial-number arithmetic of CommonServices.h: Mod16_Cmp, Mod32_Cmp and  *)
(* the comparisons built on them subtract two unsigned values and read the *)
(* result as a signed integer of the same width.  M is the modulus, 2^16   *)
(* for RTP sequence numbers and 2^32 for RTP timestamps in the program.    *)
(***************************************************************************)
EXTENDS Integers

\* (int)( A - B ): the signed distance from b to a.
ModCmp(a, b, M) ==
    LET d == (a - b) % M IN IF 2 * d < M THEN d ELSE d - M

ModLT(a, b, M) == ModCmp(a, b, M) < 0
ModLE(a, b, M) == ModCmp(a, b, M) <= 0
ModGT(a, b, M) == ModCmp(a, b, M) > 0
ModGE(a, b, M) == ModCmp(a, b, M) >= 0
=============================================================================
