------------------------------- MODULE MCAuth -------------------------------
(***************************************************************************)
(* Small instances of Auth: one phone with an account and one without, two *)
(* devices, three calls, and two settings of the refresh token's life: one *)
(* that durationToMs reads as jsonwebtoken does, and one for which it      *)
(* falls back to less than the life of the token.                          *)
(***************************************************************************)
EXTENDS Auth, TLC

CONSTANTS alice, bob, phone, tablet, c1, c2, c3

MCSettings == {[life |-> 1, plain |-> TRUE], [life |-> 2, plain |-> FALSE]}

CallSymmetry == Permutations(Calls) \cup Permutations(Devices)
=============================================================================
