--------------------------- MODULE MCClientSession ---------------------------
(* One phone, used by one user or by two who take turns. *)
EXTENDS ClientSession, TLC

CONSTANTS alice, bob

UserSymmetry == Permutations(Users)

(* calm is never TRUE again, so nothing beyond the first state that is not *)
(* calm bears on a property that is about calm states.                     *)
OnlyCalm == calm
=============================================================================
