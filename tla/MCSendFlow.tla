----------------------------- MODULE MCSendFlow -----------------------------
(* One flow of one sender; or two, the second of them submitted once, with *)
(* funds that cover two payments.                                          *)
EXTENDS SendFlow, TLC

CONSTANTS f1, f2

OneFlow == [f \in Flows |-> 6]
TwoFlows == [f \in Flows |-> IF f = f1 THEN 4 ELSE 2]
=============================================================================
