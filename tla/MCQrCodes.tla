------------------------------ MODULE MCQrCodes ------------------------------
(* Two users, one of them of a country that is not two letters, and three  *)
(* requests.                                                               *)
EXTENDS QrCodes, TLC

CONSTANTS alice, bob, p1, p2
=============================================================================
