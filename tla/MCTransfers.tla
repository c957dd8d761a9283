----------------------------- MODULE MCTransfers -----------------------------
(***************************************************************************)
(* Small instances of Transfers.  Three users paying in a ring make every  *)
(* lock order possible; keys shared by different payloads, payments beyond *)
(* the sender's funds, a credit beyond MaxBalance and each refusal of the  *)
(* validation are among the payloads.                                      *)
(***************************************************************************)
EXTENDS Transfers, TLC

CONSTANTS alice, bob, carol, nobody, r1, r2, r3, k1, k2, k3

Pay(s, r, c, a, k) ==
  [sender |-> s, receiver |-> r, spelling |-> "asIssued", currency |-> c,
   amount |-> a, key |-> k]
Respelled(d) == [d EXCEPT !.spelling = "other"]

Ring == {Pay(alice, bob, "USD", 3, k1), Pay(bob, carol, "USD", 2, k2),
         Pay(carol, alice, "USD", 2, k3), Pay(alice, carol, "USD", 2, k3),
         Pay(alice, bob, "CDF", 2, k1)}

Refused == {Pay(alice, alice, "USD", 1, k1), Pay(alice, bob, "USD", 4, k1),
            Pay(alice, nobody, "USD", 1, k1)}

(* A payer's own id in capitals, which the validation takes for another's. *)
Capitals == {Respelled(Pay(alice, alice, "USD", 1, k2))}

RingPayloads == Ring \cup Refused \cup Capitals
PairPayloads == {Pay(alice, bob, "USD", 3, k1), Pay(alice, bob, "USD", 2, k2),
                 Pay(bob, alice, "USD", 2, k2)} \cup Capitals

MCLimit == [c \in Currencies |-> 3]
MCInitial ==
  [u \in Users |-> [c \in Currencies |-> IF u = alice /\ c = "USD" THEN 4 ELSE 2]]
MCRank == [u \in Users |-> IF u = alice THEN 1 ELSE IF u = bob THEN 2 ELSE 3]

RequestSymmetry == Permutations(Requests)
=============================================================================
