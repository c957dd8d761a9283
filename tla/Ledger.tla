------------------------------- MODULE Ledger -------------------------------
(***************************************************************************)
(* What the payment platform promises about money, with no server in it:   *)
(* a book of balances and of executed transfers.  A transfer is named by   *)
(* its idempotency key, happens at most once, never overdraws the sender,  *)
(* and moves its amount from one wallet to another, or to the same one, in *)
(* one step.                                                               *)
(* Module Transfers implements it.                                         *)
(***************************************************************************)
EXTENDS Integers, Functions

CONSTANTS Users, Currencies, Keys, Limit, InitialBalance, None

VARIABLES
  balance,   \* balance[u][c]: the money of u in currency c
  rows       \* rows[k]: the transfer executed under key k, or None

vars == <<balance, rows>>

Init ==
  /\ balance = InitialBalance
  /\ rows = [k \in Keys |-> None]

(* Under key k, a of currency c goes from s to r, whole or not at all. The *)
(* server lets a payer pay itself under another spelling of its id: then   *)
(* the row is written and the balance is what it was.                      *)
Execute(k, s, r, c, a) ==
  /\ rows[k] = None
  /\ a <= balance[s][c]
  /\ rows' = [rows EXCEPT ![k] = [sender |-> s, receiver |-> r, currency |-> c,
                                  amount |-> a, status |-> "SUCCESS"]]
  /\ LET debited == [balance EXCEPT ![s][c] = @ - a]
     IN  balance' = [debited EXCEPT ![r][c] = @ + a]

Next ==
  \E k \in Keys, s, r \in Users, c \in Currencies :
    \E a \in 1..Limit[c] : Execute(k, s, r, c, a)

Spec == Init /\ [][Next]_vars

-----------------------------------------------------------------------------
(* Properties. *)

Received(u, c) ==
  {k \in Keys : rows[k] # None /\ rows[k].receiver = u /\ rows[k].currency = c}
Sent(u, c) ==
  {k \in Keys : rows[k] # None /\ rows[k].sender = u /\ rows[k].currency = c}
Total(K) == SumFunctionOnSet([k \in K |-> rows[k].amount], K)

(* Every balance is the initial one plus what the executed transfers       *)
(* brought in minus what they took out.                                    *)
BooksBalance ==
  \A u \in Users, c \in Currencies :
    balance[u][c] = InitialBalance[u][c] + Total(Received(u, c)) - Total(Sent(u, c))

(* Transfers neither make nor lose money. *)
Money(book, c) == SumFunctionOnSet([u \in Users |-> book[u][c]], Users)
MoneyIsConserved == \A c \in Currencies : Money(balance, c) = Money(InitialBalance, c)
=============================================================================
