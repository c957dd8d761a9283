---------------------------- MODULE LedgerProofs ----------------------------
(***************************************************************************)
(* Proofs about Ledger, for any users, currencies and keys.                *)
(***************************************************************************)
EXTENDS Ledger, DataLemmas

-----------------------------------------------------------------------------
(* What whoever instantiates the ledger has to know of its constants. *)
LedgerConstants ==
  /\ InitialBalance \in [Users -> [Currencies -> Nat]]
  /\ Limit \in [Currencies -> Nat]
  /\ None \notin [sender : Users, receiver : Users, currency : Currencies,
                  amount : Nat, status : {"SUCCESS"}]

Executed == {k \in Keys : rows[k] # None}

(* The shape of the book, in which finitely many transfers are written. *)
BookOK ==
  /\ balance \in [Users -> [Currencies -> Int]]
  /\ rows \in [Keys -> [sender : Users, receiver : Users, currency : Currencies,
                        amount : Nat, status : {"SUCCESS"}] \cup {None}]
  /\ IsFiniteSet(Executed)
  /\ \A u \in Users, c \in Currencies : balance[u][c] >= 0

LedgerInv == BookOK /\ BooksBalance

-----------------------------------------------------------------------------

LEMMA InitLedgerInv == ASSUME LedgerConstants, Init PROVE LedgerInv
<1>1. Executed = {} /\ \A u, c : Received(u, c) = {} /\ Sent(u, c) = {}
  BY DEF Init, Executed, Received, Sent
<1>2. BookOK
  BY <1>1, FS_EmptySet DEF LedgerConstants, Init, BookOK
<1>3. ASSUME NEW u \in Users, NEW c \in Currencies
      PROVE  balance[u][c] = InitialBalance[u][c] + Total(Received(u, c)) - Total(Sent(u, c))
  <2>1. Total(Received(u, c)) = 0 /\ Total(Sent(u, c)) = 0
    BY <1>1, SumOfNone DEF Total
  <2>2. balance[u][c] = InitialBalance[u][c] /\ InitialBalance[u][c] \in Int
    BY DEF LedgerConstants, Init
  <2> QED
    BY <2>1, <2>2
<1>4. BooksBalance
  BY <1>3 DEF BooksBalance
<1> QED
  BY <1>2, <1>4 DEF LedgerInv

(* The total of some transfers is a number, the same as long as the rows   *)
(* are, and grows by the amount of one more.                               *)
TotalOf(R, K) == SumFunctionOnSet([k \in K |-> R[k].amount], K)

LEMMA TotalRules ==
  ASSUME NEW K, IsFiniteSet(K), NEW R, NEW Q,
         \A j \in K : R[j].amount \in Nat /\ Q[j] = R[j]
  PROVE  /\ TotalOf(R, K) \in Int /\ TotalOf(Q, K) = TotalOf(R, K)
         /\ \A k : k \notin K /\ Q[k].amount \in Nat =>
              TotalOf(Q, K \cup {k}) = TotalOf(Q, K) + Q[k].amount
<1> DEFINE f == [j \in K |-> R[j].amount]
           h == [j \in K |-> Q[j].amount]
<1>1. f = h
  OBVIOUS
<1>2. TotalOf(R, K) \in Int /\ TotalOf(Q, K) = TotalOf(R, K)
  BY <1>1, SumRules DEF TotalOf
<1>3. ASSUME NEW k, k \notin K, Q[k].amount \in Nat
      PROVE  TotalOf(Q, K \cup {k}) = TotalOf(Q, K) + Q[k].amount
  <2> DEFINE g == [j \in K \cup {k} |-> Q[j].amount]
  <2>1. /\ \A j \in K : g[j] \in Int /\ h[j] = g[j]
        /\ g[k] = Q[k].amount /\ g[k] \in Int
    BY <1>3
  <2>2. TotalOf(Q, K \cup {k}) = SumFunctionOnSet(g, K \cup {k}) /\ TotalOf(Q, K) = SumFunctionOnSet(h, K)
    BY DEF TotalOf
  <2> HIDE DEF g, h
  <2>3. SumFunctionOnSet(g, K \cup {k}) = g[k] + SumFunctionOnSet(g, K)
    BY <1>3, <2>1, SumOfOneMore
  <2>4. SumFunctionOnSet(g, K) = SumFunctionOnSet(h, K) /\ SumFunctionOnSet(g, K) \in Int
    BY <2>1, SumOfSame, SumRules
  <2> QED
    BY <2>1, <2>2, <2>3, <2>4
<1> QED
  BY <1>2, <1>3

LEMMA ExecuteLedgerInv ==
  ASSUME LedgerConstants, LedgerInv, NEW k \in Keys, NEW s \in Users, NEW r \in Users,
         NEW c \in Currencies, NEW a \in 1..Limit[c], Execute(k, s, r, c, a)
  PROVE  LedgerInv'
<1> DEFINE row == [sender |-> s, receiver |-> r, currency |-> c, amount |-> a,
                   status |-> "SUCCESS"]
<1>1. /\ row \in [sender : Users, receiver : Users, currency : Currencies,
                  amount : Nat, status : {"SUCCESS"}]
      /\ row.sender = s /\ row.receiver = r /\ row.currency = c /\ row.amount = a
      /\ a \in Nat
  BY DEF LedgerConstants
<1>2. row # None
  BY <1>1 DEF LedgerConstants
<1>3. /\ rows[k] = None /\ a <= balance[s][c] /\ rows' = [rows EXCEPT ![k] = row]
  BY DEF Execute
<1> HIDE DEF row
<1>4. rows'[k] = row /\ \A j \in Keys \ {k} : rows'[j] = rows[j]
  BY <1>3 DEF LedgerInv, BookOK
<1>5. Executed' = Executed \cup {k}
  BY <1>2, <1>4 DEF Executed
<1>6. /\ balance' \in [Users -> [Currencies -> Int]]
      /\ \A u \in Users, d \in Currencies :
        balance'[u][d] = balance[u][d] + (IF u = r /\ d = c THEN a ELSE 0)
                                       - (IF u = s /\ d = c THEN a ELSE 0)
  <2>1. balance' = Moved(balance, s, r, c, a)
    BY DEF Execute, Moved
  <2>2. balance \in [Users -> [Currencies -> Int]] /\ a \in Int
    BY <1>1 DEF LedgerInv, BookOK
  <2>3. Differs(Moved(balance, s, r, c, a), Users, Currencies, balance, s, r, c, a)
    BY <2>2, MovedBook
  <2> QED
    BY <2>1, <2>3 DEF Differs
<1>7. BookOK'
  <2>1. balance' \in [Users -> [Currencies -> Int]]
    BY <1>6
  <2>2. rows' \in [Keys -> [sender : Users, receiver : Users, currency : Currencies,
                        amount : Nat, status : {"SUCCESS"}] \cup {None}]
    BY <1>1, <1>3 DEF LedgerInv, BookOK
  <2>3. IsFiniteSet(Executed')
    BY <1>5, FS_AddElement DEF LedgerInv, BookOK
  <2>4. ASSUME NEW u \in Users, NEW d \in Currencies PROVE balance'[u][d] >= 0
    <3>1. balance[u][d] \in Int /\ balance[u][d] >= 0
      BY DEF LedgerInv, BookOK
    <3> QED
      BY <1>1, <1>3, <1>6, <3>1
  <2> QED
    BY <2>1, <2>2, <2>3, <2>4 DEF BookOK
<1>8. ASSUME NEW K \in SUBSET Executed
      PROVE  /\ Total(K) \in Int /\ TotalOf(rows', K) = Total(K)
             /\ TotalOf(rows', K \cup {k}) = Total(K) + a
  <2>1. IsFiniteSet(K) /\ k \notin K
    BY <1>3, FS_Subset DEF LedgerInv, BookOK, Executed
  <2>2. \A j \in K : rows[j].amount \in Nat /\ rows'[j] = rows[j]
    BY <1>3, <1>4 DEF LedgerInv, BookOK, Executed
  <2>3. rows'[k].amount = a /\ a \in Nat
    BY <1>1, <1>4
  <2>4. Total(K) = TotalOf(rows, K)
    BY DEF Total, TotalOf
  <2> QED
    BY <2>1, <2>2, <2>3, <2>4, TotalRules
<1>9. ASSUME NEW u \in Users, NEW d \in Currencies
      PROVE  /\ Received(u, d)' = Received(u, d) \cup (IF u = r /\ d = c THEN {k} ELSE {})
             /\ Sent(u, d)' = Sent(u, d) \cup (IF u = s /\ d = c THEN {k} ELSE {})
             /\ Received(u, d) \subseteq Executed /\ Sent(u, d) \subseteq Executed
  BY <1>1, <1>2, <1>3, <1>4 DEF Received, Sent, Executed
<1>10. ASSUME NEW u \in Users, NEW d \in Currencies
       PROVE  balance'[u][d] = InitialBalance[u][d] + Total(Received(u, d))' - Total(Sent(u, d))'
  <2>1. /\ Received(u, d) \in SUBSET Executed /\ Sent(u, d) \in SUBSET Executed
        /\ Received(u, d)' = Received(u, d) \cup (IF u = r /\ d = c THEN {k} ELSE {})
        /\ Sent(u, d)' = Sent(u, d) \cup (IF u = s /\ d = c THEN {k} ELSE {})
    BY <1>9
  <2>2. /\ Total(Received(u, d))' = TotalOf(rows', Received(u, d)')
        /\ Total(Sent(u, d))' = TotalOf(rows', Sent(u, d)')
    BY DEF Total, TotalOf
  <2>3. /\ Total(Received(u, d)) \in Int
        /\ Total(Received(u, d))' = Total(Received(u, d)) + (IF u = r /\ d = c THEN a ELSE 0)
    <3>1. CASE u = r /\ d = c
      BY <1>8, <2>1, <2>2, <3>1
    <3>2. CASE ~(u = r /\ d = c)
      <4>1. Received(u, d)' = Received(u, d)
        BY <2>1, <3>2
      <4>2. Total(Received(u, d))' = Total(Received(u, d)) /\ Total(Received(u, d)) \in Int
        BY <1>8, <2>1, <2>2, <4>1
      <4> QED
        BY <3>2, <4>2
    <3> QED
      BY <3>1, <3>2
  <2>4. /\ Total(Sent(u, d)) \in Int
        /\ Total(Sent(u, d))' = Total(Sent(u, d)) + (IF u = s /\ d = c THEN a ELSE 0)
    <3>1. CASE u = s /\ d = c
      BY <1>8, <2>1, <2>2, <3>1
    <3>2. CASE ~(u = s /\ d = c)
      <4>1. Sent(u, d)' = Sent(u, d)
        BY <2>1, <3>2
      <4>2. Total(Sent(u, d))' = Total(Sent(u, d)) /\ Total(Sent(u, d)) \in Int
        BY <1>8, <2>1, <2>2, <4>1
      <4> QED
        BY <3>2, <4>2
    <3> QED
      BY <3>1, <3>2
  <2>5. balance[u][d] = InitialBalance[u][d] + Total(Received(u, d)) - Total(Sent(u, d))
    BY DEF LedgerInv, BooksBalance
  <2>6. InitialBalance[u][d] \in Int
    BY DEF LedgerConstants
  <2>7. balance'[u][d] = balance[u][d] + (IF u = r /\ d = c THEN a ELSE 0)
                                       - (IF u = s /\ d = c THEN a ELSE 0)
    BY <1>6
  <2> QED
    BY <1>1, <2>3, <2>4, <2>5, <2>6, <2>7
<1>11. BooksBalance'
  BY <1>10 DEF BooksBalance
<1> QED
  BY <1>7, <1>11 DEF LedgerInv

LEMMA NextLedgerInv == ASSUME LedgerConstants, LedgerInv, [Next]_vars PROVE LedgerInv'
<1>1. CASE Next
  BY <1>1, ExecuteLedgerInv DEF Next
<1>2. CASE UNCHANGED vars
  <2>1. balance' = balance /\ rows' = rows
    BY <1>2 DEF vars
  <2>2. Executed' = Executed
    BY <2>1 DEF Executed
  <2>3. BookOK'
    BY <2>1, <2>2 DEF LedgerInv, BookOK
  <2>4. BooksBalance'
    BY <2>1 DEF LedgerInv, BooksBalance, Total, Received, Sent
  <2> QED
    BY <2>3, <2>4 DEF LedgerInv
<1> QED
  BY <1>1, <1>2

(* However many transfers are executed, every balance is the initial one   *)
(* plus what they brought in minus what they took out, and is never        *)
(* negative.                                                               *)
THEOREM LedgerIsKept == ASSUME LedgerConstants PROVE Spec => []LedgerInv
<1>1. Init => LedgerInv
  BY InitLedgerInv
<1>2. LedgerInv /\ [Next]_vars => LedgerInv'
  BY NextLedgerInv
<1> QED
  BY <1>1, <1>2, PTL DEF Spec

-----------------------------------------------------------------------------
(* Conservation. *)

LEMMA ExecuteConserves ==
  ASSUME LedgerConstants, LedgerInv, IsFiniteSet(Users), [Next]_vars, NEW d \in Currencies
  PROVE  Money(balance, d)' = Money(balance, d)
<1>1. CASE UNCHANGED vars
  BY <1>1 DEF vars, Money
<1>2. ASSUME NEW k \in Keys, NEW s \in Users, NEW r \in Users, NEW c \in Currencies,
             NEW a \in 1..Limit[c], Execute(k, s, r, c, a)
      PROVE  Money(balance, d)' = Money(balance, d)
  <2> DEFINE f == [u \in Users |-> balance[u][d]]
             h == [u \in Users |-> balance'[u][d]]
  <2>1. Money(balance, d) = SumFunctionOnSet(f, Users)
    BY DEF Money
  <2>2. Money(balance, d)' = SumFunctionOnSet(h, Users)
    BY DEF Money
  <2>3. /\ a \in Int /\ \A u \in Users : f[u] \in Int
        /\ d = c /\ s # r => h[s] = f[s] - a /\ h[r] = f[r] + a
        /\ \A u \in Users : d # c \/ s = r \/ u \notin {s, r} => h[u] = f[u]
    BY <1>2 DEF Execute, LedgerInv, BookOK, LedgerConstants
  <2> HIDE DEF f, h
  <2>4. CASE d = c /\ s # r
    BY <2>1, <2>2, <2>3, <2>4, SumOfMoved
  <2>5. CASE d # c \/ s = r
    BY <2>1, <2>2, <2>3, <2>5, SumOfSame
  <2> QED
    BY <2>4, <2>5
<1> QED
  BY <1>1, <1>2 DEF Next

(* The money in all wallets together is always what it was at the start.   *)
THEOREM LedgerConserves ==
  ASSUME LedgerConstants, IsFiniteSet(Users) PROVE Spec => []MoneyIsConserved
<1>1. Init => MoneyIsConserved
  BY DEF Init, MoneyIsConserved
<1>2. LedgerInv /\ MoneyIsConserved /\ [Next]_vars => MoneyIsConserved'
  BY ExecuteConserves DEF MoneyIsConserved, Money
<1> QED
  BY <1>1, <1>2, LedgerIsKept, PTL DEF Spec
=============================================================================
