--------------------------- MODULE TransfersProofs ---------------------------
(***************************************************************************)
(* Proofs about Transfers, for any users, keys, payloads, limits, wallet   *)
(* order and number of requests.                                           *)
(***************************************************************************)
EXTENDS Transfers, DataLemmas, TLAPS

-----------------------------------------------------------------------------
(* The inductive invariant.  What a request knows at each stage: its       *)
(* payload passed the validation, its row is the only open one under its   *)
(* key, the wallets it checked are locked by it, its workspace holds the   *)
(* writes made so far, and the sender's money is still there.              *)

Debited == {"credit", "finish", "commit"}
Credited == {"finish", "commit"}
Funded == {"debit"} \cup Debited
Locked == {"check"} \cup Funded
Inserted == {"lockFirst", "lockSecond"} \cup Locked

Valid(d) ==
  /\ d.receiver \in Users
  /\ d.amount <= Limit[d.currency]

DtoInv(r) ==
  /\ pc[r] # "idle" => dto[r] \in Payloads
  /\ pc[r] \in TxStages \cup {"begin", "reply"} => Valid(dto[r])

StatusInv(r) ==
  /\ pc[r] \notin Inserted => status[r] = None
  /\ pc[r] \in Inserted \ {"commit"} => status[r] = "PENDING"
  /\ pc[r] = "commit" => status[r] = "SUCCESS"

KeyInv(r) ==
  pc[r] \in Inserted =>
    /\ rows[dto[r].key] = None
    /\ \A q \in Requests : q # r /\ pc[q] \in Inserted => dto[q].key # dto[r].key

LockInv(r) ==
  /\ pc[r] = "lockSecond" => lock[FirstWallet(dto[r])] = r
  /\ pc[r] \in Locked => lock[dto[r].sender] = r /\ lock[dto[r].receiver] = r

DebitOf(d, u, c) == IF u = d.sender /\ c = d.currency THEN -d.amount ELSE 0
CreditOf(d, u, c) == IF u = d.receiver /\ c = d.currency THEN d.amount ELSE 0

PendingInv(r) ==
  \A u \in Users, c \in Currencies :
    /\ pc[r] \notin Debited => pending[r][u][c] = 0
    /\ pc[r] = "credit" => pending[r][u][c] = DebitOf(dto[r], u, c)
    /\ pc[r] \in Credited =>
         pending[r][u][c] = DebitOf(dto[r], u, c) + CreditOf(dto[r], u, c)

FundsInv(r) ==
  pc[r] \in Funded => balance[dto[r].sender][dto[r].currency] >= dto[r].amount

RequestInv(r) ==
  /\ DtoInv(r)
  /\ StatusInv(r)
  /\ KeyInv(r)
  /\ LockInv(r)
  /\ PendingInv(r)
  /\ FundsInv(r)

MoneyInv ==
  /\ TypeOK
  /\ \A r \in Requests : RequestInv(r)
  /\ NoOverdraft

-----------------------------------------------------------------------------

LEMMA InitMoneyInv == Init => MoneyInv
<1> SUFFICES ASSUME Init PROVE MoneyInv
  OBVIOUS
<1> USE DEF Init
<1>1. TypeOK
  BY BalanceAssumption, NoneAssumption DEF TypeOK, Balances, NoChange
<1>2. ASSUME NEW r \in Requests PROVE RequestInv(r)
  BY DEF RequestInv, DtoInv, StatusInv, KeyInv, LockInv, PendingInv, FundsInv,
         TxStages, Inserted, Locked, Funded, Debited, Credited, NoChange
<1>3. NoOverdraft
  BY BalanceAssumption DEF NoOverdraft
<1> QED
  BY <1>1, <1>2, <1>3 DEF MoneyInv

(* A payload's fields, for the provers. *)
LEMMA PayloadFields ==
  ASSUME NEW d \in Payloads
  PROVE  /\ d.sender \in Users
         /\ d.currency \in Currencies
         /\ d.amount \in Nat /\ d.amount > 0
         /\ d.key \in Keys
         /\ d.receiver \in Users \cup Strangers
         /\ d # None
  BY PayloadsAssumption, NoneAssumption DEF Payload

(* What ending a transaction leaves behind has the right type. *)
LEMMA EndTxType ==
  ASSUME TypeOK, NEW r \in Requests, EndTx(r)
  PROVE  /\ lock' \in [Users -> Requests \cup {None}]
         /\ status' \in [Requests -> {"PENDING", "SUCCESS", None}]
         /\ trail' \in [Requests -> SUBSET LogAction]
         /\ pending' \in [Requests -> Balances]
  BY DEF TypeOK, EndTx, NoChange, Balances

(* A valid payload names two wallets, which are locked in some order. *)
LEMMA WalletsOfPayload ==
  ASSUME NEW d \in Payloads, Valid(d)
  PROVE  /\ FirstWallet(d) \in Users
         /\ SecondWallet(d) \in Users
         /\ {FirstWallet(d), SecondWallet(d)} = {d.sender, d.receiver}
  BY PayloadFields DEF Valid, FirstWallet, SecondWallet

LEMMA StepType ==
  ASSUME MoneyInv, NEW r \in Requests, Receive(r) \/ Step(r) \/ Abort(r)
  PROVE  TypeOK'
<1> USE DEF vars, committed, workspace, Running, TxStages
<1>0. TypeOK /\ RequestInv(r)
  BY DEF MoneyInv
<1>1. CASE Receive(r)
  BY <1>0, <1>1 DEF TypeOK, Receive, Goto
<1>2. CASE Lookup(r)
  BY <1>0, <1>2, PayloadFields DEF TypeOK, Lookup, Goto, Answer, Success, Answers, Row, RequestInv, DtoInv
<1>3. CASE Validate(r)
  BY <1>0, <1>3 DEF TypeOK, Validate, Goto, Answer, Refusal, Answers
<1>4. CASE Begin(r)
  BY <1>0, <1>4 DEF TypeOK, Begin, Goto
<1>5. CASE Insert(r)
  BY <1>0, <1>5, EndTxType DEF TypeOK, Insert, Goto, LogAction
<1>6. CASE FindDup(r)
  BY <1>0, <1>6, PayloadFields DEF TypeOK, FindDup, Goto, Answer, Success, Refusal, Answers, Row, RequestInv, DtoInv
<1>7. CASE LockFirst(r)
  BY <1>0, <1>7, PayloadFields DEF TypeOK, LockFirst, LockAndGet, RowLock, Goto
<1>8. CASE LockSecond(r)
  BY <1>0, <1>8, PayloadFields DEF TypeOK, LockSecond, LockAndGet, RowLock, Goto
<1>9. CASE CheckBalance(r)
  BY <1>0, <1>9, EndTxType DEF TypeOK, CheckBalance, Goto, Answer, Refusal, Answers, LogAction
<1>10. CASE Debit(r)
  BY <1>0, <1>10, PayloadFields DEF TypeOK, Debit, Increment, RowLock, Goto, Balances, RequestInv, DtoInv
<1>11. CASE Credit(r)
  <2>1. dto[r] \in Payloads
    BY <1>0, <1>11 DEF Credit, RequestInv, DtoInv
  <2>2. CASE EndTx(r) /\ Answer(r, Refusal("error"))
    BY <1>0, <1>11, <2>2, EndTxType DEF TypeOK, Credit, Answer, Goto, Refusal, Answers
  <2>3. CASE /\ Increment(r, dto[r].receiver, dto[r].currency, dto[r].amount)
             /\ Goto(r, "finish")
             /\ UNCHANGED <<status, trail, answer>>
    <3>1. dto[r].receiver \in Users
      BY <1>0, <1>11 DEF Credit, RequestInv, DtoInv, Valid
    <3> QED
      BY <1>0, <1>11, <2>1, <2>3, <3>1, PayloadFields
      DEF TypeOK, Credit, Increment, RowLock, Goto, Balances
  <2> QED
    BY <1>11, <2>2, <2>3 DEF Credit
<1>12. CASE Finish(r)
  BY <1>0, <1>12 DEF TypeOK, Finish, Goto, LogAction
<1>13. CASE Commit(r)
  <2>1. dto[r] \in Payloads /\ Valid(dto[r]) /\ status[r] = "SUCCESS"
    BY <1>0, <1>13 DEF Commit, RequestInv, DtoInv, StatusInv
  <2>2. RowOf(dto[r], status[r]) \in Row
    BY <2>1, PayloadFields DEF RowOf, Row, Valid
  <2>3. rows' \in [Keys -> Row \cup {None}]
    BY <1>0, <1>13, <2>1, <2>2, PayloadFields DEF Commit, TypeOK
  <2>4. balance' \in Balances
    BY <1>0, <1>13 DEF Commit, TypeOK, Seen, Balances
  <2>5. audit' \in [Keys -> SUBSET LogAction]
    BY <1>0, <1>13 DEF Commit, TypeOK
  <2>6. /\ pc' \in [Requests -> Running \cup {"idle", "done", "lost"}]
        /\ dto' \in [Requests -> Payloads \cup {None}]
        /\ answer' \in [Requests -> Answers \cup {None}]
    BY <1>0, <1>13 DEF Commit, TypeOK, Goto, Answer, Refusal, Answers
  <2> QED
    BY <1>0, <1>13, <2>3, <2>4, <2>5, <2>6, EndTxType DEF Commit, TypeOK
<1>14. CASE Reply(r)
  BY <1>0, <1>14, PayloadFields DEF TypeOK, Reply, Goto, Answer, Success, RowOf, Answers, Row, RequestInv, DtoInv, Valid
<1>15. CASE Abort(r)
  BY <1>0, <1>15, EndTxType DEF TypeOK, Abort, Goto, Answer, Refusal, Answers
<1> QED
  BY <1>1, <1>2, <1>3, <1>4, <1>5, <1>6, <1>7, <1>8, <1>9, <1>10, <1>11,
     <1>12, <1>13, <1>14, <1>15 DEF Step

LEMMA StepOwn ==
  ASSUME MoneyInv, NEW r \in Requests, Receive(r) \/ Step(r) \/ Abort(r)
  PROVE  RequestInv(r)'
<1> USE DEF committed, workspace, Running, TxStages, Inserted, Locked, Funded,
            Debited, Credited, RequestInv, DtoInv, StatusInv, KeyInv, LockInv,
            PendingInv, FundsInv
<1>0. TypeOK /\ \A q \in Requests : RequestInv(q)
  BY DEF MoneyInv
<1>1. CASE Receive(r)
  BY <1>0, <1>1 DEF TypeOK, Receive, Goto
<1>2. CASE Lookup(r)
  BY <1>0, <1>2 DEF TypeOK, Lookup, Goto, Answer
<1>3. CASE Validate(r)
  BY <1>0, <1>3 DEF TypeOK, Validate, Goto, Answer, Valid
<1>4. CASE Begin(r)
  BY <1>0, <1>4 DEF TypeOK, Begin, Goto
<1>5. CASE Insert(r)
  <2>1. CASE rows[dto[r].key] = None
    <3>1. \A q \in Requests : q # r /\ pc[q] \in Inserted => dto[q].key # dto[r].key
      BY <1>0, <1>5, NoneAssumption DEF Insert, KeyTaken
    <3> QED
      BY <1>0, <1>5, <2>1, <3>1 DEF TypeOK, Insert, Goto
  <2>2. CASE rows[dto[r].key] # None
    BY <1>0, <1>5, <2>2 DEF TypeOK, Insert, Goto, EndTx, NoChange
  <2> QED
    BY <2>1, <2>2
<1>6. CASE FindDup(r)
  BY <1>0, <1>6 DEF TypeOK, FindDup, Goto, Answer
<1>7. CASE LockFirst(r)
  <2>1. FirstWallet(dto[r]) \in Users
    BY <1>0, <1>7, WalletsOfPayload DEF LockFirst
  <2>2. lock'[FirstWallet(dto[r])] = r
    BY <1>0, <1>7, <2>1 DEF TypeOK, LockFirst, LockAndGet, RowLock
  <2> QED
    BY <1>0, <1>7, <2>2 DEF TypeOK, LockFirst, Goto
<1>8. CASE LockSecond(r)
  <2>1. lock'[SecondWallet(dto[r])] = r /\ lock'[FirstWallet(dto[r])] = r
    BY <1>0, <1>8, WalletsOfPayload DEF TypeOK, LockSecond, LockAndGet, RowLock
  <2>2. lock'[dto[r].sender] = r /\ lock'[dto[r].receiver] = r
    BY <1>0, <1>8, <2>1, WalletsOfPayload DEF LockSecond
  <2> QED
    BY <1>0, <1>8, <2>2 DEF TypeOK, LockSecond, Goto
<1>9. CASE CheckBalance(r)
  <2>1. dto[r] \in Payloads /\ pending[r][dto[r].sender][dto[r].currency] = 0
    BY <1>0, <1>9, PayloadFields DEF CheckBalance
  <2>2. CASE EndTx(r) /\ Answer(r, Refusal("insufficient"))
    BY <1>0, <1>9, <2>2 DEF TypeOK, CheckBalance, Answer, Goto, EndTx, NoChange
  <2>3. CASE /\ Seen(r, dto[r].sender, dto[r].currency) >= dto[r].amount
             /\ Goto(r, "debit")
             /\ UNCHANGED <<lock, status, pending, answer>>
    <3>1. balance[dto[r].sender][dto[r].currency] >= dto[r].amount
      BY <1>0, <2>1, <2>3, PayloadFields DEF Seen, TypeOK, Balances
    <3> QED
      BY <1>0, <1>9, <2>3, <3>1 DEF TypeOK, CheckBalance, Goto
  <2> QED
    BY <1>9, <2>2, <2>3 DEF CheckBalance
<1>10. CASE Debit(r)
  <2>1. dto[r] \in Payloads /\ lock[dto[r].sender] = r
    BY <1>0, <1>10 DEF Debit
  <2>2. lock' = lock
    BY <1>0, <1>10, <2>1, PayloadFields DEF TypeOK, Debit, Increment, RowLock
  <2>3. ASSUME NEW u \in Users, NEW c \in Currencies
        PROVE  pending'[r][u][c] = DebitOf(dto[r], u, c)
    <3>1. pending[r][u][c] = 0
      BY <1>0, <1>10 DEF Debit
    <3> QED
      BY <1>0, <1>10, <2>1, <3>1, PayloadFields
      DEF TypeOK, Balances, Debit, Increment, DebitOf
  <2> QED
    BY <1>0, <1>10, <2>2, <2>3 DEF TypeOK, Debit, Goto
<1>11. CASE Credit(r)
  <2>1. dto[r] \in Payloads /\ dto[r].receiver \in Users /\ lock[dto[r].receiver] = r
    BY <1>0, <1>11 DEF Credit, Valid
  <2>2. CASE EndTx(r) /\ Answer(r, Refusal("error"))
    BY <1>0, <1>11, <2>2 DEF TypeOK, Credit, Answer, Goto, EndTx, NoChange
  <2>3. CASE /\ Increment(r, dto[r].receiver, dto[r].currency, dto[r].amount)
             /\ Goto(r, "finish")
             /\ UNCHANGED <<status, trail, answer>>
    <3>1. lock' = lock
      BY <1>0, <2>1, <2>3 DEF TypeOK, Increment, RowLock
    <3>2. ASSUME NEW u \in Users, NEW c \in Currencies
          PROVE  pending'[r][u][c] = DebitOf(dto[r], u, c) + CreditOf(dto[r], u, c)
      <4>1. pending[r][u][c] = DebitOf(dto[r], u, c)
        BY <1>0, <1>11 DEF Credit
      <4>2. DebitOf(dto[r], u, c) \in Int /\ dto[r].amount \in Nat
        BY <2>1, PayloadFields DEF DebitOf
      <4> QED
        BY <1>0, <2>1, <2>3, <4>1, <4>2, PayloadFields
        DEF TypeOK, Balances, Increment, CreditOf
    <3> QED
      BY <1>0, <1>11, <2>3, <3>1, <3>2 DEF TypeOK, Credit, Goto
  <2> QED
    BY <1>11, <2>2, <2>3 DEF Credit
<1>12. CASE Finish(r)
  BY <1>0, <1>12 DEF TypeOK, Finish, Goto
<1>13. CASE Commit(r)
  BY <1>0, <1>13 DEF TypeOK, Commit, Goto, Answer, EndTx, NoChange
<1>14. CASE Reply(r)
  BY <1>0, <1>14 DEF TypeOK, Reply, Goto, Answer
<1>15. CASE Abort(r)
  BY <1>0, <1>15 DEF TypeOK, Abort, Goto, Answer, EndTx, NoChange
<1> QED
  BY <1>1, <1>2, <1>3, <1>4, <1>5, <1>6, <1>7, <1>8, <1>9, <1>10, <1>11,
     <1>12, <1>13, <1>14, <1>15 DEF Step

(* A step of r leaves the state of another request, and the row locks the  *)
(* other holds, as they are.                                               *)
LEMMA StepFrame ==
  ASSUME MoneyInv, NEW r \in Requests, Receive(r) \/ Step(r) \/ Abort(r),
         NEW q \in Requests, q # r
  PROVE  /\ pc'[q] = pc[q] /\ dto'[q] = dto[q] /\ status'[q] = status[q]
         /\ trail'[q] = trail[q] /\ pending'[q] = pending[q]
         /\ answer'[q] = answer[q]
         /\ \A u \in Users : lock[u] = q => lock'[u] = q
<1> USE NoneAssumption DEF committed, workspace, Goto, Answer, EndTx
<1>0. TypeOK
  BY DEF MoneyInv
<1>1. CASE Receive(r) \/ Lookup(r) \/ Validate(r) \/ Begin(r) \/ FindDup(r)
  BY <1>0, <1>1 DEF TypeOK, Receive, Lookup, Validate, Begin, FindDup
<1>2. CASE Insert(r) \/ Finish(r) \/ Reply(r) \/ Abort(r)
  BY <1>0, <1>2 DEF TypeOK, Insert, Finish, Reply, Abort
<1>3. CASE LockFirst(r) \/ LockSecond(r)
  BY <1>0, <1>3 DEF TypeOK, LockFirst, LockSecond, LockAndGet, RowLock
<1>4. CASE CheckBalance(r) \/ Commit(r)
  BY <1>0, <1>4 DEF TypeOK, CheckBalance, Commit
<1>5. CASE Debit(r) \/ Credit(r)
  BY <1>0, <1>5 DEF TypeOK, Debit, Credit, Increment, RowLock
<1> QED
  BY <1>1, <1>2, <1>3, <1>4, <1>5 DEF Step

(* What a commit adds to a balance: nothing outside the two wallets it has *)
(* locked, and never more than the sender has.                             *)
LEMMA CommitEffect ==
  ASSUME MoneyInv, NEW r \in Requests, Commit(r), NEW u \in Users, NEW c \in Currencies
  PROVE  /\ balance[u][c] \in Int
         /\ dto[r] \in Payloads /\ Valid(dto[r])
         /\ balance'[u][c] = balance[u][c] + DebitOf(dto[r], u, c) + CreditOf(dto[r], u, c)
         /\ u \notin {dto[r].sender, dto[r].receiver} => balance'[u][c] = balance[u][c]
         /\ balance[u][c] >= 0 => balance'[u][c] >= 0
<1>1. /\ TypeOK
      /\ dto[r] \in Payloads /\ Valid(dto[r])
      /\ pending[r][u][c] = DebitOf(dto[r], u, c) + CreditOf(dto[r], u, c)
      /\ balance[dto[r].sender][dto[r].currency] >= dto[r].amount
  BY DEF MoneyInv, RequestInv, DtoInv, PendingInv, FundsInv, Commit, TxStages,
         Funded, Debited, Credited
<1>2. balance[u][c] \in Int
  BY <1>1 DEF TypeOK, Balances
<1>3. balance'[u][c] = balance[u][c] + pending[r][u][c]
  BY DEF Commit, Seen
<1> QED
  BY <1>1, <1>2, <1>3, PayloadFields DEF DebitOf, CreditOf, Valid

LEMMA StepOthers ==
  ASSUME MoneyInv, NEW r \in Requests, Receive(r) \/ Step(r) \/ Abort(r),
         NEW q \in Requests, q # r
  PROVE  RequestInv(q)'
<1>0. TypeOK /\ RequestInv(q) /\ RequestInv(r)
  BY DEF MoneyInv
<1>1. /\ pc'[q] = pc[q] /\ dto'[q] = dto[q] /\ status'[q] = status[q]
      /\ pending'[q] = pending[q]
      /\ \A u \in Users : lock[u] = q => lock'[u] = q
  BY StepFrame
<1>2. DtoInv(q)' /\ StatusInv(q)' /\ PendingInv(q)'
  BY <1>0, <1>1 DEF RequestInv, DtoInv, StatusInv, PendingInv
<1>3. pc[q] \in TxStages => dto[q] \in Payloads /\ Valid(dto[q])
  BY <1>0 DEF RequestInv, DtoInv, TxStages
<1>4. LockInv(q)'
  BY <1>0, <1>1, <1>3, WalletsOfPayload, PayloadFields
  DEF RequestInv, LockInv, Locked, Funded, Debited, TxStages, Valid, FirstWallet,
      SenderFirst
<1>5. KeyInv(q)'
  <2> SUFFICES ASSUME pc[q] \in Inserted
               PROVE  /\ rows'[dto[q].key] = None
                      /\ \A p \in Requests : p # q /\ pc'[p] \in Inserted
                                             => dto'[p].key # dto[q].key
    BY <1>1 DEF KeyInv
  <2>1. rows[dto[q].key] = None
        /\ \A p \in Requests : p # q /\ pc[p] \in Inserted => dto[p].key # dto[q].key
    BY <1>0 DEF RequestInv, KeyInv
  <2>2. \A p \in Requests \ {r} : pc'[p] = pc[p] /\ dto'[p] = dto[p]
    BY StepFrame
  <2>3. pc'[r] \in Inserted => dto'[r].key # dto[q].key
    <3>1. RequestInv(r)'
      BY StepOwn
    <3> QED
      BY <1>1, <3>1 DEF RequestInv, KeyInv
  <2>4. rows'[dto[q].key] = None
    <3>1. CASE Commit(r)
      BY <1>0, <2>1, <3>1 DEF TypeOK, Commit, Inserted, Locked, Funded, Debited
    <3>2. CASE ~Commit(r)
      BY <2>1, <3>2 DEF Step, Receive, Lookup, Validate, Begin, Insert, FindDup,
         LockFirst, LockSecond, CheckBalance, Debit, Credit, Finish, Reply, Abort,
         committed
    <3> QED
      BY <3>1, <3>2
  <2> QED
    BY <2>1, <2>2, <2>3, <2>4
<1>6. FundsInv(q)'
  <2> SUFFICES ASSUME pc[q] \in Funded
               PROVE  balance'[dto[q].sender][dto[q].currency] >= dto[q].amount
    BY <1>1 DEF FundsInv
  <2>1. /\ balance[dto[q].sender][dto[q].currency] >= dto[q].amount
        /\ lock[dto[q].sender] = q
    BY <1>0 DEF RequestInv, FundsInv, LockInv, Locked
  <2>2. dto[q].sender \in Users /\ dto[q].currency \in Currencies
    BY <1>3, PayloadFields DEF Funded, Debited, TxStages
  <2>3. CASE Commit(r)
    <3>1. dto[q].sender \notin {dto[r].sender, dto[r].receiver}
      BY <1>0, <2>1, <2>3 DEF RequestInv, LockInv, Commit, Locked, Funded, Debited
    <3> QED
      BY <2>1, <2>2, <2>3, <3>1, CommitEffect
  <2>4. CASE ~Commit(r)
    BY <2>1, <2>4 DEF Step, Receive, Lookup, Validate, Begin, Insert, FindDup,
       LockFirst, LockSecond, CheckBalance, Debit, Credit, Finish, Reply, Abort,
       committed
  <2> QED
    BY <2>3, <2>4
<1> QED
  BY <1>2, <1>4, <1>5, <1>6 DEF RequestInv

LEMMA StepNoOverdraft ==
  ASSUME MoneyInv, NEW r \in Requests, Receive(r) \/ Step(r) \/ Abort(r)
  PROVE  NoOverdraft'
<1>1. CASE Commit(r)
  BY <1>1, CommitEffect DEF MoneyInv, NoOverdraft
<1>2. CASE ~Commit(r)
  BY <1>2 DEF MoneyInv, NoOverdraft, Step, Receive, Lookup, Validate, Begin,
     Insert, FindDup, LockFirst, LockSecond, CheckBalance, Debit, Credit, Finish,
     Reply, Abort, committed
<1> QED
  BY <1>1, <1>2

LEMMA CrashMoneyInv ==
  ASSUME MoneyInv, Crash
  PROVE  MoneyInv'
<1>0. TypeOK /\ NoOverdraft /\ \A q \in Requests : RequestInv(q)
  BY DEF MoneyInv
<1>1. TypeOK'
  BY <1>0 DEF TypeOK, Crash, committed, Balances, NoChange
<1>2. ASSUME NEW q \in Requests PROVE RequestInv(q)'
  <2>1. pc'[q] \in {"idle", "done", "lost"} /\ dto'[q] = dto[q]
        /\ status'[q] = None /\ pending'[q] = NoChange
        /\ (pc'[q] # "idle" => pc[q] # "idle")
    BY <1>0 DEF TypeOK, Crash, Running, TxStages
  <2> QED
    BY <1>0, <2>1 DEF RequestInv, DtoInv, StatusInv, KeyInv, LockInv, PendingInv,
       FundsInv, TxStages, Inserted, Locked, Funded, Debited, Credited, NoChange
<1>3. NoOverdraft'
  BY <1>0 DEF NoOverdraft, Crash, committed
<1> QED
  BY <1>1, <1>2, <1>3 DEF MoneyInv

LEMMA NextMoneyInv == MoneyInv /\ [Next]_vars => MoneyInv'
<1> SUFFICES ASSUME MoneyInv, [Next]_vars PROVE MoneyInv'
  OBVIOUS
<1>1. CASE UNCHANGED vars
  BY <1>1 DEF MoneyInv, vars, committed, workspace, TypeOK, RequestInv, DtoInv,
     StatusInv, KeyInv, LockInv, PendingInv, FundsInv, NoOverdraft
<1>2. CASE Crash
  BY <1>2, CrashMoneyInv
<1>3. ASSUME NEW r \in Requests, Receive(r) \/ Step(r) \/ Abort(r)
      PROVE  MoneyInv'
  <2>1. TypeOK' /\ NoOverdraft' /\ RequestInv(r)'
    BY <1>3, StepType, StepNoOverdraft, StepOwn
  <2>2. \A q \in Requests : RequestInv(q)'
    BY <1>3, <2>1, StepOthers
  <2> QED
    BY <2>1, <2>2 DEF MoneyInv
<1> QED
  BY <1>1, <1>2, <1>3 DEF Next

-----------------------------------------------------------------------------
(* The handler's state always has the shape of its code and schema, for    *)
(* every number of users, keys and concurrent requests.                    *)
THEOREM TypeCorrect == Spec => []TypeOK
<1>1. MoneyInv => TypeOK
  BY DEF MoneyInv
<1> QED
  BY <1>1, InitMoneyInv, NextMoneyInv, PTL DEF Spec

(* send never overdraws a wallet, however requests interleave, abort or    *)
(* crash: the row locks keep what CheckBalance read true until COMMIT.     *)
THEOREM NeverOverdrawn == Spec => []NoOverdraft
<1>1. MoneyInv => NoOverdraft
  BY DEF MoneyInv
<1> QED
  BY <1>1, InitMoneyInv, NextMoneyInv, PTL DEF Spec

-----------------------------------------------------------------------------
(* The handler implements the ledger.                                      *)

LEMMA InitLedger == Init => L!Init
  BY DEF Init, L!Init

LEMMA CommitIsExecute ==
  ASSUME MoneyInv, NEW r \in Requests, Commit(r)
  PROVE  L!Next
<1> DEFINE d == dto[r]
<1>1. /\ TypeOK /\ d \in Payloads /\ Valid(d)
      /\ rows[d.key] = None /\ status[r] = "SUCCESS"
      /\ balance[d.sender][d.currency] >= d.amount
  BY DEF MoneyInv, RequestInv, DtoInv, StatusInv, KeyInv, FundsInv, Commit,
         TxStages, Inserted, Locked, Funded, Debited
<1>2. /\ d.key \in Keys /\ d.sender \in Users /\ d.receiver \in Users
      /\ d.currency \in Currencies /\ d.amount \in 1..Limit[d.currency]
      /\ balance[d.sender][d.currency] \in Int
  BY <1>1, PayloadFields, LimitAssumption DEF Valid, TypeOK, Balances
<1> DEFINE b == Moved(balance, d.sender, d.receiver, d.currency, d.amount)
<1>3. balance' = b
  <2>0. /\ balance \in [Users -> [Currencies -> Int]] /\ d.amount \in Int
    BY <1>1, <1>2 DEF TypeOK, Balances
  <2> HIDE DEF d
  <2>1. /\ b \in [Users -> [Currencies -> Int]]
        /\ \A u \in Users, c \in Currencies :
             b[u][c] = balance[u][c] + (IF u = d.receiver /\ c = d.currency THEN d.amount ELSE 0)
                                     - (IF u = d.sender /\ c = d.currency THEN d.amount ELSE 0)
    <3>1. Differs(b, Users, Currencies, balance, d.sender, d.receiver, d.currency, d.amount)
      BY <1>2, <2>0, MovedBook
    <3> QED
      BY <3>1 DEF Differs
  <2>2. b \in Balances /\ balance' \in Balances
    <3>1. TypeOK'
      BY StepType DEF Step
    <3> QED
      BY <2>1, <3>1 DEF TypeOK, Balances
  <2>3. ASSUME NEW u \in Users, NEW c \in Currencies PROVE balance'[u][c] = b[u][c]
    <3>1. balance'[u][c] = balance[u][c] + DebitOf(d, u, c) + CreditOf(d, u, c)
      BY CommitEffect DEF d
    <3>2. d.amount \in Int /\ balance[u][c] \in Int
      BY <2>0
    <3> QED
      BY <2>1, <3>1, <3>2 DEF DebitOf, CreditOf
  <2>4. ASSUME NEW u \in Users PROVE balance'[u] = b[u]
    <3> HIDE DEF b
    <3>1. /\ balance'[u] \in [Currencies -> Int] /\ b[u] \in [Currencies -> Int]
          /\ \A c \in Currencies : balance'[u][c] = b[u][c]
      BY <2>2, <2>3 DEF Balances
    <3> QED
      BY <3>1
  <2> HIDE DEF b
  <2> QED
    BY <2>2, <2>4 DEF Balances
<1>4. rows' = [rows EXCEPT ![d.key] =
                 [sender |-> d.sender, receiver |-> d.receiver,
                  currency |-> d.currency, amount |-> d.amount,
                  status |-> "SUCCESS"]]
  BY <1>1 DEF Commit, RowOf
<1>5. L!Execute(d.key, d.sender, d.receiver, d.currency, d.amount)
  BY <1>1, <1>2, <1>3, <1>4 DEF L!Execute, Moved
<1> QED
  BY <1>2, <1>5 DEF L!Next

LEMMA NextLedger == MoneyInv /\ [Next]_vars => [L!Next]_(L!vars)
<1> SUFFICES ASSUME MoneyInv, [Next]_vars PROVE [L!Next]_(L!vars)
  OBVIOUS
<1>1. CASE UNCHANGED vars \/ Crash
  BY <1>1 DEF vars, Crash, committed, L!vars
<1>2. ASSUME NEW r \in Requests, Receive(r) \/ Step(r) \/ Abort(r)
      PROVE  [L!Next]_(L!vars)
  <2>1. CASE Commit(r)
    BY <2>1, CommitIsExecute
  <2>2. CASE ~Commit(r)
    BY <1>2, <2>2 DEF Step, Receive, Lookup, Validate, Begin, Insert, FindDup,
       LockFirst, LockSecond, CheckBalance, Debit, Credit, Finish, Reply, Abort,
       committed, L!vars
  <2> QED
    BY <2>1, <2>2
<1> QED
  BY <1>1, <1>2 DEF Next

(* Every behaviour of the concurrent handler, with its retries, aborts and *)
(* crashes, is a behaviour of the ledger: money moves only by whole        *)
(* transfers, at most once per idempotency key, within limit and balance.  *)
THEOREM ImplementsLedger == Spec => LedgerSpec
<1> QED
  BY InitLedger, InitMoneyInv, NextMoneyInv, NextLedger, PTL
  DEF Spec, LedgerSpec, L!Spec

(* So the books of the platform balance: what is proved of the ledger is   *)
(* true of the wallets and the rows the handler commits.                   *)
B == INSTANCE LedgerProofs

LEMMA BooksConstants == B!LedgerConstants
  BY BalanceAssumption, LimitAssumption, NoneAssumption DEF B!LedgerConstants, Row

LEMMA ImplementsBooks == Spec => B!Spec
<1>1. L!Spec => B!Spec
  BY DEF L!Spec, B!Spec, L!Init, B!Init, L!Next, B!Next, L!vars, B!vars, L!Execute, B!Execute
<1> QED
  BY <1>1, ImplementsLedger DEF LedgerSpec

(* Every balance is the initial one plus what the committed transactions   *)
(* brought in minus what they took out, for any number of requests that    *)
(* overlap, fail, are retried or are cut off by a crash.                   *)
THEOREM BooksAreBalanced == Spec => []LedgerMatchesRows
<1>1. B!LedgerInv => LedgerMatchesRows
  <2>1. B!BooksBalance = L!BooksBalance
    BY DEF B!BooksBalance, L!BooksBalance, B!Total, L!Total, B!Received, L!Received,
           B!Sent, L!Sent, B!SumFunctionOnSet, L!SumFunctionOnSet,
           B!FoldFunctionOnSet, L!FoldFunctionOnSet, B!MapThenFoldSet, L!MapThenFoldSet
  <2> QED
    BY <2>1 DEF B!LedgerInv, LedgerMatchesRows
<1>2. B!Spec => []B!LedgerInv
  BY BooksConstants, B!LedgerIsKept
<1> QED
  BY <1>1, <1>2, ImplementsBooks, PTL

(* Nothing a request, a retry or a crash does makes money or loses it: the *)
(* wallets together always hold what they held at the start.               *)
THEOREM MoneyIsKept == ASSUME IsFiniteSet(Users) PROVE Spec => []L!MoneyIsConserved
<1>1. B!MoneyIsConserved => L!MoneyIsConserved
  BY DEF B!MoneyIsConserved, L!MoneyIsConserved, B!Money, L!Money,
         B!SumFunctionOnSet, L!SumFunctionOnSet,
         B!FoldFunctionOnSet, L!FoldFunctionOnSet, B!MapThenFoldSet, L!MapThenFoldSet
<1>2. B!Spec => []B!MoneyIsConserved
  <2>1. B!IsFiniteSet(Users)
    BY DEF IsFiniteSet, B!IsFiniteSet
  <2> QED
    BY <2>1, BooksConstants, B!LedgerConserves
<1> QED
  BY <1>1, <1>2, ImplementsBooks, PTL

-----------------------------------------------------------------------------
(* Every transaction answered is the committed one.                        *)

TrailInv(r) ==
  /\ pc[r] \in {"lockFirst", "lockSecond", "check"} => trail[r] = {"TRANSACTION_INIT"}
  /\ pc[r] \in {"debit", "credit", "finish"} =>
       trail[r] = {"TRANSACTION_INIT", "PAYMENT_ATTEMPT"}
  /\ pc[r] = "commit" => trail[r] = SuccessTrail

RowsInv ==
  \A k \in Keys : audit[k] = IF rows[k] = None THEN {} ELSE SuccessTrail

AnswerInv(r) ==
  /\ pc[r] = "reply" => rows[dto[r].key] = RowOf(dto[r], "SUCCESS")
  /\ pc[r] # "done" => answer[r] = None
  /\ answer[r] # None /\ answer[r].code = "ok" =>
       /\ pc[r] = "done"
       /\ answer[r].row = rows[dto[r].key]
       /\ answer[r].row \in Row

SettledInv ==
  /\ MoneyInv
  /\ RowsInv
  /\ \A r \in Requests : TrailInv(r) /\ AnswerInv(r)

LEMMA InitSettledInv == Init => SettledInv
  BY InitMoneyInv, NoneAssumption
  DEF SettledInv, Init, RowsInv, TrailInv, AnswerInv

(* A committed row never changes, and a record is never None. *)
LEMMA RowsAreKept ==
  ASSUME MoneyInv, [Next]_vars, NEW k \in Keys, rows[k] # None
  PROVE  rows'[k] = rows[k]
<1>1. CASE UNCHANGED L!vars
  BY <1>1 DEF L!vars
<1>2. ASSUME NEW j \in Keys, NEW s, NEW t, NEW c, NEW a, L!Execute(j, s, t, c, a)
      PROVE  rows'[k] = rows[k]
  BY <1>2 DEF L!Execute, MoneyInv, TypeOK
<1> QED
  BY <1>1, <1>2, NextLedger DEF L!Next

LEMMA RowIsNotNone == \A x \in Row : x # None
  BY NoneAssumption

LEMMA StepSettled ==
  ASSUME SettledInv, NEW r \in Requests, Receive(r) \/ Step(r) \/ Abort(r)
  PROVE  RowsInv' /\ TrailInv(r)' /\ AnswerInv(r)'
<1> USE DEF committed, workspace, Goto
<1>0. /\ MoneyInv /\ TypeOK /\ RequestInv(r)
      /\ RowsInv /\ TrailInv(r) /\ AnswerInv(r)
  BY DEF SettledInv, MoneyInv
<1>1. CASE Receive(r)
  BY <1>0, <1>1 DEF TypeOK, Receive, RowsInv, TrailInv, AnswerInv
<1>2. CASE Lookup(r)
  BY <1>0, <1>2, PayloadFields
  DEF TypeOK, Lookup, Answer, Success, RowsInv, TrailInv, AnswerInv, RequestInv, DtoInv
<1>3. CASE Validate(r)
  BY <1>0, <1>3 DEF TypeOK, Validate, Answer, Refusal, RowsInv, TrailInv, AnswerInv
<1>4. CASE Begin(r)
  BY <1>0, <1>4 DEF TypeOK, Begin, RowsInv, TrailInv, AnswerInv
<1>5. CASE Insert(r)
  BY <1>0, <1>5 DEF TypeOK, Insert, EndTx, RowsInv, TrailInv, AnswerInv
<1>6. CASE FindDup(r)
  BY <1>0, <1>6, PayloadFields
  DEF TypeOK, FindDup, Answer, Success, Refusal, RowsInv, TrailInv, AnswerInv, RequestInv, DtoInv
<1>7. CASE LockFirst(r) \/ LockSecond(r)
  BY <1>0, <1>7 DEF TypeOK, LockFirst, LockSecond, RowsInv, TrailInv, AnswerInv
<1>8. CASE CheckBalance(r)
  BY <1>0, <1>8 DEF TypeOK, CheckBalance, Answer, Refusal, RowsInv, TrailInv, AnswerInv
<1>9. CASE Debit(r) \/ Credit(r)
  <2>1. CASE Debit(r)
    BY <1>0, <2>1 DEF TypeOK, Debit, RowsInv, TrailInv, AnswerInv
  <2>2. CASE Credit(r)
    BY <1>0, <2>2 DEF TypeOK, Credit, Answer, Refusal, RowsInv, TrailInv, AnswerInv
  <2> QED
    BY <1>9, <2>1, <2>2
<1>10. CASE Finish(r)
  BY <1>0, <1>10 DEF TypeOK, Finish, SuccessTrail, LogAction, RowsInv, TrailInv, AnswerInv
<1>11. CASE Commit(r)
  <2>1. /\ dto[r] \in Payloads /\ dto[r].key \in Keys /\ Valid(dto[r])
        /\ status[r] = "SUCCESS" /\ rows[dto[r].key] = None
    BY <1>0, <1>11, PayloadFields
    DEF Commit, RequestInv, DtoInv, StatusInv, KeyInv, TxStages, Inserted, Locked,
        Funded, Debited
  <2>2. RowOf(dto[r], "SUCCESS") \in Row
    BY <2>1, PayloadFields DEF RowOf, Row, Valid
  <2>3. audit[dto[r].key] \cup trail[r] = SuccessTrail
    BY <1>0, <1>11, <2>1 DEF Commit, RowsInv, TrailInv
  <2>4. RowsInv'
    BY <1>0, <1>11, <2>1, <2>2, <2>3, RowIsNotNone DEF TypeOK, Commit, RowsInv
  <2> QED
    BY <1>0, <1>11, <2>1, <2>4
    DEF TypeOK, Commit, Answer, Refusal, TrailInv, AnswerInv
<1>12. CASE Reply(r)
  <2>1. dto[r] \in Payloads /\ RowOf(dto[r], "SUCCESS") \in Row
    BY <1>0, <1>12, PayloadFields DEF Reply, RequestInv, DtoInv, RowOf, Row, Valid
  <2> QED
    BY <1>0, <1>12, <2>1
    DEF TypeOK, Reply, Answer, Success, RowsInv, TrailInv, AnswerInv
<1>13. CASE Abort(r)
  BY <1>0, <1>13 DEF TypeOK, Abort, Answer, Refusal, RowsInv, TrailInv, AnswerInv
<1> QED
  BY <1>1, <1>2, <1>3, <1>4, <1>5, <1>6, <1>7, <1>8, <1>9, <1>10, <1>11, <1>12,
     <1>13 DEF Step

LEMMA NextSettledInv == SettledInv /\ [Next]_vars => SettledInv'
<1> SUFFICES ASSUME SettledInv, [Next]_vars PROVE SettledInv'
  OBVIOUS
<1>0. MoneyInv /\ TypeOK /\ MoneyInv'
  BY NextMoneyInv DEF SettledInv, MoneyInv
<1>1. CASE UNCHANGED vars
  BY <1>0, <1>1 DEF SettledInv, vars, committed, workspace, RowsInv, TrailInv, AnswerInv
<1>2. CASE Crash
  BY <1>0, <1>2 DEF SettledInv, Crash, committed, RowsInv, TrailInv, AnswerInv, TypeOK,
     Running, TxStages
<1>3. ASSUME NEW r \in Requests, Receive(r) \/ Step(r) \/ Abort(r)
      PROVE  SettledInv'
  <2>1. RowsInv' /\ TrailInv(r)' /\ AnswerInv(r)'
    BY <1>3, StepSettled
  <2>2. ASSUME NEW q \in Requests, q # r PROVE TrailInv(q)' /\ AnswerInv(q)'
    <3>1. /\ pc'[q] = pc[q] /\ dto'[q] = dto[q] /\ trail'[q] = trail[q]
          /\ answer'[q] = answer[q]
      BY <1>0, <1>3, <2>2, StepFrame
    <3>2. TrailInv(q) /\ AnswerInv(q) /\ DtoInv(q)
      BY DEF SettledInv, MoneyInv, RequestInv
    <3>3. pc[q] \in {"reply", "done"} => dto[q] \in Payloads /\ dto[q].key \in Keys
      BY <3>2, PayloadFields DEF DtoInv
    <3>4. pc[q] = "reply" => RowOf(dto[q], "SUCCESS") \in Row
      BY <3>2, <3>3, PayloadFields DEF DtoInv, RowOf, Row, Valid
    <3> QED
      BY <1>0, <3>1, <3>2, <3>3, <3>4, RowsAreKept, RowIsNotNone DEF TrailInv, AnswerInv
  <2> QED
    BY <1>0, <2>1, <2>2 DEF SettledInv
<1> QED
  BY <1>1, <1>2, <1>3 DEF Next

(* Whatever request of a key is answered with a transaction, first, retry  *)
(* or duplicate, is answered with the one committed SUCCESS row of that    *)
(* key, whose four audit logs are committed with it.                       *)
THEOREM AnswersAreSettled == Spec => []AnsweredAsSettled
<1>1. SettledInv => AnsweredAsSettled
  <2> SUFFICES ASSUME SettledInv, NEW r \in Requests, answer[r] # None,
                      answer[r].code = "ok"
               PROVE  /\ answer[r].row = rows[dto[r].key]
                      /\ answer[r].row.status = "SUCCESS"
                      /\ audit[dto[r].key] = SuccessTrail
    BY DEF AnsweredAsSettled
  <2>1. /\ pc[r] = "done" /\ answer[r].row = rows[dto[r].key]
        /\ answer[r].row \in Row /\ dto[r].key \in Keys
    BY PayloadFields DEF SettledInv, AnswerInv, MoneyInv, RequestInv, DtoInv
  <2> QED
    BY <2>1, RowIsNotNone DEF SettledInv, RowsInv, Row
<1> QED
  BY <1>1, InitSettledInv, NextSettledInv, PTL DEF Spec

(* A committed transaction and its audit are final: no retry, duplicate,   *)
(* failure or crash ever changes them.                                     *)
THEOREM PaymentsAreFinal ==
  Spec => [][\A k \in Keys : rows[k] # None => rows'[k] = rows[k] /\ audit'[k] = audit[k]]_vars
<1>1. SettledInv /\ [Next]_vars =>
        [\A k \in Keys : rows[k] # None => rows'[k] = rows[k] /\ audit'[k] = audit[k]]_vars
  <2> SUFFICES ASSUME SettledInv, [Next]_vars, NEW k \in Keys, rows[k] # None
               PROVE  rows'[k] = rows[k] /\ audit'[k] = audit[k]
    OBVIOUS
  <2>1. rows'[k] = rows[k]
    BY RowsAreKept DEF SettledInv
  <2>2. RowsInv /\ RowsInv'
    BY NextSettledInv DEF SettledInv
  <2> QED
    BY <2>1, <2>2 DEF RowsInv, SuccessTrail, LogAction
<1> QED
  BY <1>1, InitSettledInv, NextSettledInv, PTL DEF Spec

-----------------------------------------------------------------------------
(* Transactions never wait in a circle.                                    *)

(* A row lock belongs to a request that has passed LockFirst, and is on a  *)
(* wallet it has asked for.                                                *)
HolderInv ==
  \A u \in Users, q \in Requests :
    lock[u] = q =>
      \/ pc[q] = "lockSecond" /\ u = FirstWallet(dto[q])
      \/ pc[q] \in Locked /\ u \in {dto[q].sender, dto[q].receiver}

LEMMA InitHolderInv == Init => HolderInv
  BY NoneAssumption DEF Init, HolderInv

LEMMA StepHolder ==
  ASSUME MoneyInv, HolderInv, NEW r \in Requests, Receive(r) \/ Step(r) \/ Abort(r),
         NEW u \in Users, lock'[u] = r
  PROVE  \/ pc'[r] = "lockSecond" /\ u = FirstWallet(dto'[r])
         \/ pc'[r] \in Locked /\ u \in {dto'[r].sender, dto'[r].receiver}
<1> USE NoneAssumption DEF committed, workspace, Goto, Locked, Funded, Debited, Credited
<1>0. TypeOK /\ RequestInv(r)
  BY DEF MoneyInv
<1>1. CASE Receive(r) \/ Lookup(r) \/ Validate(r) \/ Begin(r) \/ FindDup(r) \/ Reply(r)
  BY <1>0, <1>1 DEF TypeOK, Receive, Lookup, Validate, Begin, FindDup, Reply, HolderInv
<1>2. CASE Insert(r)
  BY <1>0, <1>2 DEF TypeOK, Insert, EndTx, HolderInv
<1>3. CASE LockFirst(r)
  BY <1>0, <1>3 DEF TypeOK, LockFirst, LockAndGet, RowLock, HolderInv
<1>4. CASE LockSecond(r)
  <2>1. dto[r] \in Payloads /\ Valid(dto[r])
    BY <1>0, <1>4 DEF LockSecond, RequestInv, DtoInv, TxStages
  <2>2. u \in {FirstWallet(dto[r]), SecondWallet(dto[r])}
    BY <1>0, <1>4 DEF TypeOK, LockSecond, LockAndGet, RowLock, HolderInv
  <2> QED
    BY <1>0, <1>4, <2>1, <2>2, WalletsOfPayload DEF TypeOK, LockSecond
<1>5. CASE Debit(r)
  BY <1>0, <1>5 DEF TypeOK, Debit, Increment, RowLock, HolderInv
<1>6. CASE Credit(r)
  BY <1>0, <1>6 DEF TypeOK, Credit, Increment, RowLock, EndTx, HolderInv
<1>7. CASE CheckBalance(r)
  BY <1>0, <1>7 DEF TypeOK, CheckBalance, EndTx, HolderInv
<1>8. CASE Finish(r)
  BY <1>0, <1>8 DEF TypeOK, Finish, HolderInv
<1>9. CASE Commit(r) \/ Abort(r)
  BY <1>0, <1>9 DEF Commit, Abort, EndTx
<1> QED
  BY <1>1, <1>2, <1>3, <1>4, <1>5, <1>6, <1>7, <1>8, <1>9 DEF Step

LEMMA NextHolderInv == MoneyInv /\ HolderInv /\ [Next]_vars => HolderInv'
<1> SUFFICES ASSUME MoneyInv, HolderInv, [Next]_vars PROVE HolderInv'
  OBVIOUS
<1>1. CASE UNCHANGED vars
  BY <1>1 DEF HolderInv, vars
<1>2. CASE Crash
  BY <1>2, NoneAssumption DEF HolderInv, Crash
<1>3. ASSUME NEW r \in Requests, Receive(r) \/ Step(r) \/ Abort(r)
      PROVE  HolderInv'
  <2>1. ASSUME NEW u \in Users, NEW q \in Requests, lock'[u] = q
        PROVE  \/ pc'[q] = "lockSecond" /\ u = FirstWallet(dto'[q])
               \/ pc'[q] \in Locked /\ u \in {dto'[q].sender, dto'[q].receiver}
    <3>1. CASE q = r
      BY <1>3, <2>1, <3>1, StepHolder
    <3>2. CASE q # r
      <4>1. pc'[q] = pc[q] /\ dto'[q] = dto[q]
        BY <1>3, <3>2, StepFrame
      <4>2. lock[u] = q
        BY <1>3, <2>1, <3>2, NoneAssumption
        DEF MoneyInv, TypeOK, Step, Receive, Lookup, Validate, Begin, Insert, FindDup,
            LockFirst, LockSecond, CheckBalance, Debit, Credit, Finish, Commit, Reply,
            Abort, EndTx, LockAndGet, RowLock, Increment, workspace
      <4> QED
        BY <4>1, <4>2 DEF HolderInv
    <3> QED
      BY <3>1, <3>2
  <2> QED
    BY <2>1 DEF HolderInv
<1> QED
  BY <1>1, <1>2, <1>3 DEF Next

(* Only a request past LockFirst is waited for by one that locks wallets,  *)
(* and one that waits for its second wallet waits for a higher first one.  *)
LEMMA WaitsGoUp ==
  ASSUME MoneyInv, HolderInv, NEW r \in Requests, NEW q \in Requests, WaitsFor(r, q)
  PROVE  /\ pc[r] \in {"insert", "lockFirst", "lockSecond"}
         /\ pc[q] \in Inserted
         /\ pc[r] # "insert" => pc[q] = "lockSecond" \/ pc[q] \in Locked
         /\ pc[r] = "lockSecond" /\ pc[q] = "lockSecond" =>
              /\ FirstWallet(dto[r]) \in Users /\ FirstWallet(dto[q]) \in Users
              /\ WalletRank[FirstWallet(dto[r])] < WalletRank[FirstWallet(dto[q])]
<1>1. RequestInv(r) /\ RequestInv(q)
  BY DEF MoneyInv
<1>2. CASE pc[r] = "insert"
  BY <1>1, <1>2 DEF WaitsFor, RequestInv, StatusInv
<1>3. CASE pc[r] \in {"lockFirst", "lockSecond"}
  <2>1. dto[r] \in Payloads /\ Valid(dto[r])
    BY <1>1, <1>3 DEF RequestInv, DtoInv, TxStages
  <2> DEFINE w == IF pc[r] = "lockFirst" THEN FirstWallet(dto[r]) ELSE SecondWallet(dto[r])
  <2>2. w \in Users /\ lock[w] = q
    BY <1>3, <2>1, WalletsOfPayload DEF WaitsFor
  <2>3. \/ pc[q] = "lockSecond" /\ w = FirstWallet(dto[q])
        \/ pc[q] \in Locked
    BY <2>2 DEF HolderInv
  <2>4. FirstWallet(dto[r]) \in Users
    BY <2>1, WalletsOfPayload
  <2>5. ASSUME pc[r] = "lockSecond"
        PROVE  WalletRank[FirstWallet(dto[r])] < WalletRank[SecondWallet(dto[r])]
    <3>1. lock[FirstWallet(dto[r])] = r
      BY <1>1, <2>5 DEF RequestInv, LockInv
    <3>2. FirstWallet(dto[r]) # SecondWallet(dto[r])
      BY <2>2, <2>5, <3>1 DEF WaitsFor
    <3> QED
      BY <2>1, <3>2, PayloadFields, WalletRankAssumption
      DEF Valid, FirstWallet, SecondWallet, SenderFirst
  <2>6. pc[r] = "lockSecond" /\ pc[q] = "lockSecond" =>
          /\ FirstWallet(dto[q]) = SecondWallet(dto[r])
    BY <2>3 DEF Locked, Funded, Debited
  <2> QED
    BY <1>3, <2>2, <2>3, <2>4, <2>5, <2>6 DEF Inserted
<1> QED
  BY <1>2, <1>3 DEF WaitsFor

LEMMA NoCircle == MoneyInv /\ HolderInv => NoWaitCycle
<1> SUFFICES ASSUME MoneyInv, HolderInv,
                    NEW S \in SUBSET Requests, S # {},
                    \A r \in S : \E q \in S : WaitsFor(r, q)
             PROVE  FALSE
  BY DEF NoWaitCycle
<1>1. \A r \in S : pc[r] \in {"insert", "lockFirst", "lockSecond"}
  BY WaitsGoUp
<1>2. \A r \in S : pc[r] # "lockSecond" => pc[r] \notin Locked
  BY <1>1 DEF Locked, Funded, Debited
<1>3. \E r \in S : pc[r] \in {"lockFirst", "lockSecond"}
  <2>1. PICK r \in S : TRUE
    OBVIOUS
  <2>2. PICK q \in S : WaitsFor(r, q)
    BY <2>1
  <2>3. pc[q] \in Inserted
    BY <2>1, <2>2, WaitsGoUp
  <2> QED
    BY <1>1, <2>2, <2>3 DEF Inserted, Locked, Funded, Debited
<1>4. \E r \in S : pc[r] = "lockSecond"
  <2>1. PICK r \in S : pc[r] \in {"lockFirst", "lockSecond"}
    BY <1>3
  <2>2. PICK q \in S : WaitsFor(r, q)
    BY <2>1
  <2> QED
    BY <1>2, <2>1, <2>2, WaitsGoUp
<1> DEFINE Top(r) == MaxRank - WalletRank[FirstWallet(dto[r])]
           T == {Top(r) : r \in {q \in S : pc[q] = "lockSecond"}}
<1>5. \A r \in S : pc[r] = "lockSecond" =>
        FirstWallet(dto[r]) \in Users /\ WalletRank[FirstWallet(dto[r])] \in 0..MaxRank
  BY WalletsOfPayload, WalletRankAssumption DEF MoneyInv, RequestInv, DtoInv, TxStages
<1>6. T \in SUBSET Nat /\ T # {}
  BY <1>4, <1>5, WalletRankAssumption
<1>7. PICK r \in S : pc[r] = "lockSecond" /\ \A k \in T : Top(r) <= k
  BY <1>6, LeastNatural
<1>8. PICK q \in S : WaitsFor(r, q)
  BY <1>7
<1>9. pc[q] = "lockSecond"
  BY <1>2, <1>7, <1>8, WaitsGoUp
<1>10. Top(q) \in T
  BY <1>9
<1>11. WalletRank[FirstWallet(dto[r])] < WalletRank[FirstWallet(dto[q])]
  BY <1>7, <1>8, <1>9, WaitsGoUp
<1>12. Top(r) <= Top(q)
  BY <1>7, <1>10
<1>13. /\ WalletRank[FirstWallet(dto[r])] \in Int
       /\ WalletRank[FirstWallet(dto[q])] \in Int
       /\ MaxRank \in Int
  BY <1>5, <1>7, <1>9, WalletRankAssumption
<1> QED
  BY <1>11, <1>12, <1>13

(* Locking wallets in the order of their ids keeps send free of deadlock:  *)
(* in any set of open transactions one waits for none of the others.       *)
THEOREM DeadlockFree == Spec => []NoWaitCycle
  BY InitMoneyInv, NextMoneyInv, InitHolderInv, NextHolderInv, NoCircle, PTL DEF Spec

-----------------------------------------------------------------------------
(* What of EveryRequestEnds holds without fairness: the handler never      *)
(* stands still, and every step brings it nearer to its end.               *)

(* Nothing that r's next await needs is held by somebody else: neither a   *)
(* connection, nor the index entry of its key, nor the lock of a wallet.   *)
MayGoOn(r) ==
  /\ pc[r] \in Running
  /\ pc[r] = "begin" => Cardinality({q \in Requests : InTx(q)}) < PoolSize
  /\ pc[r] = "insert" => ~KeyTaken(r)
  /\ pc[r] = "lockFirst" => lock[FirstWallet(dto[r])] \in {None, r}
  /\ pc[r] = "lockSecond" => lock[SecondWallet(dto[r])] \in {None, r}
  /\ pc[r] = "debit" => lock[dto[r].sender] \in {None, r}
  /\ pc[r] = "credit" => lock[dto[r].receiver] \in {None, r}

NeverStandsStill ==
  (\E r \in Requests : pc[r] \in Running) => \E r \in Requests : MayGoOn(r)

(* A running request outside transactions is held up by the pool alone, a  *)
(* transaction by the transactions it waits for.                           *)
LEMMA TransactionGoesOn ==
  ASSUME MoneyInv, HolderInv, NEW r \in Requests, InTx(r),
         \A q \in {p \in Requests : InTx(p)} : ~WaitsFor(r, q)
  PROVE  MayGoOn(r)
<1>1. TypeOK /\ RequestInv(r)
  BY DEF MoneyInv
<1>2. \A q \in Requests : ~WaitsFor(r, q)
  BY WaitsGoUp DEF InTx, Inserted, Locked, Funded, Debited, TxStages
<1>3. pc[r] = "insert" => ~KeyTaken(r)
  BY <1>2 DEF KeyTaken, WaitsFor
<1>4. pc[r] \in {"lockFirst", "lockSecond"}
        => FirstWallet(dto[r]) \in Users /\ SecondWallet(dto[r]) \in Users
  BY <1>1, WalletsOfPayload DEF RequestInv, DtoInv, TxStages
<1>5. /\ pc[r] = "lockFirst" => lock[FirstWallet(dto[r])] \in {None, r}
      /\ pc[r] = "lockSecond" => lock[SecondWallet(dto[r])] \in {None, r}
  BY <1>1, <1>2, <1>4 DEF TypeOK, WaitsFor
<1>6. pc[r] \in {"debit", "credit"} => lock[dto[r].sender] = r /\ lock[dto[r].receiver] = r
  BY <1>1 DEF RequestInv, LockInv, Locked, Funded, Debited
<1> QED
  BY <1>3, <1>5, <1>6 DEF MayGoOn, InTx, Running, TxStages

(* Whatever is running, one request can take its next step, whatever the   *)
(* pool, the unique index and the row locks are held by: transactions wait *)
(* for no request outside them, and never for each other in a circle.      *)
THEOREM SomebodyGoesOn == Spec => []NeverStandsStill
<1>1. MoneyInv /\ HolderInv => NeverStandsStill
  <2> SUFFICES ASSUME MoneyInv, HolderInv, NEW r \in Requests, pc[r] \in Running
               PROVE  \E q \in Requests : MayGoOn(q)
    BY DEF NeverStandsStill
  <2> DEFINE S == {q \in Requests : InTx(q)}
  <2>1. CASE S # {}
    <3>1. PICK q \in S : \A p \in S : ~WaitsFor(q, p)
      BY <2>1, NoCircle DEF NoWaitCycle
    <3> QED
      BY <3>1, TransactionGoesOn
  <2>2. CASE S = {}
    <3>1. Cardinality(S) < PoolSize
      BY <2>2, FS_EmptySet, PoolAssumption
    <3>2. pc[r] \notin TxStages
      BY <2>2 DEF InTx
    <3> QED
      BY <3>1, <3>2 DEF MayGoOn, TxStages
  <2> QED
    BY <2>1, <2>2
<1> QED
  BY <1>1, InitMoneyInv, NextMoneyInv, InitHolderInv, NextHolderInv, PTL DEF Spec

(* How many steps a request has left at most. *)
Left ==
  [idle |-> 13, lookup |-> 12, validate |-> 11, begin |-> 10, insert |-> 9, lockFirst |-> 8,
   lockSecond |-> 7, check |-> 6, debit |-> 5, credit |-> 4, finish |-> 3, commit |-> 2,
   findDup |-> 1, reply |-> 1, done |-> 0, lost |-> 0]

Work == SumFunctionOnSet([r \in Requests |-> Left[pc[r]]], Requests)

LEMMA StepShortens ==
  ASSUME MoneyInv, NEW r \in Requests, Receive(r) \/ Step(r) \/ Abort(r)
  PROVE  Left[pc'[r]] < Left[pc[r]]
<1>0. TypeOK
  BY DEF MoneyInv
<1> USE DEF Left, Goto, Answer
<1>1. CASE Receive(r) \/ Lookup(r) \/ Validate(r) \/ Begin(r)
  BY <1>0, <1>1 DEF TypeOK, Receive, Lookup, Validate, Begin
<1>2. CASE Insert(r) \/ FindDup(r) \/ LockFirst(r) \/ LockSecond(r)
  BY <1>0, <1>2 DEF TypeOK, Insert, FindDup, LockFirst, LockSecond
<1>3. CASE CheckBalance(r) \/ Debit(r) \/ Credit(r)
  BY <1>0, <1>3 DEF TypeOK, CheckBalance, Debit, Credit
<1>4. CASE Finish(r) \/ Commit(r) \/ Reply(r)
  BY <1>0, <1>4 DEF TypeOK, Finish, Commit, Reply
<1>5. CASE Abort(r)
  BY <1>0, <1>5 DEF TypeOK, Abort, Running, TxStages
<1> QED
  BY <1>1, <1>2, <1>3, <1>4, <1>5 DEF Step

(* A step of the server, or its crash, leaves nobody more to do, and       *)
(* somebody less.                                                          *)
LEMMA SomebodyDoesLess ==
  ASSUME MoneyInv, Next
  PROVE  /\ \A q \in Requests : Left[pc'[q]] <= Left[pc[q]]
         /\ \E q \in Requests : Left[pc'[q]] < Left[pc[q]]
<1>0. TypeOK
  BY DEF MoneyInv
<1>1. \A q \in Requests : Left[pc[q]] \in Int
  BY <1>0 DEF TypeOK, Left, Running, TxStages
<1>2. CASE Crash
  BY <1>0, <1>2 DEF TypeOK, Crash, Left, Running, TxStages
<1>3. ASSUME NEW r \in Requests, Receive(r) \/ Step(r) \/ Abort(r)
      PROVE  /\ \A q \in Requests : Left[pc'[q]] <= Left[pc[q]]
             /\ \E q \in Requests : Left[pc'[q]] < Left[pc[q]]
  <2>1. Left[pc'[r]] < Left[pc[r]]
    BY <1>3, StepShortens
  <2>2. \A q \in Requests \ {r} : pc'[q] = pc[q]
    BY <1>3, StepFrame
  <2>3. TypeOK'
    BY <1>3, StepType
  <2>4. Left[pc'[r]] \in Int
    BY <2>3 DEF TypeOK, Left, Running, TxStages
  <2> QED
    BY <1>1, <2>1, <2>2, <2>4
<1> QED
  BY <1>2, <1>3 DEF Next

LEMMA WorkIsDone ==
  ASSUME MoneyInv, IsFiniteSet(Requests), [Next]_vars
  PROVE  Work \in Nat /\ (UNCHANGED vars \/ Work' < Work)
<1> DEFINE f == [r \in Requests |-> Left[pc[r]]]
           h == [r \in Requests |-> Left[pc'[r]]]
           zero == [r \in Requests |-> 0]
<1>1. Work = SumFunctionOnSet(f, Requests) /\ Work' = SumFunctionOnSet(h, Requests)
  BY DEF Work
<1>2. TypeOK /\ TypeOK'
  BY NextMoneyInv DEF MoneyInv
<1>3. \A r \in Requests : f[r] \in Nat /\ h[r] \in Nat
  BY <1>2 DEF TypeOK, Left, Running, TxStages
<1>4. Next => /\ \A q \in Requests : h[q] <= f[q]
              /\ \E q \in Requests : h[q] < f[q]
  BY SomebodyDoesLess
<1> HIDE DEF f, h
<1>5. Next => SumFunctionOnSet(h, Requests) < SumFunctionOnSet(f, Requests)
  BY <1>3, <1>4, SumOfOneSmaller
<1>6. SumFunctionOnSet(f, Requests) \in Nat
  <2>1. \A r \in Requests : f[r] \in Int /\ f[r] >= 0
    BY <1>3
  <2> QED
    BY <2>1, SumOfNaturals
<1> QED
  BY <1>1, <1>5, <1>6

(* So the handler comes to rest: each step of a behaviour lowers a number, *)
(* for any finite number of requests, however they wait for each other,    *)
(* fail or die.  With SomebodyGoesOn, a server that takes the steps it can *)
(* answers every request it does not lose.                                 *)
THEOREM RequestsRunOut ==
  ASSUME IsFiniteSet(Requests) PROVE Spec => [](Work \in Nat) /\ [][Work' < Work]_vars
<1>1. MoneyInv /\ [Next]_vars => Work \in Nat /\ [Work' < Work]_vars
  BY WorkIsDone
<1> QED
  BY <1>1, InitMoneyInv, NextMoneyInv, PTL DEF Spec
=============================================================================
