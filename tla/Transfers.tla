------------------------------ MODULE Transfers ------------------------------
(***************************************************************************)
(* POST /transactions/send: TransactionsService.send with the wallet,      *)
(* audit and Prisma calls it makes, for concurrent requests on PostgreSQL  *)
(* at its default READ COMMITTED isolation.  Each request runs the handler *)
(* one database round trip at a time.  What a request writes inside        *)
(* $transaction stays in its workspace (status, trail, pending) until it   *)
(* commits; a throw, a timeout or a crash discards it.                     *)
(***************************************************************************)
EXTENDS Integers, FiniteSets

CONSTANTS
  Users,            \* accounts; each has the one wallet users.create gives it
  Strangers,        \* receivers that name no account
  Currencies,
  Keys,             \* idempotency keys
  Requests,         \* HTTP requests; a client's retry is one more request
  Payloads,         \* the authenticated sender and body a request may carry
  Limit,            \* TRANSACTION_LIMITS, per currency
  InitialBalance,
  MaxBalance,       \* largest value of a Decimal(18, 2) column
  WalletRank,       \* the order of wallet ids as strings
  MaxRank,          \* the last wallet id: ids are 128-bit UUIDs
  PoolSize,         \* connections of the Prisma pool
  None

Balances == [Users -> [Currencies -> Int]]

(* receiver is what the uuid columns make of the text receiver_id;         *)
(* spelling says whether the text is the id as the server issues it, in    *)
(* lower case: @IsUUID lets other spellings of the same id through.        *)
Payload == [sender : Users, receiver : Users \cup Strangers,
            spelling : {"asIssued", "other"},
            currency : Currencies, amount : Nat \ {0}, key : Keys]

(* A committed row.  FAILED is written by the handler but never committed. *)
Row == [sender : Users, receiver : Users, currency : Currencies,
        amount : Nat, status : {"SUCCESS"}]

(* The columns of the row a request inserts that this model keeps. *)
RowOf(d, st) == [sender |-> d.sender, receiver |-> d.receiver,
                 currency |-> d.currency, amount |-> d.amount, status |-> st]

ASSUME PayloadsAssumption == Payloads \subseteq Payload
ASSUME LimitAssumption == Limit \in [Currencies -> Nat]
ASSUME BalanceAssumption ==
  /\ InitialBalance \in [Users -> [Currencies -> Nat]]
  /\ MaxBalance \in Nat
ASSUME WalletRankAssumption ==
  /\ MaxRank \in Nat
  /\ WalletRank \in [Users -> 0..MaxRank]
  /\ \A u, v \in Users : WalletRank[u] = WalletRank[v] => u = v
ASSUME PoolAssumption == PoolSize \in Nat \ {0}
ASSUME StrangersAssumption == Users \cap Strangers = {}
ASSUME NoneAssumption ==
  None \notin Payload \cup Row \cup Requests \cup {"PENDING", "SUCCESS"}

LogAction == {"TRANSACTION_INIT", "PAYMENT_ATTEMPT", "TRANSACTION_ERROR",
              "TRANSACTION_VALIDATION", "TRANSACTION_SUCCESS"}

VARIABLES
  balance,   \* committed wallets: balance[u][c]
  rows,      \* committed transactions by idempotency_key
  audit,     \* committed transaction_logs by the key of their transaction
  lock,      \* lock[u]: the request holding the row lock of u's wallet
  pc,        \* where each request is in send
  dto,       \* the payload of each request
  status,    \* status column of the row a request has inserted, uncommitted
  trail,     \* logs a request has written, uncommitted
  pending,   \* increments a request has written to wallets, uncommitted
  answer     \* what each request was answered

committed == <<balance, rows, audit>>
workspace == <<status, trail, pending>>
vars == <<committed, lock, pc, dto, workspace, answer>>

TxStages == {"insert", "lockFirst", "lockSecond", "check", "debit", "credit",
             "finish", "commit"}
Running == TxStages \cup {"lookup", "validate", "begin", "findDup", "reply"}

Answers == [code : {"ok", "self", "limit", "notFound", "insufficient", "error"},
            row : Row \cup {None}]

Refusal(code) == [code |-> code, row |-> None]
Success(row) == [code |-> "ok", row |-> row]

NoChange == [u \in Users |-> [c \in Currencies |-> 0]]

Init ==
  /\ balance = InitialBalance
  /\ rows = [k \in Keys |-> None]
  /\ audit = [k \in Keys |-> {}]
  /\ lock = [u \in Users |-> None]
  /\ pc = [r \in Requests |-> "idle"]
  /\ dto = [r \in Requests |-> None]
  /\ status = [r \in Requests |-> None]
  /\ trail = [r \in Requests |-> {}]
  /\ pending = [r \in Requests |-> NoChange]
  /\ answer = [r \in Requests |-> None]

-----------------------------------------------------------------------------
(* Building blocks of the handler. *)

Goto(r, stage) == pc' = [pc EXCEPT ![r] = stage]

Answer(r, a) ==
  /\ Goto(r, "done")
  /\ answer' = [answer EXCEPT ![r] = a]

(* The end of a transaction, either way, empties its workspace and gives   *)
(* its row locks back.                                                     *)
EndTx(r) ==
  /\ lock' = [u \in Users |-> IF lock[u] = r THEN None ELSE lock[u]]
  /\ status' = [status EXCEPT ![r] = None]
  /\ trail' = [trail EXCEPT ![r] = {}]
  /\ pending' = [pending EXCEPT ![r] = NoChange]

(* What r reads: the committed value under what it has itself written. *)
Seen(r, u, c) == balance[u][c] + pending[r][u][c]

(* PostgreSQL's row lock, which r waits for and keeps until it ends. *)
RowLock(r, u) ==
  /\ lock[u] \in {None, r}
  /\ lock' = [lock EXCEPT ![u] = r]

(* const [firstId, secondId] = [senderWallet.id, receiverWallet.id].sort() *)
Unsorted(d) == TRUE
SenderFirst(d) == WalletRank[d.sender] <= WalletRank[d.receiver]
FirstWallet(d) == IF SenderFirst(d) THEN d.sender ELSE d.receiver
SecondWallet(d) == IF SenderFirst(d) THEN d.receiver ELSE d.sender

(* lockAndGet: SELECT ... FOR UPDATE; without FOR UPDATE it locks nothing. *)
PlainSelect(r, u) == UNCHANGED lock
LockAndGet(r, u) == RowLock(r, u)

(* credit and debit: UPDATE ... SET balance = balance + x.  The UPDATE     *)
(* takes the row lock too, which r holds already.                          *)
Increment(r, u, c, x) ==
  /\ RowLock(r, u)
  /\ pending' = [pending EXCEPT ![r][u][c] = @ + x]

-----------------------------------------------------------------------------
(* The handler, in the order it runs. *)

Receive(r) ==
  /\ pc[r] = "idle"
  /\ \E d \in Payloads : dto' = [dto EXCEPT ![r] = d]
  /\ Goto(r, "lookup")
  /\ UNCHANGED <<committed, lock, workspace, answer>>

(* 1) A key that was processed already is answered with its transaction,   *)
(* whatever the rest of the request says.                                  *)
Lookup(r) ==
  /\ pc[r] = "lookup"
  /\ LET existing == rows[dto[r].key]
     IN  \/ /\ existing # None
            /\ Answer(r, Success(existing))
         \/ /\ existing = None
            /\ Goto(r, "validate")
            /\ UNCHANGED answer
  /\ UNCHANGED <<committed, lock, dto, workspace>>

(* dto.receiver_id === senderId compares two texts, the second of which is *)
(* the id the server put into the access token.                            *)
OwnId(d) == d.receiver = d.sender /\ d.spelling = "asIssued"

(* Validate without the limit per transaction. *)
ValidateAnyAmount(r) ==
  /\ pc[r] = "validate"
  /\ dto[r].receiver \in Users /\ ~OwnId(dto[r])
  /\ Goto(r, "begin")
  /\ UNCHANGED <<committed, lock, dto, workspace, answer>>

(* 2) Validations and reads of the two wallets, outside the transaction.   *)
(* The sender's own id in another spelling passes, and is found.           *)
Validate(r) ==
  /\ pc[r] = "validate"
  /\ LET d == dto[r]
     IN  \/ /\ OwnId(d)
            /\ Answer(r, Refusal("self"))
         \/ /\ ~OwnId(d)
            /\ d.amount > Limit[d.currency]
            /\ Answer(r, Refusal("limit"))
         \/ /\ ~OwnId(d)
            /\ d.amount <= Limit[d.currency]
            /\ d.receiver \notin Users
            /\ Answer(r, Refusal("notFound"))
         \/ /\ ~OwnId(d)
            /\ d.amount <= Limit[d.currency]
            /\ d.receiver \in Users
            /\ Goto(r, "begin")
            /\ UNCHANGED answer
  /\ UNCHANGED <<committed, lock, dto, workspace>>

InTx(r) == pc[r] \in TxStages

(* $transaction waits for a free connection of the pool. *)
Begin(r) ==
  /\ pc[r] = "begin"
  /\ Cardinality({q \in Requests : InTx(q)}) < PoolSize
  /\ Goto(r, "insert")
  /\ UNCHANGED <<committed, lock, dto, workspace, answer>>

(* A table whose idempotency_key is not unique: nobody ever waits. *)
NoUniqueIndex(r) == FALSE

(* An uncommitted row of another request under the same key: the unique    *)
(* index makes the second insert wait for the first transaction to end.    *)
KeyTaken(r) ==
  \E q \in Requests \ {r} : status[q] # None /\ dto[q].key = dto[r].key

(* 3) The PENDING row, with its first log; P2002 if the key is committed. *)
Insert(r) ==
  /\ pc[r] = "insert"
  /\ ~KeyTaken(r)
  /\ \/ /\ rows[dto[r].key] = None
        /\ status' = [status EXCEPT ![r] = "PENDING"]
        /\ trail' = [trail EXCEPT ![r] = {"TRANSACTION_INIT"}]
        /\ Goto(r, "lockFirst")
        /\ UNCHANGED <<lock, pending>>
     \/ /\ rows[dto[r].key] # None
        /\ EndTx(r)
        /\ Goto(r, "findDup")
  /\ UNCHANGED <<committed, dto, answer>>

(* The catch of P2002: answer with the transaction that won the race. *)
FindDup(r) ==
  /\ pc[r] = "findDup"
  /\ LET dup == rows[dto[r].key]
     IN  Answer(r, IF dup = None THEN Refusal("error") ELSE Success(dup))
  /\ UNCHANGED <<committed, lock, dto, workspace>>

(* 4) Both wallets are locked, in the order of their ids; a wallet paying  *)
(* itself is locked twice, which PostgreSQL grants its own transaction.    *)
LockFirst(r) ==
  /\ pc[r] = "lockFirst"
  /\ LockAndGet(r, FirstWallet(dto[r]))
  /\ Goto(r, "lockSecond")
  /\ UNCHANGED <<committed, dto, workspace, answer>>

LockSecond(r) ==
  /\ pc[r] = "lockSecond"
  /\ LockAndGet(r, SecondWallet(dto[r]))
  /\ Goto(r, "check")
  /\ UNCHANGED <<committed, dto, workspace, answer>>

(* 5) The balance is read again under the locks.  Too little: the row is   *)
(* set to FAILED and the error is logged, then the throw rolls both back.  *)
CheckBalance(r) ==
  /\ pc[r] = "check"
  /\ LET d == dto[r]
     IN  \/ /\ Seen(r, d.sender, d.currency) < d.amount
            /\ EndTx(r)
            /\ Answer(r, Refusal("insufficient"))
         \/ /\ Seen(r, d.sender, d.currency) >= d.amount
            /\ trail' = [trail EXCEPT ![r] = @ \cup {"PAYMENT_ATTEMPT"}]
            /\ Goto(r, "debit")
            /\ UNCHANGED <<lock, status, pending, answer>>
  /\ UNCHANGED <<committed, dto>>

(* 6) Debit, then credit. *)
Debit(r) ==
  /\ pc[r] = "debit"
  /\ Increment(r, dto[r].sender, dto[r].currency, -dto[r].amount)
  /\ Goto(r, "credit")
  /\ UNCHANGED <<committed, dto, status, trail, answer>>

(* A credit beyond Decimal(18, 2) is a database error: 500 and a rollback. *)
Credit(r) ==
  /\ pc[r] = "credit"
  /\ LET d == dto[r]
     IN  \/ /\ Seen(r, d.receiver, d.currency) + d.amount <= MaxBalance
            /\ Increment(r, d.receiver, d.currency, d.amount)
            /\ Goto(r, "finish")
            /\ UNCHANGED <<status, trail, answer>>
         \/ /\ Seen(r, d.receiver, d.currency) + d.amount > MaxBalance
            /\ EndTx(r)
            /\ Answer(r, Refusal("error"))
  /\ UNCHANGED <<committed, dto>>

(* Finish that leaves the row PENDING. *)
FinishPending(r) ==
  /\ pc[r] = "finish"
  /\ trail' = [trail EXCEPT ![r] =
                 @ \cup {"TRANSACTION_VALIDATION", "TRANSACTION_SUCCESS"}]
  /\ Goto(r, "commit")
  /\ UNCHANGED <<committed, lock, dto, status, pending, answer>>

(* Finish that answers before the transaction commits. *)
FinishAndAnswer(r) ==
  /\ pc[r] = "finish"
  /\ status' = [status EXCEPT ![r] = "SUCCESS"]
  /\ answer' = [answer EXCEPT ![r] = Success(RowOf(dto[r], "SUCCESS"))]
  /\ Goto(r, "commit")
  /\ UNCHANGED <<committed, lock, dto, trail, pending>>

(* 7) SUCCESS, with the validation and success logs. *)
Finish(r) ==
  /\ pc[r] = "finish"
  /\ status' = [status EXCEPT ![r] = "SUCCESS"]
  /\ trail' = [trail EXCEPT ![r] =
                 @ \cup {"TRANSACTION_VALIDATION", "TRANSACTION_SUCCESS"}]
  /\ Goto(r, "commit")
  /\ UNCHANGED <<committed, lock, dto, pending, answer>>

(* COMMIT publishes the workspace.  The server may not hear of it: then    *)
(* the client is answered 500 for a payment that was made.                 *)
Commit(r) ==
  /\ pc[r] = "commit"
  /\ balance' = [u \in Users |-> [c \in Currencies |-> Seen(r, u, c)]]
  /\ rows' = [rows EXCEPT ![dto[r].key] = RowOf(dto[r], status[r])]
  /\ audit' = [audit EXCEPT ![dto[r].key] = @ \cup trail[r]]
  /\ EndTx(r)
  /\ \/ Goto(r, "reply") /\ UNCHANGED answer
     \/ Answer(r, Refusal("error"))
  /\ UNCHANGED dto

Reply(r) ==
  /\ pc[r] = "reply"
  /\ Answer(r, Success(RowOf(dto[r], "SUCCESS")))
  /\ UNCHANGED <<committed, lock, dto, workspace>>

-----------------------------------------------------------------------------
(* Failures. *)

(* A timeout of $transaction (P2028), of the pool, a lost connection or a  *)
(* collision of references: nothing is written and the answer is 500.      *)
Abort(r) ==
  /\ pc[r] \in Running \ {"reply"}
  /\ EndTx(r)
  /\ Answer(r, Refusal("error"))
  /\ UNCHANGED <<committed, dto>>

(* The server process dies: PostgreSQL rolls back what it had open and no  *)
(* request in flight is ever answered.                                     *)
Crash ==
  /\ \E r \in Requests : pc[r] \in Running
  /\ pc' = [r \in Requests |-> IF pc[r] \in Running THEN "lost" ELSE pc[r]]
  /\ lock' = [u \in Users |-> None]
  /\ status' = [r \in Requests |-> None]
  /\ trail' = [r \in Requests |-> {}]
  /\ pending' = [r \in Requests |-> NoChange]
  /\ UNCHANGED <<committed, dto, answer>>

Step(r) ==
  \/ Lookup(r) \/ Validate(r) \/ Begin(r) \/ Insert(r) \/ FindDup(r)
  \/ LockFirst(r) \/ LockSecond(r) \/ CheckBalance(r) \/ Debit(r) \/ Credit(r)
  \/ Finish(r) \/ Commit(r) \/ Reply(r)

Next ==
  \/ \E r \in Requests : Receive(r) \/ Step(r) \/ Abort(r)
  \/ Crash

Spec == Init /\ [][Next]_vars

(* The event loop runs a request whose database call has returned, and     *)
(* PostgreSQL grants a free lock.  Nothing forces a client to call.        *)
FairSpec == Spec /\ \A r \in Requests : WF_vars(Step(r))

-----------------------------------------------------------------------------
(* Properties. *)

(* Every variable keeps the shape the handler and the schema give it. *)
TypeOK ==
  /\ balance \in Balances
  /\ rows \in [Keys -> Row \cup {None}]
  /\ audit \in [Keys -> SUBSET LogAction]
  /\ lock \in [Users -> Requests \cup {None}]
  /\ pc \in [Requests -> Running \cup {"idle", "done", "lost"}]
  /\ dto \in [Requests -> Payloads \cup {None}]
  /\ status \in [Requests -> {"PENDING", "SUCCESS", None}]
  /\ trail \in [Requests -> SUBSET LogAction]
  /\ pending \in [Requests -> Balances]
  /\ answer \in [Requests -> Answers \cup {None}]

(* No wallet is ever overdrawn: the balance a request checks under its     *)
(* locks is still there when it commits, whatever the others do.           *)
NoOverdraft == \A u \in Users, c \in Currencies : balance[u][c] >= 0

L == INSTANCE Ledger

(* Every balance is the initial one plus what the committed transactions   *)
(* brought in minus what they took out: no transfer is applied twice, half *)
(* or without its row, however requests overlap, fail or are retried.      *)
LedgerMatchesRows == L!BooksBalance

SuccessTrail == LogAction \ {"TRANSACTION_ERROR"}

(* A request answered with a transaction is answered with the one that is  *)
(* committed under its key, whole: SUCCESS, with the four logs of its      *)
(* stages.  A retry, a duplicate and the original get the same answer.     *)
AnsweredAsSettled ==
  \A r \in Requests :
    answer[r] # None /\ answer[r].code = "ok" =>
      /\ answer[r].row = rows[dto[r].key]
      /\ answer[r].row.status = "SUCCESS"
      /\ audit[dto[r].key] = SuccessTrail

(* r cannot take its next step before q's transaction ends. *)
WaitsFor(r, q) ==
  /\ q # r
  /\ \/ pc[r] = "insert" /\ status[q] # None /\ dto[q].key = dto[r].key
     \/ pc[r] = "lockFirst" /\ lock[FirstWallet(dto[r])] = q
     \/ pc[r] = "lockSecond" /\ lock[SecondWallet(dto[r])] = q

(* Transactions never wait for each other in a circle, whichever wallets   *)
(* they lock and whichever keys they share ("anti-deadlock").              *)
NoWaitCycle ==
  \A S \in SUBSET {r \in Requests : InTx(r)} :
    S # {} => \E r \in S : \A q \in S : ~WaitsFor(r, q)

(* A request that was received ends: it is answered, or its server died.   *)
EveryRequestEnds ==
  \A r \in Requests : pc[r] \in Running ~> pc[r] \in {"done", "lost"}

(* The handler implements the ledger: whatever happens in between, the     *)
(* committed state changes by one whole transfer, once per key.            *)
LedgerSpec == L!Spec

(* The audit the handler promises "at each stage": a payment refused for   *)
(* lack of funds leaves its TRANSACTION_ERROR in the log.                  *)
RefusalIsAudited ==
  \A r \in Requests :
    answer[r] # None /\ answer[r].code = "insufficient" =>
      "TRANSACTION_ERROR" \in audit[dto[r].key]
=============================================================================
