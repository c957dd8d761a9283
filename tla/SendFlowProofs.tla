--------------------------- MODULE SendFlowProofs ---------------------------
(***************************************************************************)
(* Proofs about SendFlow, for any number of flows, amounts and retries.    *)
(***************************************************************************)
EXTENDS SendFlow, FiniteSetTheorems, TLAPS

-----------------------------------------------------------------------------
(* The inductive invariant.  A flow has one key, so whatever it has on its *)
(* way carries that key; an answer "ok" comes from a payment that is in    *)
(* the ledger, where it stays; a refresh follows such an answer, and the   *)
(* success screen such a refresh; no step but Leave leaves that screen.    *)

FlowKey(f) == <<f, 0>>
IsPaid(f) == rows[FlowKey(f)] # None

(* The amount was entered by the time it is sent. *)
AmountInv(f) == step[f] >= 2 \/ sending[f] # None => amount[f] \in Amounts

KeyInv(f) == sending[f] # None => sending[f].key = FlowKey(f)

SuccessInv(f) ==
  /\ step[f] = 4 => sending[f] = None /\ IsPaid(f)
  /\ Is(f, "refreshing") => IsPaid(f)

LedgerInv == \A k \in Keys : rows[k] # None => k[2] = 0

NetInv == \A m \in net : m.key = FlowKey(m.flow)

ReplyInv == \A m \in replies : m.code = "ok" => IsPaid(m.flow)

FlowInv ==
  /\ TypeOK
  /\ \A f \in Flows : AmountInv(f) /\ KeyInv(f) /\ SuccessInv(f)
  /\ LedgerInv
  /\ NetInv
  /\ ReplyInv

-----------------------------------------------------------------------------

LEMMA FlowKeyIsKey == \A f \in Flows : FlowKey(f) \in Keys
  BY BoundsAssumption DEF FlowKey, Keys

LEMMA KeyShape == \A k \in Keys : k = <<k[1], k[2]>> /\ k[1] \in Flows /\ k[2] \in Nat
  BY BoundsAssumption DEF Keys

LEMMA InitFlowInv == Init => FlowInv
<1> SUFFICES ASSUME Init PROVE FlowInv
  OBVIOUS
<1> USE DEF Init, Server!Init
<1>1. TypeOK
  BY BoundsAssumption DEF TypeOK
<1>2. ASSUME NEW f \in Flows PROVE AmountInv(f) /\ KeyInv(f) /\ SuccessInv(f)
  BY DEF AmountInv, KeyInv, SuccessInv, Is
<1>3. LedgerInv /\ NetInv /\ ReplyInv
  BY DEF LedgerInv, NetInv, ReplyInv
<1> QED
  BY <1>1, <1>2, <1>3 DEF FlowInv

(* What a fetch leaves behind, the first of a submission or a retry of it. *)
LEMMA FetchInv ==
  ASSUME FlowInv, NEW f \in Flows, NEW s \in Submission, s.key = FlowKey(f),
         s.stage = "posting", sent[f] < MaxSends[f], Fetch(f, s)
  PROVE  /\ sending' \in [Flows -> Submission \cup {None}]
         /\ sent' \in [Flows -> Nat] /\ \A g \in Flows : sent'[g] <= MaxSends[g]
         /\ net' \subseteq Message
         /\ NetInv'
         /\ sending'[f].key = FlowKey(f) /\ sending'[f].stage = "posting"
         /\ \A g \in Flows \ {f} : sending'[g] = sending[g]
<1> USE DEF FlowInv, TypeOK, Fetch
<1>1. sent[f] + 1 \in Nat /\ sent[f] + 1 <= MaxSends[f]
  <2>1. sent[f] \in Nat /\ MaxSends[f] \in Nat
    BY BoundsAssumption
  <2> QED
    BY <2>1
<1>2. [s EXCEPT !.fetch = sent[f] + 1] \in Submission
  BY <1>1 DEF Submission
<1>3. [flow |-> f, fetch |-> sent[f] + 1, key |-> s.key, amount |-> s.amount] \in Message
  BY <1>1 DEF Submission, Message
<1>4. NetInv'
  BY DEF NetInv, FlowKey
<1>5. [s EXCEPT !.fetch = sent[f] + 1].key = s.key /\ [s EXCEPT !.fetch = sent[f] + 1].stage = s.stage
  BY DEF Submission
<1>6. sent' \in [Flows -> Nat] /\ \A g \in Flows : sent'[g] <= MaxSends[g]
  BY <1>1
<1> QED
  BY <1>2, <1>3, <1>4, <1>5, <1>6

LEMMA UserInv ==
  ASSUME FlowInv, NEW f \in Flows, User(f)
  PROVE  FlowInv'
<1> USE DEF FlowInv
<1>1. CASE \/ Open(f) \/ Continue(f) \/ EnterAmount(f) \/ Back(f) \/ Leave(f)
  <2> USE <1>1 DEF Open, Continue, EnterAmount, Back, Leave, GoTo, ledger
  <2>1. TypeOK'
    BY DEF TypeOK
  <2>2. ASSUME NEW g \in Flows PROVE (AmountInv(g) /\ KeyInv(g) /\ SuccessInv(g))'
    BY DEF TypeOK, AmountInv, KeyInv, SuccessInv, IsPaid, Is
  <2>3. LedgerInv' /\ NetInv' /\ ReplyInv'
    BY DEF LedgerInv, NetInv, ReplyInv, IsPaid
  <2> QED
    BY <2>1, <2>2, <2>3
<1>2. CASE Submit(f)
  <2> DEFINE s == [first |-> sent[f] + 1, fetch |-> sent[f] + 1,
                   key |-> Key(f, sent[f]), amount |-> amount[f],
                   stage |-> "posting", left |-> MaxRefresh]
  <2>1. /\ screen[f] = "open" /\ step[f] = 3 /\ sending[f] = None
        /\ sent[f] + MaxFetches <= MaxSends[f]
        /\ Fetch(f, s)
        /\ UNCHANGED <<balance, rows, screen, step, amount, replies>>
    BY <1>2 DEF Submit, ledger, ui
  <2>2. s \in Submission /\ s.key = FlowKey(f) /\ s.stage = "posting" /\ sent[f] < MaxSends[f]
    BY <2>1, FlowKeyIsKey, BoundsAssumption
       DEF Submission, Key, FlowKey, TypeOK, AmountInv
  <2> HIDE DEF s
  <2>3. /\ sending' \in [Flows -> Submission \cup {None}]
        /\ sent' \in [Flows -> Nat] /\ \A g \in Flows : sent'[g] <= MaxSends[g]
        /\ net' \subseteq Message
        /\ NetInv'
        /\ sending'[f].key = FlowKey(f) /\ sending'[f].stage = "posting"
        /\ \A g \in Flows \ {f} : sending'[g] = sending[g]
    BY <2>1, <2>2, FetchInv
  <2>4. TypeOK'
    BY <2>1, <2>3 DEF TypeOK
  <2>5. ASSUME NEW g \in Flows PROVE (AmountInv(g) /\ KeyInv(g) /\ SuccessInv(g))'
    BY <2>1, <2>3 DEF TypeOK, AmountInv, KeyInv, SuccessInv, IsPaid, Is
  <2>6. LedgerInv' /\ ReplyInv'
    BY <2>1 DEF LedgerInv, ReplyInv, IsPaid
  <2> QED
    BY <2>3, <2>4, <2>5, <2>6
<1> QED
  BY <1>1, <1>2 DEF User

(* The end of a submission, after an answer that says "ok" only of what is *)
(* paid.                                                                   *)
LEMMA FinishInv ==
  ASSUME FlowInv, NEW f \in Flows, NEW success \in BOOLEAN, sending[f] # None,
         success => IsPaid(f), Finish(f, success),
         replies' \subseteq replies,
         UNCHANGED <<balance, rows, screen, amount, sent, net>>
  PROVE  FlowInv'
<1> USE DEF FlowInv, Finish, GoTo
<1>1. TypeOK'
  BY DEF TypeOK, SuccessInv
<1>2. ASSUME NEW g \in Flows PROVE (AmountInv(g) /\ KeyInv(g) /\ SuccessInv(g))'
  BY DEF TypeOK, AmountInv, KeyInv, SuccessInv, IsPaid, Is
<1>3. LedgerInv' /\ NetInv' /\ ReplyInv'
  BY DEF LedgerInv, NetInv, ReplyInv, IsPaid
<1> QED
  BY <1>1, <1>2, <1>3

(* The answer to a payment, after which the submission awaits the refresh. *)
LEMMA StageInv ==
  ASSUME FlowInv, NEW f \in Flows, sending[f] # None, IsPaid(f),
         sending' = [sending EXCEPT ![f].stage = "refreshing"],
         replies' \subseteq replies,
         UNCHANGED <<balance, rows, screen, step, amount, sent, net>>
  PROVE  FlowInv'
<1>1. sending[f] \in Submission
  BY DEF FlowInv, TypeOK
<1>2. TypeOK'
  BY <1>1 DEF FlowInv, TypeOK, Submission
<1>3. ASSUME NEW g \in Flows PROVE (AmountInv(g) /\ KeyInv(g) /\ SuccessInv(g))'
  BY <1>1 DEF FlowInv, TypeOK, AmountInv, KeyInv, SuccessInv, IsPaid, Is, Submission
<1>4. LedgerInv' /\ NetInv' /\ ReplyInv'
  BY DEF FlowInv, LedgerInv, NetInv, ReplyInv, IsPaid
<1> QED
  BY <1>2, <1>3, <1>4 DEF FlowInv

LEMMA ReceiveReplyInv ==
  ASSUME FlowInv, NEW f \in Flows, ReceiveReply(f)
  PROVE  FlowInv'
<1>1. PICK m \in replies :
        /\ m.flow = f /\ m.fetch = sending[f].fetch
        /\ \/ /\ m.code = "ok"
              /\ sending' = [sending EXCEPT ![f].stage = "refreshing"]
              /\ UNCHANGED step
           \/ m.code = "refused" /\ Finish(f, FALSE)
        /\ replies' = replies \ {m}
  BY DEF ReceiveReply
<1>2. /\ sending[f] # None
      /\ UNCHANGED <<balance, rows, screen, amount, sent, net>>
  BY DEF ReceiveReply, ledger, Is
<1>3. CASE m.code = "ok" /\ sending' = [sending EXCEPT ![f].stage = "refreshing"] /\ step' = step
  <2>1. IsPaid(f)
    BY <1>1, <1>3 DEF FlowInv, ReplyInv
  <2> QED
    BY <1>1, <1>2, <1>3, <2>1, StageInv
<1>4. CASE Finish(f, FALSE)
  BY <1>1, <1>2, <1>4, FinishInv
<1> QED
  BY <1>1, <1>3, <1>4

LEMMA RefreshInv ==
  ASSUME FlowInv, NEW f \in Flows, Refresh(f)
  PROVE  FlowInv'
<1>1. /\ sending[f] # None /\ IsPaid(f)
      /\ UNCHANGED <<balance, rows, screen, amount, sent, net, replies>>
  BY DEF Refresh, ledger, Is, FlowInv, SuccessInv
<1>2. ASSUME NEW n \in 0..sending[f].left - 1, sending' = [sending EXCEPT ![f].left = n], step' = step
      PROVE  FlowInv'
  <2>1. sending[f] \in Submission
    BY <1>1 DEF FlowInv, TypeOK
  <2>2. n \in 0..MaxRefresh
    BY <2>1, BoundsAssumption DEF Submission
  <2>3. TypeOK'
    BY <1>1, <1>2, <2>1, <2>2 DEF FlowInv, TypeOK, Submission
  <2>4. ASSUME NEW g \in Flows PROVE (AmountInv(g) /\ KeyInv(g) /\ SuccessInv(g))'
    BY <1>1, <1>2, <2>1 DEF FlowInv, TypeOK, AmountInv, KeyInv, SuccessInv, IsPaid, Is, Submission
  <2>5. LedgerInv' /\ NetInv' /\ ReplyInv'
    BY <1>1 DEF FlowInv, LedgerInv, NetInv, ReplyInv, IsPaid
  <2> QED
    BY <2>3, <2>4, <2>5 DEF FlowInv
<1>3. CASE Finish(f, TRUE)
  BY <1>1, <1>3, FinishInv
<1> QED
  BY <1>2, <1>3 DEF Refresh

LEMMA ThrowInv ==
  ASSUME FlowInv, NEW f \in Flows, Throw(f)
  PROVE  FlowInv'
<1>1. /\ sending[f] # None /\ replies' \subseteq replies
      /\ sending' = [sending EXCEPT ![f].stage = "thrown", ![f].left = 0]
      /\ UNCHANGED <<balance, rows, screen, step, amount, sent, net>>
  BY DEF Throw, ledger, ui, Is
<1>2. sending[f] \in Submission /\ 0 \in 0..MaxRefresh
  BY <1>1, BoundsAssumption DEF FlowInv, TypeOK
<1>3. TypeOK'
  BY <1>1, <1>2 DEF FlowInv, TypeOK, Submission
<1>4. ASSUME NEW g \in Flows PROVE (AmountInv(g) /\ KeyInv(g) /\ SuccessInv(g))'
  BY <1>1, <1>2 DEF FlowInv, TypeOK, AmountInv, KeyInv, SuccessInv, IsPaid, Is, Submission
<1>5. LedgerInv' /\ NetInv' /\ ReplyInv'
  BY <1>1 DEF FlowInv, LedgerInv, NetInv, ReplyInv, IsPaid
<1> QED
  BY <1>3, <1>4, <1>5 DEF FlowInv

LEMMA TimeoutInv ==
  ASSUME FlowInv, NEW f \in Flows, Timeout(f)
  PROVE  FlowInv'
<1>1. /\ sending[f] # None /\ sending[f].stage = "posting"
      /\ replies' = {m \in replies : m.flow # f}
      /\ UNCHANGED <<balance, rows, screen, amount>>
  BY DEF Timeout, ledger, Is
<1>2. CASE /\ MayRetry(sending[f], sent[f]) /\ sent[f] < MaxSends[f]
           /\ Fetch(f, sending[f])
           /\ UNCHANGED step
  <2>1. sending[f] \in Submission /\ sending[f].key = FlowKey(f)
    BY <1>1 DEF FlowInv, TypeOK, KeyInv
  <2>2. /\ sending' \in [Flows -> Submission \cup {None}]
        /\ sent' \in [Flows -> Nat] /\ \A g \in Flows : sent'[g] <= MaxSends[g]
        /\ net' \subseteq Message
        /\ NetInv'
        /\ sending'[f].key = FlowKey(f) /\ sending'[f].stage = "posting"
        /\ \A g \in Flows \ {f} : sending'[g] = sending[g]
    BY <1>1, <1>2, <2>1, FetchInv
  <2>3. TypeOK'
    BY <1>1, <1>2, <2>2 DEF FlowInv, TypeOK
  <2>4. ASSUME NEW g \in Flows PROVE (AmountInv(g) /\ KeyInv(g) /\ SuccessInv(g))'
    BY <1>1, <1>2, <2>2 DEF FlowInv, TypeOK, AmountInv, KeyInv, SuccessInv, IsPaid, Is
  <2>5. LedgerInv' /\ ReplyInv'
    BY <1>1 DEF FlowInv, LedgerInv, ReplyInv, IsPaid
  <2> QED
    BY <2>2, <2>3, <2>4, <2>5 DEF FlowInv
<1>3. CASE Finish(f, FALSE) /\ UNCHANGED <<sent, net>>
  <2>1. replies' \subseteq replies
    BY <1>1
  <2> QED
    BY <1>1, <1>3, <2>1, FinishInv
<1> QED
  BY <1>2, <1>3 DEF Timeout

(* The server answers "ok" to a request whose key it has executed, now or  *)
(* before.                                                                 *)
LEMMA HandleInv ==
  ASSUME FlowInv, NEW m \in net, Handle(m)
  PROVE  FlowInv'
<1> DEFINE f == m.flow
<1>1. /\ m \in Message /\ f \in Flows /\ m.key = FlowKey(f) /\ m.key \in Keys
      /\ m.fetch \in Nat /\ m.amount \in Amounts
  BY DEF FlowInv, TypeOK, NetInv, Message
<1>2. UNCHANGED <<screen, step, amount, sending, sent>> /\ net' \subseteq net
  BY DEF Handle, ui
<1>3. \/ IsPaid(f) /\ Answer(m, "ok") /\ rows' = rows
      \/ /\ rows[m.key] = None
         /\ rows' = [rows EXCEPT ![m.key] =
              [sender |-> Sender, receiver |-> Recipient, currency |-> Money,
               amount |-> m.amount, status |-> "SUCCESS"]]
         /\ Answer(m, "ok") \/ Answer(m, "refused")
      \/ Answer(m, "refused") /\ rows' = rows
  BY <1>1 DEF Handle, IsPaid, ledger, Server!Execute
<1> HIDE DEF f
<1>4. /\ DOMAIN rows' = Keys
      /\ \A k \in Keys : rows[k] # None => rows'[k] # None
      /\ \A k \in Keys : k # m.key => rows'[k] = rows[k]
  BY <1>1, <1>3, NoneAssumption DEF FlowInv, TypeOK, Sender, Recipient, Money
<1>5. \A g \in Flows : IsPaid(g) => IsPaid(g)'
  BY <1>4, FlowKeyIsKey DEF IsPaid, FlowKey
<1>6. (Answer(m, "ok") /\ IsPaid(f)') \/ Answer(m, "refused")
  <2>1. CASE IsPaid(f) /\ Answer(m, "ok")
    BY <2>1, <1>5, <1>1
  <2>2. CASE /\ rows' = [rows EXCEPT ![m.key] =
                  [sender |-> Sender, receiver |-> Recipient, currency |-> Money,
                   amount |-> m.amount, status |-> "SUCCESS"]]
             /\ Answer(m, "ok") \/ Answer(m, "refused")
    <3>0. m.key \in DOMAIN rows /\ m.amount \in Nat
      BY <1>1, AmountsAssumption DEF FlowInv, TypeOK
    <3>1. rows'[m.key] # None
      BY <2>2, <3>0, NoneAssumption DEF Sender, Recipient, Money
    <3> QED
      BY <1>1, <2>2, <3>1 DEF IsPaid, FlowKey
  <2> QED
    BY <1>3, <2>1, <2>2
<1>7. ReplyInv' /\ replies' \subseteq Reply
  <2>1. ASSUME NEW n \in replies', n \notin replies PROVE n \in Reply
    <3>1. PICK code \in {"ok", "refused"} : n = [flow |-> f, fetch |-> m.fetch, code |-> code]
      BY <2>1, <1>6 DEF Answer, f
    <3> QED
      BY <3>1, <1>1 DEF Reply
  <2>2. ASSUME NEW n \in replies', n.code = "ok" PROVE IsPaid(n.flow)'
    <3>1. CASE n \in replies
      BY <2>2, <3>1, <1>5 DEF FlowInv, ReplyInv, TypeOK, Reply
    <3>2. CASE n \notin replies
      BY <2>2, <3>2, <1>6 DEF Answer, f
    <3> QED
      BY <3>1, <3>2
  <2> QED
    BY <2>1, <2>2 DEF ReplyInv, FlowInv, TypeOK
<1>8. TypeOK'
  BY <1>2, <1>4, <1>7 DEF FlowInv, TypeOK
<1>9. ASSUME NEW g \in Flows PROVE (AmountInv(g) /\ KeyInv(g) /\ SuccessInv(g))'
  BY <1>2, <1>5 DEF FlowInv, AmountInv, KeyInv, SuccessInv, Is
<1>10. LedgerInv' /\ NetInv'
  BY <1>1, <1>2, <1>4 DEF FlowInv, LedgerInv, NetInv, FlowKey
<1> QED
  BY <1>7, <1>8, <1>9, <1>10 DEF FlowInv

LEMMA NextFlowInv == FlowInv /\ [Next]_vars => FlowInv'
<1> SUFFICES ASSUME FlowInv, [Next]_vars PROVE FlowInv'
  OBVIOUS
<1>1. ASSUME NEW f \in Flows, User(f) \/ Wait(f) \/ Throw(f) PROVE FlowInv'
  BY <1>1, UserInv, ReceiveReplyInv, TimeoutInv, RefreshInv, ThrowInv DEF Wait
<1>2. ASSUME NEW m \in net, Handle(m) PROVE FlowInv'
  BY <1>2, HandleInv
<1>3. CASE UNCHANGED vars
  BY <1>3 DEF vars, ledger, ui, FlowInv, TypeOK, AmountInv, KeyInv, SuccessInv,
              IsPaid, Is, LedgerInv, NetInv, ReplyInv
<1> QED
  BY <1>1, <1>2, <1>3 DEF Next

-----------------------------------------------------------------------------
(* The flow's state keeps the shape of SendMoneyFlow and of its requests,  *)
(* for every number of flows and retries.                                  *)
THEOREM FlowTypeCorrect == Spec => []TypeOK
<1>1. FlowInv => TypeOK
  BY DEF FlowInv
<1> QED
  BY <1>1, InitFlowInv, NextFlowInv, PTL DEF Spec

(* A flow pays at most once, however many submissions, retries, delays and *)
(* late answers: all it ever sends carries the one key of its state, and   *)
(* the server executes a key once.                                         *)
THEOREM FlowPaysOnce == Spec => []OnePaymentPerFlow
<1>1. FlowInv => OnePaymentPerFlow
  <2> SUFFICES ASSUME FlowInv, NEW f \in Flows PROVE Cardinality(Paid(f)) <= 1
    BY DEF OnePaymentPerFlow
  <2>1. Paid(f) \subseteq {FlowKey(f)}
    BY KeyShape DEF FlowInv, LedgerInv, Paid, FlowKey
  <2>2. IsFiniteSet({FlowKey(f)}) /\ Cardinality({FlowKey(f)}) = 1
    BY FS_Singleton
  <2> QED
    BY <2>1, <2>2, FS_Subset, FS_CardinalityType
<1> QED
  BY <1>1, InitFlowInv, NextFlowInv, PTL DEF Spec

(* The success screen is never shown by a flow that has not paid, whatever *)
(* the network did to its requests and wherever the sender went meanwhile. *)
THEOREM SuccessMeansPaid == Spec => []SuccessIsPaid
<1>1. FlowInv => SuccessIsPaid
  BY FlowKeyIsKey DEF FlowInv, SuccessInv, SuccessIsPaid, Paid, IsPaid, FlowKey
<1> QED
  BY <1>1, InitFlowInv, NextFlowInv, PTL DEF Spec

-----------------------------------------------------------------------------
(* What the server does for the flows is what the ledger does, so that the *)
(* books of the sender and the recipient balance.                          *)

BooksInv ==
  /\ balance \in [{Sender, Recipient} -> [{Money} -> Int]]
  /\ balance[Sender][Money] <= Funds
  /\ \A k \in Keys : rows[k] # None =>
       /\ rows[k].sender = Sender
       /\ rows[k].receiver = Recipient
       /\ rows[k].currency = Money

LEMMA InitBooksInv == Init => BooksInv
  BY AmountsAssumption DEF Init, Server!Init, BooksInv, Sender, Recipient, Money

LEMMA HandleIsLedger ==
  ASSUME FlowInv, BooksInv, NEW m \in net, Handle(m)
  PROVE  [Server!Next]_(Server!vars) /\ BooksInv'
<1>1. m.key \in Keys /\ m.amount \in Nat \ {0}
  BY AmountsAssumption DEF FlowInv, TypeOK, Message
<1>2. CASE UNCHANGED ledger
  BY <1>2 DEF ledger, Server!vars, BooksInv
<1>3. CASE /\ m.amount <= balance[Sender][Money]
           /\ Server!Execute(m.key, Sender, Recipient, Money, m.amount)
  <2>1. m.amount \in 1..Funds
    BY <1>1, <1>3, AmountsAssumption DEF BooksInv
  <2>2. Server!Next
    BY <1>1, <1>3, <2>1 DEF Server!Next
  <2> DEFINE debited == [balance EXCEPT ![Sender][Money] = @ - m.amount]
  <2>3. balance' = [debited EXCEPT ![Recipient][Money] = @ + m.amount]
    BY <1>3 DEF Server!Execute
  <2>4. /\ balance' \in [{Sender, Recipient} -> [{Money} -> Int]]
        /\ balance'[Sender][Money] <= Funds
    <3>1. /\ debited \in [{Sender, Recipient} -> [{Money} -> Int]]
          /\ debited[Sender][Money] <= Funds
      BY <1>1, AmountsAssumption DEF BooksInv
    <3> HIDE DEF debited
    <3> QED
      BY <1>1, <2>3, <3>1 DEF Sender, Recipient
  <2>5. ASSUME NEW k \in Keys, rows'[k] # None
        PROVE  /\ rows'[k].sender = Sender
               /\ rows'[k].receiver = Recipient
               /\ rows'[k].currency = Money
    BY <1>1, <1>3, <2>5 DEF Server!Execute, BooksInv, FlowInv, TypeOK
  <2> QED
    BY <2>2, <2>4, <2>5 DEF BooksInv
<1> QED
  BY <1>2, <1>3 DEF Handle

LEMMA NextIsLedger ==
  FlowInv /\ BooksInv /\ [Next]_vars => [Server!Next]_(Server!vars) /\ BooksInv'
<1> SUFFICES ASSUME FlowInv, BooksInv, [Next]_vars
             PROVE  [Server!Next]_(Server!vars) /\ BooksInv'
  OBVIOUS
<1>1. CASE UNCHANGED ledger
  BY <1>1 DEF ledger, Server!vars, BooksInv
<1>2. ASSUME NEW m \in net, Handle(m) PROVE [Server!Next]_(Server!vars) /\ BooksInv'
  BY <1>2, HandleIsLedger
<1>3. (\E m \in net : Handle(m)) \/ UNCHANGED ledger
  BY DEF Next, User, Open, Continue, EnterAmount, Back, Leave, Submit, Wait,
         ReceiveReply, Timeout, Refresh, Throw, vars
<1> QED
  BY <1>1, <1>2, <1>3

(* Whatever the screens send and the network does with it, the server is   *)
(* only ever asked to do what the ledger allows.                           *)
LEMMA FlowUsesLedger == Spec => Server!Spec
<1>1. Init => Server!Init
  BY DEF Init
<1> QED
  BY <1>1, InitFlowInv, NextFlowInv, InitBooksInv, NextIsLedger, PTL DEF Spec, Server!Spec

B == INSTANCE LedgerProofs WITH
  Users <- {Sender, Recipient}, Currencies <- {Money},
  Limit <- [c \in {Money} |-> Funds],
  InitialBalance <- [u \in {Sender, Recipient} |->
                       [c \in {Money} |-> IF u = Sender THEN Funds ELSE 0]]

LEMMA FlowBooks == Spec => []B!LedgerInv
<1>1. B!LedgerConstants
  <2>1. /\ [c \in {Money} |-> Funds] \in [{Money} -> Nat]
        /\ [u \in {Sender, Recipient} |-> [c \in {Money} |-> IF u = Sender THEN Funds ELSE 0]]
             \in [{Sender, Recipient} -> [{Money} -> Nat]]
    BY AmountsAssumption
  <2> QED
    BY <2>1, NoneAssumption DEF B!LedgerConstants, Sender, Recipient, Money
<1>2. B!Spec => []B!LedgerInv
  BY <1>1, B!LedgerIsKept
<1>3. Server!Spec => B!Spec
  BY DEF Server!Spec, B!Spec, Server!Init, B!Init, Server!Next, B!Next, Server!vars, B!vars,
         Server!Execute, B!Execute
<1> QED
  BY <1>2, <1>3, FlowUsesLedger, PTL

(* One payment of each flow that has paid. *)
Payments == {FlowKey(f) : f \in {g \in Flows : Paid(g) # {}}}

PaymentsAddUp ==
  /\ balance[Recipient][Money] = B!Total(Payments)
  /\ balance[Sender][Money] = Funds - B!Total(Payments)

(* Nothing is paid twice and nothing is lost on the way: the recipient has *)
(* got, and the sender has spent, the amount of one payment of each flow   *)
(* that has paid, whatever was submitted again, retried or answered late.  *)
THEOREM EachFlowPaysItsAmount == Spec => []PaymentsAddUp
<1>1. ASSUME FlowInv, BooksInv, B!LedgerInv PROVE PaymentsAddUp
  <2>1. /\ B!Received(Recipient, Money) = Payments /\ B!Sent(Sender, Money) = Payments
        /\ B!Received(Sender, Money) = {} /\ B!Sent(Recipient, Money) = {}
    <3>1. Payments = {k \in Keys : rows[k] # None}
      BY <1>1, FlowKeyIsKey, KeyShape DEF FlowInv, LedgerInv, Payments, Paid, FlowKey
    <3> QED
      BY <1>1, <3>1 DEF BooksInv, B!Received, B!Sent, Sender, Recipient
  <2>2. B!Total({}) = 0
    BY B!SumOfNone DEF B!Total
  <2>3. B!Total(Payments) \in Int
    <3>1. Payments \subseteq B!Executed
      BY <2>1 DEF B!Received, B!Executed
    <3>2. B!IsFiniteSet(Payments)
      BY <1>1, <3>1, B!FS_Subset DEF B!LedgerInv, B!BookOK
    <3>3. \A k \in Payments : rows[k].amount \in Nat
      BY <1>1, <3>1 DEF B!LedgerInv, B!BookOK, B!Executed
    <3> QED
      BY <3>2, <3>3, B!SumRules DEF B!Total
  <2>4. /\ balance[Recipient][Money] = 0 + B!Total(Payments) - B!Total({})
        /\ balance[Sender][Money] = Funds + B!Total({}) - B!Total(Payments)
    BY <1>1, <2>1 DEF B!LedgerInv, B!BooksBalance, Sender, Recipient
  <2> QED
    BY <2>2, <2>3, <2>4, AmountsAssumption DEF PaymentsAddUp
<1> QED
  BY <1>1, InitFlowInv, NextFlowInv, InitBooksInv, NextIsLedger, FlowBooks, PTL DEF Spec

-----------------------------------------------------------------------------
(* What of SubmissionEnds holds without fairness: a submission has a       *)
(* number of requests left, of the payment and of the refresh after it,    *)
(* and whatever happens to it takes one.                                   *)

FetchesLeft(f) == sending[f].first + MaxFetches - sent[f]

RequestsLeft(f) ==
  IF sending[f] = None \/ Is(f, "thrown") THEN 0
  ELSE 1 + sending[f].left + (IF Is(f, "posting") THEN FetchesLeft(f) ELSE 0)

RetryInv(f) ==
  sending[f] # None =>
    /\ sending[f].first \in Nat /\ FetchesLeft(f) \in 1..MaxFetches
    /\ sending[f].first + MaxFetches - 1 <= MaxSends[f]

RunsOut(f) ==
  sending[f] # None /\ sending'[f] # sending[f] =>
    RequestsLeft(f) \in Nat /\ RequestsLeft(f)' \in Nat /\ RequestsLeft(f)' < RequestsLeft(f)

LEMMA FetchCounts ==
  ASSUME FlowInv, NEW f \in Flows, NEW s \in Submission, Fetch(f, s)
  PROVE  /\ sending'[f] \in Submission /\ sending'[f] # None
         /\ sending'[f].first = s.first
         /\ sending'[f].stage = s.stage /\ sending'[f].left = s.left
         /\ sent'[f] = sent[f] + 1 /\ sending'[f].fetch = sent[f] + 1
         /\ \A g \in Flows \ {f} : sending'[g] = sending[g] /\ sent'[g] = sent[g]
<1>1. [s EXCEPT !.fetch = sent[f] + 1] \in Submission
  <2>1. sent[f] + 1 \in Nat
    BY DEF FlowInv, TypeOK
  <2> QED
    BY <2>1 DEF Submission
<1>2. [s EXCEPT !.fetch = sent[f] + 1] # None
  BY <1>1, NoSubmissionAssumption
<1> QED
  BY <1>1, <1>2 DEF Fetch, FlowInv, TypeOK, Submission

(* What happens to the submission of one flow. *)
LEMMA SubmissionStep ==
  ASSUME FlowInv, NEW f \in Flows, RetryInv(f), Wait(f) \/ Throw(f)
  PROVE  RetryInv(f)' /\ RunsOut(f)
<1> DEFINE s == sending[f]
<1>0. /\ sent[f] \in Nat /\ MaxSends[f] \in Nat /\ MaxFetches \in Nat \ {0} /\ MaxRefresh \in Nat
      /\ s # None /\ s \in Submission
      /\ sending \in [Flows -> Submission \cup {None}]
  BY BoundsAssumption DEF FlowInv, TypeOK, Wait, ReceiveReply, Timeout, Refresh, Throw, Is
<1>1. /\ s.first \in Nat /\ s.left \in Nat /\ FetchesLeft(f) \in 1..MaxFetches
      /\ s.first + MaxFetches - 1 <= MaxSends[f]
  BY <1>0 DEF Submission, RetryInv
<1>2. CASE sending' = [sending EXCEPT ![f] = None] /\ ~Is(f, "thrown")
  <2>1. sending'[f] = None
    BY <1>0, <1>2
  <2> QED
    BY <1>0, <1>1, <1>2, <2>1 DEF RetryInv, RunsOut, RequestsLeft
<1>3. CASE Is(f, "posting") /\ MayRetry(s, sent[f]) /\ Fetch(f, s)
  <2>1. /\ sending'[f] # None /\ sending'[f].first = s.first /\ sent'[f] = sent[f] + 1
        /\ sending'[f].stage = "posting" /\ sending'[f].left = s.left
    BY <1>0, <1>3, FetchCounts DEF Is
  <2>2. FetchesLeft(f)' = FetchesLeft(f) - 1 /\ FetchesLeft(f) > 1
    BY <1>0, <1>1, <1>3, <2>1 DEF FetchesLeft, MayRetry
  <2>3. RequestsLeft(f)' = 1 + s.left + FetchesLeft(f)'
    BY <2>1 DEF RequestsLeft, Is
  <2>4. RequestsLeft(f) = 1 + s.left + FetchesLeft(f)
    BY <1>0, <1>3 DEF RequestsLeft, Is
  <2> QED
    BY <1>0, <1>1, <2>1, <2>2, <2>3, <2>4 DEF RetryInv, RunsOut
<1>4. ASSUME NEW stage \in {"refreshing", "thrown"}, NEW n \in 0..MaxRefresh, n <= s.left, sent' = sent,
             sending' = [sending EXCEPT ![f] = [s EXCEPT !.stage = stage, !.left = n]],
             Is(f, "posting") \/ Is(f, "refreshing"),
             stage = "refreshing" /\ Is(f, "refreshing") => n < s.left
      PROVE  RetryInv(f)' /\ RunsOut(f)
  <2>1. sending'[f] = [s EXCEPT !.stage = stage, !.left = n]
    BY <1>0, <1>4
  <2>2. /\ sending'[f] \in Submission /\ sending'[f].first = s.first
        /\ sending'[f].stage = stage /\ sending'[f].left = n
    BY <1>0, <2>1 DEF Submission
  <2>3. sending'[f] # None
    BY <2>2, NoSubmissionAssumption
  <2>4. RetryInv(f)'
    BY <1>0, <1>1, <1>4, <2>2, <2>3 DEF RetryInv, FetchesLeft
  <2>5. RequestsLeft(f)' = IF stage = "thrown" THEN 0 ELSE 1 + n
    BY <1>4, <2>2, <2>3 DEF RequestsLeft, Is
  <2>6. RequestsLeft(f) = 1 + s.left + (IF Is(f, "posting") THEN FetchesLeft(f) ELSE 0)
    BY <1>0, <1>4 DEF RequestsLeft, Is
  <2> QED
    BY <1>0, <1>1, <1>4, <2>4, <2>5, <2>6 DEF RunsOut, Is
<1>5. CASE ReceiveReply(f)
  <2>1. CASE sending' = [sending EXCEPT ![f].stage = "refreshing"]
    <3>1. [s EXCEPT !.stage = "refreshing"] = [s EXCEPT !.stage = "refreshing", !.left = s.left]
      BY <1>0 DEF Submission
    <3>2. sending' = [sending EXCEPT ![f] = [s EXCEPT !.stage = "refreshing", !.left = s.left]]
      BY <1>0, <2>1, <3>1
    <3>3. Is(f, "posting") /\ ~Is(f, "refreshing") /\ sent' = sent /\ s.left \in 0..MaxRefresh
      BY <1>0, <1>5 DEF ReceiveReply, Is, Submission
    <3>4. s.left <= s.left
      BY <1>1
    <3> QED
      BY <1>4, <3>2, <3>3, <3>4
  <2>2. CASE Finish(f, FALSE)
    BY <1>2, <1>5, <2>2 DEF ReceiveReply, Finish, Is
  <2> QED
    BY <1>5, <2>1, <2>2 DEF ReceiveReply
<1>6. CASE Timeout(f)
  BY <1>2, <1>3, <1>6 DEF Timeout, Finish, Is
<1>7. CASE Refresh(f)
  <2>1. ASSUME NEW n \in 0..s.left - 1, sending' = [sending EXCEPT ![f].left = n]
        PROVE  RetryInv(f)' /\ RunsOut(f)
    <3>1. Is(f, "refreshing") /\ sent' = sent /\ s.stage = "refreshing" /\ s.left \in 0..MaxRefresh
      BY <1>0, <1>7 DEF Refresh, Is, Submission
    <3>2. n \in 0..MaxRefresh /\ n < s.left /\ n <= s.left
      BY <1>0, <2>1, <3>1
    <3>3. [s EXCEPT !.left = n] = [s EXCEPT !.stage = "refreshing", !.left = n]
      BY <1>0, <3>1 DEF Submission
    <3>4. sending' = [sending EXCEPT ![f] = [s EXCEPT !.stage = "refreshing", !.left = n]]
      BY <1>0, <2>1, <3>3
    <3> QED
      BY <1>4, <3>1, <3>2, <3>4
  <2>2. CASE Finish(f, TRUE)
    BY <1>2, <1>7, <2>2 DEF Refresh, Finish, Is
  <2> QED
    BY <1>7, <2>1, <2>2 DEF Refresh
<1>8. CASE Throw(f)
  <2>1. sending' = [sending EXCEPT ![f] = [s EXCEPT !.stage = "thrown", !.left = 0]]
    BY <1>0, <1>8 DEF Throw
  <2>2. sent' = sent /\ (Is(f, "posting") \/ Is(f, "refreshing")) /\ 0 \in 0..MaxRefresh /\ 0 <= s.left
    BY <1>0, <1>1, <1>8 DEF Throw
  <2> QED
    BY <1>4, <2>1, <2>2
<1> QED
  BY <1>5, <1>6, <1>7, <1>8 DEF Wait

LEMMA StepCounts ==
  ASSUME FlowInv, NEW f \in Flows, RetryInv(f), [Next]_vars
  PROVE  RetryInv(f)' /\ RunsOut(f)
<1>0. /\ sent[f] \in Nat /\ MaxSends[f] \in Nat /\ MaxFetches \in Nat \ {0}
  BY BoundsAssumption DEF FlowInv, TypeOK
<1>1. CASE sending'[f] = sending[f] /\ sent'[f] = sent[f]
  BY <1>1 DEF RetryInv, RunsOut, FetchesLeft
<1>2. ASSUME Submit(f) PROVE RetryInv(f)' /\ RunsOut(f)
  <2> DEFINE s == [first |-> sent[f] + 1, fetch |-> sent[f] + 1,
                   key |-> Key(f, sent[f]), amount |-> amount[f],
                   stage |-> "posting", left |-> MaxRefresh]
  <2>1. /\ sending[f] = None /\ step[f] = 3 /\ sent[f] + MaxFetches <= MaxSends[f]
        /\ Fetch(f, s)
    BY <1>2 DEF Submit
  <2>2. s \in Submission /\ s.first = sent[f] + 1
    BY <1>0, <2>1, FlowKeyIsKey, BoundsAssumption
       DEF FlowInv, AmountInv, Submission, Key, FlowKey
  <2> HIDE DEF s
  <2>3. sending'[f] # None /\ sending'[f].first = sent[f] + 1 /\ sent'[f] = sent[f] + 1
    BY <2>1, <2>2, FetchCounts
  <2> QED
    BY <1>0, <2>1, <2>3 DEF RetryInv, RunsOut, FetchesLeft
<1>3. ASSUME NEW g \in Flows, g # f, Wait(g) \/ Throw(g) PROVE RetryInv(f)' /\ RunsOut(f)
  <2>1. sending[g] # None /\ sending[g] \in Submission
    BY <1>3 DEF Wait, ReceiveReply, Timeout, Refresh, Throw, Is, FlowInv, TypeOK
  <2>2. \/ sending'[f] = sending[f] /\ sent' = sent
        \/ Fetch(g, sending[g])
    BY <1>3 DEF Wait, ReceiveReply, Timeout, Refresh, Throw, Finish, FlowInv, TypeOK
  <2> QED
    BY <1>1, <1>3, <2>1, <2>2, FetchCounts
<1>4. ASSUME NEW g \in Flows, g # f, Submit(g) PROVE RetryInv(f)' /\ RunsOut(f)
  <2> DEFINE s == [first |-> sent[g] + 1, fetch |-> sent[g] + 1,
                   key |-> Key(g, sent[g]), amount |-> amount[g],
                   stage |-> "posting", left |-> MaxRefresh]
  <2>1. step[g] = 3 /\ Fetch(g, s)
    BY <1>4 DEF Submit
  <2>2. s \in Submission
    BY <2>1, FlowKeyIsKey, BoundsAssumption
       DEF FlowInv, TypeOK, AmountInv, Submission, Key, FlowKey
  <2> HIDE DEF s
  <2> QED
    BY <1>1, <1>4, <2>1, <2>2, FetchCounts
<1>5. \/ UNCHANGED <<sending, sent>>
      \/ \E g \in Flows : Submit(g) \/ Wait(g) \/ Throw(g)
  BY DEF Next, User, Open, Continue, EnterAmount, Back, Leave, Handle, vars
<1> QED
  BY <1>1, <1>2, <1>3, <1>4, <1>5, SubmissionStep

RetriesInv == \A f \in Flows : RetryInv(f)

LEMMA InitRetriesInv == Init => RetriesInv
  BY DEF Init, RetriesInv, RetryInv

LEMMA NextRetriesInv == FlowInv /\ RetriesInv /\ [Next]_vars => RetriesInv'
  BY StepCounts DEF RetriesInv

(* A submission fetches at most MaxFetches times, and its retries are cut  *)
(* short by nothing else: never by the bound on all fetches of the flow.   *)
THEOREM RetriesAreBounded ==
  Spec => [](\A f \in Flows : sending[f] # None =>
               /\ sent[f] - sending[f].first + 1 \in 1..MaxFetches
               /\ MayRetry(sending[f], sent[f]) => sent[f] < MaxSends[f])
<1> DEFINE Bounded(f) == sending[f] # None =>
               /\ sent[f] - sending[f].first + 1 \in 1..MaxFetches
               /\ MayRetry(sending[f], sent[f]) => sent[f] < MaxSends[f]
<1>1. ASSUME FlowInv, NEW f \in Flows, RetryInv(f) PROVE Bounded(f)
  <2>1. sent[f] \in Nat /\ MaxSends[f] \in Nat /\ MaxFetches \in Nat \ {0}
    BY <1>1, BoundsAssumption DEF FlowInv, TypeOK
  <2> QED
    BY <1>1, <2>1 DEF RetryInv, FetchesLeft, MayRetry
<1>2. FlowInv /\ RetriesInv => \A f \in Flows : Bounded(f)
  BY <1>1 DEF RetriesInv
<1> QED
  BY <1>2, InitFlowInv, NextFlowInv, InitRetriesInv, NextRetriesInv, PTL DEF Spec

(* Each answer and each time-out of a submission brings its end nearer,    *)
(* those of the payment and those of the refresh it awaits after it.  So   *)
(* does an error that nobody catches, and nothing else touches the         *)
(* submission, wherever the sender goes meanwhile.                         *)
THEOREM SubmissionsRunOut == Spec => [][\A f \in Flows : RunsOut(f)]_vars
<1>1. FlowInv /\ RetriesInv /\ [Next]_vars => [\A f \in Flows : RunsOut(f)]_vars
  BY StepCounts DEF RetriesInv
<1> QED
  BY <1>1, InitFlowInv, NextFlowInv, InitRetriesInv, NextRetriesInv, PTL DEF Spec
=============================================================================
