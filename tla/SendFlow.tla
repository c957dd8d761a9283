------------------------------ MODULE SendFlow ------------------------------
(***************************************************************************)
(* Sending money from the app: the screens of SendMoneyFlow, the retries   *)
(* of ApiClient.post, a network that loses and delays what it carries, and *)
(* a server that is the Ledger (module Transfers shows that it is).        *)
(*                                                                         *)
(* One sender pays one recipient in one currency.  A flow is one opening   *)
(* of the send screens; the sender may leave it and open another while a   *)
(* request of the first is still on its way.                               *)
(***************************************************************************)
EXTENDS Integers, FiniteSets

CONSTANTS
  Flows,         \* openings of the send screens
  Amounts,       \* amounts the sender may type
  Funds,         \* what the sender has at first
  MaxFetches,    \* fetches of one submission: (maxRetries + 1), each twice at most
  MaxSends,      \* bound on the fetches of each flow, over all submissions
  MaxRefresh,    \* requests of one refresh of the dashboard, its retries included
  None

ASSUME AmountsAssumption == Amounts \subseteq Nat \ {0} /\ Funds \in Nat
ASSUME BoundsAssumption ==
  MaxFetches \in Nat \ {0} /\ MaxSends \in [Flows -> Nat] /\ MaxRefresh \in Nat
ASSUME NoneAssumption ==
  None \notin [sender : {"sender", "recipient"}, receiver : {"sender", "recipient"},
               currency : {"CDF"}, amount : Nat, status : {"SUCCESS"}]

VARIABLES
  balance, rows, \* the ledger: see module Ledger
  screen,        \* "closed" before a flow is opened, "open", "left" after
  step,          \* _step: recipient, amount, confirmation, PIN, success
  amount,        \* _data.amount
  sending,       \* the submission in progress, or None
  sent,          \* fetches a flow has made so far
  net,           \* requests on their way to the server
  replies        \* answers on their way back

ledger == <<balance, rows>>
ui == <<screen, step, amount>>
vars == <<ledger, ui, sending, sent, net, replies>>

(* const _idempotencyKey = Uuid().v4(): one per flow, not per submission.  *)
KeyPerSubmission(f, n) == <<f, n>>
Key(f, n) == <<f, 0>>
Keys == UNION {{f} \X (0..MaxSends[f]) : f \in Flows}

Sender == "sender"
Recipient == "recipient"
Money == "CDF"
Server == INSTANCE Ledger WITH
  Users <- {Sender, Recipient}, Currencies <- {Money},
  Limit <- [c \in {Money} |-> Funds],
  InitialBalance <- [u \in {Sender, Recipient} |->
                       [c \in {Money} |-> IF u = Sender THEN Funds ELSE 0]]

Message == [flow : Flows, fetch : Nat, key : Keys, amount : Amounts]
Reply == [flow : Flows, fetch : Nat, code : {"ok", "refused"}]
(* first: the fetch of the submission that came first; fetch: the last     *)
(* one; amount and key: the request body, the same in each.  What _submit  *)
(* awaits is the payment, then the requests of a refresh, of which "left"  *)
(* may still be sent; or an error that nobody catches has ended it.        *)
Submission == [first : Nat, fetch : Nat, key : Keys, amount : Amounts,
               stage : {"posting", "refreshing", "thrown"}, left : 0..MaxRefresh]
Is(f, stage) == sending[f] # None /\ sending[f].stage = stage
ASSUME NoSubmissionAssumption == None \notin Submission

Init ==
  /\ Server!Init
  /\ screen = [f \in Flows |-> "closed"]
  /\ step = [f \in Flows |-> 0]
  /\ amount = [f \in Flows |-> None]
  /\ sending = [f \in Flows |-> None]
  /\ sent = [f \in Flows |-> 0]
  /\ net = {}
  /\ replies = {}

-----------------------------------------------------------------------------
(* The screens. *)

Open(f) ==
  /\ screen[f] = "closed"
  /\ \A g \in Flows : screen[g] # "open"
  /\ screen' = [screen EXCEPT ![f] = "open"]
  /\ UNCHANGED <<ledger, step, amount, sending, sent, net, replies>>

GoTo(f, s) == step' = [step EXCEPT ![f] = s]

(* Recipient and confirmation screens: _nextStep. *)
Continue(f) ==
  /\ screen[f] = "open" /\ step[f] \in {0, 2}
  /\ GoTo(f, step[f] + 1)
  /\ UNCHANGED <<ledger, screen, amount, sending, sent, net, replies>>

(* The amount may be typed again at every visit of its screen. *)
EnterAmount(f) ==
  /\ screen[f] = "open" /\ step[f] = 1
  /\ \E a \in Amounts : amount' = [amount EXCEPT ![f] = a]
  /\ GoTo(f, 2)
  /\ UNCHANGED <<ledger, screen, sending, sent, net, replies>>

(* _prevStep that never leaves the flow. *)
BackPastFirst(f) ==
  /\ screen[f] = "open" /\ step[f] < 4
  /\ GoTo(f, step[f] - 1)
  /\ UNCHANGED <<ledger, screen, amount, sending, sent, net, replies>>

(* _prevStep, on every screen but the last, also while a request runs. *)
Back(f) ==
  /\ screen[f] = "open" /\ step[f] < 4
  /\ IF step[f] = 0
     THEN screen' = [screen EXCEPT ![f] = "left"] /\ UNCHANGED step
     ELSE GoTo(f, step[f] - 1) /\ UNCHANGED screen
  /\ UNCHANGED <<ledger, amount, sending, sent, net, replies>>

(* "Terminé" on the last screen, or the back gesture of the system, which  *)
(* pops the whole flow from any screen, also while a request runs.         *)
Leave(f) ==
  /\ screen[f] = "open"
  /\ screen' = [screen EXCEPT ![f] = "left"]
  /\ UNCHANGED <<ledger, step, amount, sending, sent, net, replies>>

-----------------------------------------------------------------------------
(* The request and its retries. *)

Fetch(f, s) ==
  /\ sent' = [sent EXCEPT ![f] = @ + 1]
  /\ sending' = [sending EXCEPT ![f] = [s EXCEPT !.fetch = sent[f] + 1]]
  /\ net' = net \cup {[flow |-> f, fetch |-> sent[f] + 1, key |-> s.key,
                       amount |-> s.amount]}

(* _submit, from the PIN screen; its button is inert while one runs. *)
Submit(f) ==
  /\ screen[f] = "open" /\ step[f] = 3 /\ sending[f] = None
  /\ sent[f] + MaxFetches <= MaxSends[f]
  /\ Fetch(f, [first |-> sent[f] + 1, fetch |-> sent[f] + 1,
               key |-> Key(f, sent[f]), amount |-> amount[f],
               stage |-> "posting", left |-> MaxRefresh])
  /\ UNCHANGED <<ledger, ui, replies>>

(* The end of _submit: success moves one screen on from wherever the       *)
(* sender is now, failure leaves the screen and toasts; a flow that was    *)
(* left (not mounted) shows nothing.                                       *)
FinishUnchecked(f, success) ==
  /\ sending' = [sending EXCEPT ![f] = None]
  /\ IF screen[f] = "open" THEN GoTo(f, step[f] + 1) ELSE UNCHANGED step

Finish(f, success) ==
  /\ sending' = [sending EXCEPT ![f] = None]
  /\ IF screen[f] = "open" /\ success THEN GoTo(f, step[f] + 1) ELSE UNCHANGED step

(* A refusal ends the submission; a payment is followed by a refresh of    *)
(* the dashboard, which the submission awaits.                             *)
ReceiveReply(f) ==
  /\ Is(f, "posting")
  /\ \E m \in replies :
       /\ m.flow = f /\ m.fetch = sending[f].fetch
       /\ \/ /\ m.code = "ok"
             /\ sending' = [sending EXCEPT ![f].stage = "refreshing"]
             /\ UNCHANGED step
          \/ m.code = "refused" /\ Finish(f, FALSE)
       /\ replies' = replies \ {m}
  /\ UNCHANGED <<ledger, screen, amount, sent, net>>

(* refreshDashboard: the GETs of the wallet and of the history, together.  *)
(* Each request is answered, fails or is retried, and whichever it is the  *)
(* refresh ends without an error; only then is the success reported.       *)
Refresh(f) ==
  /\ Is(f, "refreshing")
  /\ \/ \E n \in 0..sending[f].left - 1 : sending' = [sending EXCEPT ![f].left = n]
        /\ UNCHANGED step
     \/ sending[f].left = 0 /\ Finish(f, TRUE)
  /\ UNCHANGED <<ledger, screen, amount, sent, net, replies>>

(* An error that is no ApiException: the plugin that saves the URL fails   *)
(* during a recovery, or the answer lacks a field of the record that is    *)
(* built from it.  WalletStore.send passes it on, and _submit, which has   *)
(* no finally, leaves _submitting set.                                     *)
Throw(f) ==
  /\ Is(f, "posting") \/ Is(f, "refreshing")
  /\ sending' = [sending EXCEPT ![f].stage = "thrown", ![f].left = 0]
  /\ replies' = {m \in replies : m.flow # f}
  /\ UNCHANGED <<ledger, ui, sent, net>>

(* A timeout or a lost connection is retried with the same body, until the *)
(* retries are used up.  The request may still reach the server.           *)
UnboundedRetry(s, n) == TRUE
MayRetry(s, n) == n - s.first + 1 < MaxFetches

Timeout(f) ==
  /\ Is(f, "posting")
  /\ \/ /\ MayRetry(sending[f], sent[f]) /\ sent[f] < MaxSends[f]
        /\ Fetch(f, sending[f])
        /\ UNCHANGED step
     \/ /\ ~MayRetry(sending[f], sent[f])
        /\ Finish(f, FALSE)
        /\ UNCHANGED <<sent, net>>
  /\ replies' = {m \in replies : m.flow # f}
  /\ UNCHANGED <<ledger, screen, amount>>

-----------------------------------------------------------------------------
(* The server and the network. *)

(* An answer to a fetch that timed out finds its connection closed. *)
Answer(m, code) ==
  replies' = replies \cup
    {[flow |-> f, fetch |-> m.fetch, code |-> code] :
       f \in {g \in {m.flow} : Is(g, "posting") /\ sending[g].fetch = m.fetch}}

(* A request that is lost is one that is never handled, and a lost answer  *)
(* one that comes after the timeout.                                       *)
(* A key seen before gets its transaction back; a new one is executed if   *)
(* the funds allow; any request may be answered 500 with nothing done.     *)
Handle(m) ==
  /\ net' = net \ {m}
  /\ \/ rows[m.key] # None /\ Answer(m, "ok") /\ UNCHANGED ledger
     \/ /\ rows[m.key] = None /\ m.amount <= balance[Sender][Money]
        /\ Server!Execute(m.key, Sender, Recipient, Money, m.amount)
        /\ Answer(m, "ok") \/ Answer(m, "refused")
     \/ Answer(m, "refused") /\ UNCHANGED ledger
  /\ UNCHANGED <<ui, sending, sent>>

(* What a submission awaits: an answer or a timeout, of one request or another. *)
Wait(f) == ReceiveReply(f) \/ Timeout(f) \/ Refresh(f)

User(f) == Open(f) \/ Continue(f) \/ EnterAmount(f) \/ Back(f) \/ Leave(f) \/ Submit(f)

Next ==
  \/ \E f \in Flows : User(f) \/ Wait(f) \/ Throw(f)
  \/ \E m \in net : Handle(m)

Spec == Init /\ [][Next]_vars

(* Dio's timeouts end every fetch that no answer ends.  Nothing else is    *)
(* owed: neither the network nor the sender has to do anything.            *)
FairSpec == Spec /\ \A f \in Flows : WF_vars(Wait(f))

-----------------------------------------------------------------------------
(* Properties. *)

(* The shape of the app's and the network's state. *)
TypeOK ==
  /\ screen \in [Flows -> {"closed", "open", "left"}]
  /\ step \in [Flows -> 0..4]
  /\ amount \in [Flows -> Amounts \cup {None}]
  /\ sending \in [Flows -> Submission \cup {None}]
  /\ sent \in [Flows -> Nat] /\ \A f \in Flows : sent[f] <= MaxSends[f]
  /\ net \subseteq Message /\ replies \subseteq Reply
  /\ DOMAIN rows = Keys

Paid(f) == {k \in Keys : k[1] = f /\ rows[k] # None}

(* "réessais sûrs": however often a flow is submitted and its requests are *)
(* retried, delayed or answered late, it pays once.                        *)
OnePaymentPerFlow == \A f \in Flows : Cardinality(Paid(f)) <= 1

(* The success screen is only reached by a flow that has paid. *)
SuccessIsPaid == \A f \in Flows : step[f] = 4 => Paid(f) # {}

(* A submission ends, so the PIN button is usable again, whatever is lost  *)
(* of the payment or of the refresh after it, unless an error is thrown    *)
(* that nobody catches: then the button spins until the flow is left.      *)
SubmissionEnds ==
  \A f \in Flows : sending[f] # None ~> sending[f] = None \/ Is(f, "thrown")

(* The doc comment of the flow leads from the amount through confirmation  *)
(* and PIN to success: what the success screen says was sent is what the   *)
(* flow has paid.                                                          *)
SuccessShowsThePayment ==
  \A f \in Flows : step[f] = 4 => \A k \in Paid(f) : rows[k].amount = amount[f]
=============================================================================
