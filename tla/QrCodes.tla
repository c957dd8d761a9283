------------------------------- MODULE QrCodes -------------------------------
(***************************************************************************)
(* Payment codes: QrService.getMyQr and resolve, with the rows and the     *)
(* audit logs they write, for overlapping calls; and ScanPayScreen, which  *)
(* turns a scanned code into the recipient of a payment.                   *)
(*                                                                         *)
(* A step of a call is one round trip to the database.  Nothing in the     *)
(* repository deactivates a code, gives it a date of expiry or deletes a   *)
(* user, so the refusals for those (qr.service.ts:69-71, 111-116) are not  *)
(* reached and not modelled.                                               *)
(***************************************************************************)
EXTENDS Integers, FiniteSets

CONSTANTS
  Users,
  TwoLetter,     \* the users whose country is two letters, as resolve wants
  PayIds,        \* the values of randomBytes(4)
  MaxCalls,      \* bound on the HTTP requests, those of a retry included
  MaxKeys,       \* bound on the changes of QR_SECRET_KEY
  MaxTime,       \* bound on the clock of the database
  MaxScans,      \* bound on the resolutions the scanner asks for
  None

ASSUME CountryAssumption == TwoLetter \subseteq Users
ASSUME BoundsAssumption == {MaxCalls, MaxKeys, MaxTime, MaxScans} \subseteq Nat

Calls == 1..MaxCalls

VARIABLES
  code,      \* code[p]: the row of qr_codes with that pay_id, or None
  secret,    \* QR_SECRET_KEY of the running server, by its number
  now,       \* the clock
  call,      \* where each request is in its handler
  scans,     \* QR_SCAN logs of each pay_id
  resolves,  \* QR_RESOLVE logs of each pay_id
  shown,     \* pairs <<u, p>>: p was answered to u as his code
  screen,    \* what the navigator shows: see Screens
  scan,      \* the state of ScanPayScreen
  payee      \* whom the send flow was opened for, and the code he was found by

database == <<code, scans, resolves>>
app == <<screen, scan, payee>>
vars == <<database, secret, now, call, shown, app>>

(* Two calls may be given one createdAt, and a later row an earlier one.   *)
Code == [user : Users, at : 0..MaxTime, secret : 0..MaxKeys]
ASSUME NoneAssumption == None \notin Users \cup PayIds \cup Nat \cup Code

Call == [op : {"my", "resolve"}, stage : {"find", "user", "create", "scan", "read", "log", "done"},
         user : Users \cup {None}, id : PayIds \cup {None}, at : 0..MaxTime,
         had : BOOLEAN,   \* history: the user had a code when he asked
         code : {"none", "ok", "notFound", "badFormat", "badSignature", "error"}]

(* The stack of routes above the home screen; the dialog is _manualEntry's. *)
Screens == {"home", "scan", "dialog", "flow", "flowOverScan"}

Idle == [op |-> "my", stage |-> "done", user |-> None, id |-> None, at |-> 0,
         had |-> FALSE, code |-> "none"]
(* Requests are numbered in the order they arrive. *)
Unused(c) == call[c] = Idle /\ \A d \in 1..(c - 1) : call[d] # Idle

Init ==
  /\ code = [p \in PayIds |-> None]
  /\ secret = 0
  /\ now = 0
  /\ call = [c \in Calls |-> Idle]
  /\ scans = [p \in PayIds |-> 0] /\ resolves = [p \in PayIds |-> 0]
  /\ shown = {}
  /\ screen = "home"
  /\ scan = [handled |-> FALSE, resolving |-> FALSE, call |-> None, used |-> 0]
  /\ payee = None

-----------------------------------------------------------------------------
(* getMyQr. *)

Goto(c, stage) == call' = [call EXCEPT ![c].stage = stage]
Done(x, how) == [x EXCEPT !.stage = "done", !.code = how, !.at = 0, !.had = FALSE]
Answer(c, how) == call' = [call EXCEPT ![c] = Done(@, how)]

CodesOf(u) == {p \in PayIds : code[p] # None /\ code[p].user = u}

(* findFirst({ userId, isActive }, orderBy createdAt desc), any of the     *)
(* newest if two were created in one millisecond; or only a recent one.    *)
Recent(u) == {p \in CodesOf(u) : code[p].at = now}
Newest(u) == {p \in CodesOf(u) : \A q \in CodesOf(u) : code[q].at <= code[p].at}

AskMyQr(c, u) ==
  /\ Unused(c)
  /\ call' = [call EXCEPT ![c] = [Idle EXCEPT !.stage = "find", !.user = u,
                                                !.had = CodesOf(u) # {}]]
  /\ UNCHANGED <<database, secret, now, shown, app>>

Show(c, p) ==
  /\ call' = [call EXCEPT ![c] = Done([@ EXCEPT !.id = p], "ok")]
  /\ shown' = shown \cup {<<call[c].user, p>>}

FindMine(c) ==
  /\ call[c].stage = "find"
  /\ IF Newest(call[c].user) # {}
     THEN \E p \in Newest(call[c].user) : Show(c, p)
     ELSE Goto(c, "user") /\ UNCHANGED shown
  /\ UNCHANGED <<database, secret, now, app>>

(* A row dated by a clock that is ahead of the one now() reads. *)
ClockAhead == now + 1
CreatedAt == now

(* user.findUnique, for the country; Prisma dates the row it then sends.   *)
FindUser(c) ==
  /\ call[c].stage = "user"
  /\ call' = [call EXCEPT ![c].stage = "create", ![c].at = CreatedAt]
  /\ UNCHANGED <<database, secret, now, shown, app>>

(* The unique index on pay_id refuses (P2002, answered 500) an identifier  *)
(* that was drawn before.  A row may be stored and the call fail after all. *)
NoPayIdIndex(p) == TRUE
PayIdIndex(p) == code[p] = None

CreateMine(c) ==
  /\ call[c].stage = "create"
  /\ \E p \in PayIds :
       \/ /\ PayIdIndex(p)
          /\ code' = [code EXCEPT ![p] = [user |-> call[c].user, at |-> call[c].at,
                                          secret |-> secret]]
          /\ Show(c, p) \/ (Answer(c, "error") /\ UNCHANGED shown)
       \/ ~PayIdIndex(p) /\ Answer(c, "error") /\ UNCHANGED <<code, shown>>
  /\ UNCHANGED <<secret, now, scans, resolves, app>>

-----------------------------------------------------------------------------
(* resolve. *)

(* LogsService.record outside a transaction: one committed row.            *)
Record(log, p) == [log EXCEPT ![p] = @ + 1]

AskResolve(c, p) ==
  call' = [call EXCEPT ![c] = [Idle EXCEPT !.op = "resolve", !.stage = "scan", !.id = p]]

(* ResolveQrDto: the format is refused before resolve is entered.  Of the  *)
(* identifiers that are drawn, only those of a longer country fail it.     *)
WellFormed(p) == code[p] = None \/ code[p].user \in TwoLetter

(* A scan that is only logged once its code is found. *)
ScanUnlogged(c) ==
  IF WellFormed(call[c].id)
  THEN Goto(c, "read") /\ scans' = IF code[call[c].id] = None THEN scans
                                   ELSE Record(scans, call[c].id)
  ELSE Answer(c, "badFormat") /\ UNCHANGED scans
LogScan(c) ==
  IF WellFormed(call[c].id)
  THEN Goto(c, "read") /\ scans' = Record(scans, call[c].id)
  ELSE Answer(c, "badFormat") /\ UNCHANGED scans

Scan(c) ==
  /\ call[c].stage = "scan"
  /\ LogScan(c)
  /\ UNCHANGED <<code, secret, now, resolves, shown, app>>

(* sign and verify: the signature is a function of the secret and pay_id.  *)
Verifies(p) == code[p].secret = secret

(* findUnique and the checks on what it found. *)
Read(c) ==
  LET p == call[c].id IN
  /\ call[c].stage = "read"
  /\ \/ code[p] = None /\ Answer(c, "notFound")
     \/ code[p] # None /\ ~Verifies(p) /\ Answer(c, "badSignature")
     \/ code[p] # None /\ Verifies(p)
        /\ call' = [call EXCEPT ![c].stage = "log", ![c].user = code[p].user]
  /\ UNCHANGED <<database, secret, now, shown, app>>

(* The second log, then the answer with the owner that was read. *)
LogResolve(c) ==
  /\ call[c].stage = "log"
  /\ resolves' = Record(resolves, call[c].id)
  /\ Answer(c, "ok") \/ Answer(c, "error")
  /\ UNCHANGED <<code, scans, secret, now, shown, app>>

-----------------------------------------------------------------------------
(* Failures, and the clock. *)

(* Any statement may fail; the call is answered 500 and what it wrote stays. *)
Break(c) ==
  /\ call[c].stage # "done"
  /\ Answer(c, "error")
  /\ UNCHANGED <<database, secret, now, shown, app>>

(* The server is started again with another key; the calls under way are   *)
(* lost.  With the same key that is Break, of each of them.                *)
Redeploy ==
  /\ secret < MaxKeys /\ secret' = secret + 1
  /\ call' = [c \in Calls |-> IF call[c].stage = "done" THEN call[c]
                              ELSE Done(call[c], "error")]
  /\ UNCHANGED <<database, now, shown, app>>

Tick == now < MaxTime /\ now' = now + 1 /\ UNCHANGED <<database, secret, call, shown, app>>

-----------------------------------------------------------------------------
(* ScanPayScreen. *)

OpenScan ==
  /\ screen = "home"
  /\ screen' = "scan"
  /\ scan' = [scan EXCEPT !.handled = FALSE, !.resolving = FALSE, !.call = None]
  /\ UNCHANGED <<database, secret, now, call, shown, payee>>

(* _onDetect, for each frame with a code, also behind the dialog; and the  *)
(* dialog's "Continuer".  What is scanned or typed is any pay_id, a screen *)
(* or a print of somebody's code among them.                               *)
MayHandle == screen \in {"scan", "dialog"} /\ ~scan.handled

Resolve(c, p) ==
  /\ MayHandle
  /\ Unused(c) /\ scan.used < MaxScans
  /\ scan' = [handled |-> TRUE, resolving |-> TRUE, call |-> c, used |-> scan.used + 1]
  /\ AskResolve(c, p)
  /\ UNCHANGED <<database, secret, now, shown, payee>>

Detect(c, p) == Resolve(c, p) /\ UNCHANGED screen

(* The button of the dialog is inert while a code is being resolved. *)
OpenDialog ==
  /\ screen = "scan" /\ ~scan.resolving
  /\ screen' = "dialog"
  /\ UNCHANGED <<database, secret, now, call, shown, scan, payee>>

Typed(c, p) == screen = "dialog" /\ Resolve(c, p) /\ screen' = "scan"

(* "Annuler", or "Continuer" when a frame was handled meanwhile.           *)
CloseDialog ==
  /\ screen = "dialog"
  /\ screen' = "scan"
  /\ UNCHANGED <<database, secret, now, call, shown, scan, payee>>

(* pushReplacementNamed replaces what is on top: the scanner, or the dialog *)
(* in front of it.                                                         *)
Opened == IF screen = "dialog" THEN "flowOverScan" ELSE "flow"

(* The answer.  A refusal starts the scanner again; an answer to a screen  *)
(* that was left (not mounted) is dropped.                                 *)
ScanAgainUnseen == scan' = [scan EXCEPT !.handled = FALSE, !.call = None]
ScanAgain == scan' = [scan EXCEPT !.handled = FALSE, !.resolving = FALSE, !.call = None]

OnAnswer ==
  /\ scan.call # None /\ call[scan.call].stage = "done"
  /\ IF call[scan.call].code = "ok"
     THEN /\ screen' = Opened
          /\ payee' = [user |-> call[scan.call].user, id |-> call[scan.call].id]
          /\ scan' = [scan EXCEPT !.call = None]
     ELSE ScanAgain /\ UNCHANGED <<screen, payee>>
  /\ UNCHANGED <<database, secret, now, call, shown>>

(* _withRetry posts again after a time-out; the first request goes on.     *)
Retry(c) ==
  /\ scan.call # None /\ Unused(c) /\ scan.used < MaxScans
  /\ scan' = [scan EXCEPT !.call = c, !.used = @ + 1]
  /\ AskResolve(c, call[scan.call].id)
  /\ UNCHANGED <<database, secret, now, shown, screen, payee>>

(* The last time-out. *)
Timeout ==
  /\ scan.call # None
  /\ ScanAgain
  /\ UNCHANGED <<database, secret, now, call, shown, screen, payee>>

(* Back, from the scanner or from the flow; the scanner under a flow that  *)
(* replaced the dialog is still there.                                     *)
Leave ==
  /\ screen \in {"scan", "flow", "flowOverScan"}
  /\ screen' = IF screen = "flowOverScan" THEN "scan" ELSE "home"
  /\ scan' = [scan EXCEPT !.call = None]
  /\ payee' = None
  /\ UNCHANGED <<database, secret, now, call, shown>>

Handler(c) ==
  FindMine(c) \/ FindUser(c) \/ CreateMine(c) \/ Scan(c) \/ Read(c) \/ LogResolve(c)

Next ==
  \/ \E c \in Calls : Handler(c) \/ Break(c) \/ Retry(c)
  \/ \E c \in Calls, u \in Users : AskMyQr(c, u)
  \/ \E c \in Calls, p \in PayIds : Detect(c, p) \/ Typed(c, p)
  \/ OpenScan \/ OpenDialog \/ CloseDialog \/ OnAnswer \/ Timeout \/ Leave
  \/ Redeploy \/ Tick

Spec == Init /\ [][Next]_vars

(* The server works on what it was asked, and Dio's time-outs end what it  *)
(* does not answer.                                                        *)
FairSpec == Spec /\ WF_vars(OnAnswer \/ Timeout) /\ \A c \in Calls : WF_vars(Handler(c))

-----------------------------------------------------------------------------
(* Properties. *)

(* The shape of the rows, the calls and the screens. *)
TypeOK ==
  /\ code \in [PayIds -> Code \cup {None}]
  /\ secret \in 0..MaxKeys /\ now \in 0..MaxTime
  /\ call \in [Calls -> Call]
  /\ scans \in [PayIds -> Nat] /\ resolves \in [PayIds -> Nat]
  /\ shown \subseteq Users \X PayIds
  /\ screen \in Screens
  /\ scan \in [handled : BOOLEAN, resolving : BOOLEAN, call : Calls \cup {None},
               used : 0..MaxScans]
  /\ payee \in [user : Users, id : PayIds] \cup {None}

(* Whoever is shown a code as his own is the one a payment by that code is *)
(* made out to, though identifiers are drawn at random and calls overlap.  *)
PaysWhoShowsIt ==
  payee # None => \A s \in shown : s[2] = payee.id => s[1] = payee.user

(* "Retourne le QR actif de l'utilisateur (en le créant si nécessaire)": a *)
(* user who has a code when he asks is never given a further one, so only  *)
(* overlapping first calls leave him with two.                             *)
KeepsHisCode == \A c \in Calls : call[c].had => call[c].stage \notin {"user", "create"}

Answered(p, codes) ==
  Cardinality({c \in Calls : call[c].op = "resolve" /\ call[c].id = p /\ call[c].code \in codes})

(* The audit: no answer about a code without its QR_SCAN, no recipient     *)
(* given without his QR_RESOLVE, and none of those without a scan.         *)
ScansAreAudited ==
  \A p \in PayIds :
    /\ Answered(p, {"ok", "notFound", "badSignature"}) <= scans[p]
    /\ Answered(p, {"ok"}) <= resolves[p]
    /\ resolves[p] <= scans[p]

(* A resolution leads to the send flow or back to a scanner that scans,    *)
(* unless the user leaves.                                                 *)
ScanEnds == scan.call # None ~> screen \notin {"scan", "dialog"} \/ ~scan.resolving
=============================================================================
