---------------------------- MODULE QrCodesProofs ----------------------------
(***************************************************************************)
(* Proofs about QrCodes, for any users, identifiers and number of calls.   *)
(***************************************************************************)
EXTENDS QrCodes, FiniteSetTheorems, DataLemmas, TLAPS

-----------------------------------------------------------------------------
(* A code is never rewritten, so what a call has read of it stays true.    *)

Owner(u, p) == code[p] # None /\ code[p].user = u

Resolved(c) ==
  \/ call[c].stage = "log"
  \/ call[c].op = "resolve" /\ call[c].code = "ok"

CallInv(c) ==
  /\ call[c].stage \in {"find", "user", "create"}
       => call[c].op = "my" /\ call[c].user \in Users
  /\ call[c].stage \in {"scan", "read", "log"}
       => call[c].op = "resolve" /\ call[c].code = "none"
  /\ call[c].op = "resolve" => call[c].id \in PayIds
  /\ call[c].code # "none" => call[c].stage = "done"
  /\ Resolved(c) => Owner(call[c].user, call[c].id)

(* Whoever had a code when he asked still has one. *)
HadInv(c) ==
  call[c].had => call[c].stage = "find" /\ CodesOf(call[c].user) # {}

ScanInv == scan.call # None => call[scan.call].op = "resolve"

ShownInv == \A s \in shown : Owner(s[1], s[2])

PayeeInv == payee # None => Owner(payee.user, payee.id)

QrInv ==
  /\ TypeOK
  /\ \A c \in Calls : CallInv(c) /\ HadInv(c)
  /\ ScanInv /\ ShownInv /\ PayeeInv

CodesKept == \A p \in PayIds : code[p] # None => code'[p] = code[p]

-----------------------------------------------------------------------------

LEMMA Constant == Calls \subseteq Nat /\ None \notin Calls /\ 0 \in 0..MaxTime /\ 0 \in 0..MaxScans
  BY BoundsAssumption, NoneAssumption DEF Calls

LEMMA IdleType == Idle \in Call /\ Idle.stage = "done" /\ Idle.op = "my" /\ ~Idle.had
                  /\ Idle.code = "none"
  BY Constant DEF Idle, Call

LEMMA InitQrInv == Init => QrInv
<1> SUFFICES ASSUME Init PROVE QrInv
  OBVIOUS
<1> USE DEF Init
<1>1. TypeOK
  BY IdleType, BoundsAssumption DEF TypeOK, Screens
<1>2. ASSUME NEW c \in Calls PROVE CallInv(c) /\ HadInv(c)
  BY IdleType DEF CallInv, HadInv, Resolved
<1>3. ScanInv /\ ShownInv /\ PayeeInv
  BY DEF ScanInv, ShownInv, PayeeInv
<1> QED
  BY <1>1, <1>2, <1>3 DEF QrInv

(* A user with a code has a newest one, for dates are bounded numbers. *)
LEMMA NewestExists ==
  ASSUME TypeOK, NEW u, CodesOf(u) # {}
  PROVE  Newest(u) # {}
<1> DEFINE Ages == {MaxTime - code[p].at : p \in CodesOf(u)}
<1>1. MaxTime \in Nat
  BY BoundsAssumption
<1>2. \A p \in CodesOf(u) : p \in PayIds /\ code[p].at \in 0..MaxTime
  BY DEF TypeOK, CodesOf, Code
<1>3. Ages \subseteq Nat /\ Ages # {}
  BY <1>1, <1>2
<1>4. PICK m \in Ages : \A k \in Ages : m <= k
  BY <1>3, LeastNatural
<1>5. PICK p \in CodesOf(u) : m = MaxTime - code[p].at
  OBVIOUS
<1>6. ASSUME NEW q \in CodesOf(u) PROVE code[q].at <= code[p].at
  <2>1. m <= MaxTime - code[q].at
    BY <1>4
  <2> QED
    BY <1>1, <1>2, <1>5, <2>1
<1> QED
  BY <1>2, <1>6 DEF Newest

(* Codes are written once, in rows that were free. *)
LEMMA CodesStay ==
  ASSUME TypeOK, [Next]_vars
  PROVE  CodesKept
<1>1. CASE UNCHANGED code
  BY <1>1 DEF CodesKept
<1>2. ASSUME NEW c \in Calls, CreateMine(c) PROVE CodesKept
  BY <1>2 DEF CreateMine, PayIdIndex, CodesKept, TypeOK
<1>3. ASSUME NEW c \in Calls,
             \/ FindMine(c) \/ FindUser(c) \/ Scan(c) \/ Read(c) \/ LogResolve(c)
             \/ Break(c) \/ Retry(c)
      PROVE  UNCHANGED code
  BY <1>3 DEF FindMine, FindUser, Scan, Read, LogResolve, Break, Retry, database
<1>4. ASSUME NEW c \in Calls, NEW u, AskMyQr(c, u) PROVE UNCHANGED code
  BY <1>4 DEF AskMyQr, database
<1>5. ASSUME NEW c \in Calls, NEW p, Detect(c, p) \/ Typed(c, p) PROVE UNCHANGED code
  BY <1>5 DEF Detect, Typed, Resolve, database
<1>6. CASE OpenScan \/ OpenDialog \/ CloseDialog \/ OnAnswer \/ Timeout \/ Leave
           \/ Redeploy \/ Tick \/ UNCHANGED vars
  BY <1>1, <1>6 DEF OpenScan, OpenDialog, CloseDialog, OnAnswer, Timeout, Leave,
                   Redeploy, Tick, database, vars
<1>7. CASE \E c \in Calls : Handler(c) \/ Break(c) \/ Retry(c)
  BY <1>1, <1>2, <1>3, <1>7 DEF Handler
<1>8. CASE \E c \in Calls, u \in Users : AskMyQr(c, u)
  BY <1>1, <1>4, <1>8
<1>9. CASE \E c \in Calls, p \in PayIds : Detect(c, p) \/ Typed(c, p)
  BY <1>1, <1>5, <1>9
<1> QED
  BY <1>1, <1>6, <1>7, <1>8, <1>9 DEF Next

(* What other steps leave true of a call. *)
LEMMA OtherCall ==
  ASSUME QrInv, CodesKept, NEW d \in Calls, call'[d] = call[d]
  PROVE  (CallInv(d) /\ HadInv(d))'
<1>1. CallInv(d) /\ HadInv(d)
  BY DEF QrInv
<1>2. CallInv(d)'
  BY <1>1 DEF CallInv, Resolved, Owner, CodesKept
<1>3. \A u : CodesOf(u) # {} => CodesOf(u)' # {}
  BY DEF CodesOf, CodesKept
<1> QED
  BY <1>1, <1>2, <1>3 DEF HadInv

(* A step of one call, and nothing of the app. *)
CallStep(c) ==
  /\ \A d \in Calls \ {c} : call'[d] = call[d]
  /\ call'[c].op = call[c].op
  /\ UNCHANGED app

LEMMA CallStepInv ==
  ASSUME QrInv, [Next]_vars, TypeOK', NEW c \in Calls, CallStep(c),
         (CallInv(c) /\ HadInv(c))', \A s \in shown' \ shown : Owner(s[1], s[2])'
  PROVE  QrInv'
<1>1. CodesKept
  BY CodesStay DEF QrInv
<1>2. \A d \in Calls : (CallInv(d) /\ HadInv(d))'
  BY <1>1, OtherCall DEF CallStep
<1>3. ScanInv'
  BY DEF QrInv, TypeOK, ScanInv, CallStep, app
<1>4. ShownInv'
  <2>1. \A s \in shown : Owner(s[1], s[2])'
    BY <1>1 DEF QrInv, TypeOK, ShownInv, Owner, CodesKept
  <2> QED
    BY <2>1 DEF ShownInv
<1>5. PayeeInv'
  BY <1>1 DEF QrInv, TypeOK, PayeeInv, Owner, CodesKept, CallStep, app
<1> QED
  BY <1>2, <1>3, <1>4, <1>5 DEF QrInv

(* A call that is answered, and one that goes on. *)
LEMMA DoneInv ==
  ASSUME QrInv, NEW c \in Calls, NEW x \in Call, x.op = call[c].op,
         NEW how \in {"ok", "notFound", "badFormat", "badSignature", "error"},
         call' = [call EXCEPT ![c] = Done(x, how)],
         x.op = "resolve" => x.id = call[c].id /\ (how = "ok" => Owner(x.user, x.id)')
  PROVE  /\ call' \in [Calls -> Call] /\ (CallInv(c) /\ HadInv(c))'
         /\ \A d \in Calls \ {c} : call'[d] = call[d]
         /\ call'[c].op = call[c].op
<1>1. call \in [Calls -> Call] /\ (call[c].op = "resolve" => call[c].id \in PayIds)
  BY DEF QrInv, TypeOK, CallInv
<1>2. Done(x, how) \in Call
  BY Constant DEF Done, Call
<1>3. /\ Done(x, how).stage = "done" /\ Done(x, how).op = x.op /\ Done(x, how).id = x.id
      /\ Done(x, how).code = how /\ Done(x, how).user = x.user /\ Done(x, how).had = FALSE
  BY DEF Done, Call
<1>4. call'[c] = Done(x, how)
  BY <1>1
<1>5. CallInv(c)'
  BY <1>1, <1>3, <1>4 DEF CallInv, Resolved, Owner
<1> QED
  BY <1>1, <1>2, <1>3, <1>4, <1>5 DEF HadInv

LEMMA GotoInv ==
  ASSUME QrInv, NEW c \in Calls, NEW x \in Call, x.op = call[c].op, x.code = "none",
         call' = [call EXCEPT ![c] = x], ~x.had,
         x.stage \in {"user", "create"} => x.op = "my" /\ x.user \in Users,
         x.stage \in {"read", "log"} => x.op = "resolve" /\ x.id \in PayIds,
         x.stage = "log" => Owner(x.user, x.id)',
         x.stage \in {"user", "create", "read", "log"}
  PROVE  /\ call' \in [Calls -> Call] /\ (CallInv(c) /\ HadInv(c))'
         /\ \A d \in Calls \ {c} : call'[d] = call[d]
         /\ call'[c].op = call[c].op
<1>1. call \in [Calls -> Call] /\ (call[c].op = "resolve" => call[c].id \in PayIds)
  BY DEF QrInv, TypeOK, CallInv
<1>2. call'[c] = x
  BY <1>1
<1>3. CallInv(c)'
  BY <1>1, <1>2 DEF CallInv, Resolved, Owner
<1> QED
  BY <1>1, <1>2, <1>3 DEF HadInv

LEMMA MyQrInv ==
  ASSUME QrInv, NEW c \in Calls, FindMine(c) \/ FindUser(c) \/ CreateMine(c)
  PROVE  /\ TypeOK' /\ CallStep(c) /\ (CallInv(c) /\ HadInv(c))'
         /\ \A s \in shown' \ shown : Owner(s[1], s[2])'
<1>1. /\ call[c] \in Call /\ call \in [Calls -> Call] /\ TypeOK /\ HadInv(c)
      /\ call[c].stage \in {"find", "user", "create"} /\ call[c].op = "my"
      /\ call[c].user \in Users /\ call[c].code = "none" /\ call[c].at \in 0..MaxTime
  <2>1. call[c].stage \in {"find", "user", "create"}
    BY DEF FindMine, FindUser, CreateMine
  <2> QED
    BY <2>1 DEF QrInv, TypeOK, CallInv, Call
<1>2. ASSUME NEW p \in PayIds, Show(c, p), code'[p] # None, code'[p].user = call[c].user
      PROVE  /\ call' \in [Calls -> Call] /\ (CallInv(c) /\ HadInv(c))'
             /\ \A d \in Calls \ {c} : call'[d] = call[d]
             /\ call'[c].op = call[c].op
             /\ \A s \in shown' \ shown : Owner(s[1], s[2])'
             /\ shown' \subseteq Users \X PayIds
  <2> DEFINE x == [call[c] EXCEPT !.id = p]
  <2>1. x \in Call /\ x.op = call[c].op
    BY <1>1 DEF Call
  <2>2. call' = [call EXCEPT ![c] = Done(x, "ok")]
    BY <1>1, <1>2 DEF Show
  <2>3. \A s \in shown' \ shown : s = <<call[c].user, p>>
    BY <1>2 DEF Show
  <2>4. \A s \in shown' \ shown : Owner(s[1], s[2])'
    BY <1>2, <2>3 DEF Owner
  <2>5. shown' \subseteq Users \X PayIds
    BY <1>1, <1>2 DEF Show, TypeOK
  <2> HIDE DEF x
  <2> QED
    BY <1>1, <2>1, <2>2, <2>4, <2>5, DoneInv
<1>3. CASE FindMine(c)
  <2>1. UNCHANGED <<database, secret, now, app>>
    BY <1>3 DEF FindMine
  <2>2. CASE Newest(call[c].user) # {}
    <3>1. PICK p \in Newest(call[c].user) : Show(c, p)
      BY <1>3, <2>2 DEF FindMine
    <3>2. p \in PayIds /\ code'[p] # None /\ code'[p].user = call[c].user
      BY <2>1, <3>1 DEF Newest, CodesOf, database
    <3> QED
      BY <1>1, <1>2, <2>1, <3>1, <3>2 DEF TypeOK, CallStep, database, app
  <2>3. CASE Newest(call[c].user) = {}
    <3> DEFINE x == [call[c] EXCEPT !.stage = "user"]
    <3>1. ~call[c].had
      BY <1>1, <2>3, NewestExists DEF HadInv
    <3>2. /\ x \in Call /\ x.op = "my" /\ x.code = "none" /\ x.stage = "user"
          /\ x.user = call[c].user /\ ~x.had
      BY <1>1, <3>1 DEF Call
    <3>3. call' = [call EXCEPT ![c] = x] /\ shown' = shown
      BY <1>1, <1>3, <2>3 DEF FindMine, Goto
    <3> HIDE DEF x
    <3>4. /\ call' \in [Calls -> Call] /\ (CallInv(c) /\ HadInv(c))'
          /\ \A d \in Calls \ {c} : call'[d] = call[d]
          /\ call'[c].op = call[c].op
      BY <1>1, <3>2, <3>3, GotoInv
    <3> QED
      BY <1>1, <2>1, <3>3, <3>4 DEF TypeOK, CallStep, database, app
  <2> QED
    BY <2>2, <2>3
<1>4. CASE FindUser(c)
  <2> DEFINE x == [call[c] EXCEPT !.stage = "create", !.at = now]
  <2>1. /\ call[c].stage = "user" /\ call' = [call EXCEPT ![c] = x]
        /\ UNCHANGED <<database, secret, now, shown, app>>
    BY <1>1, <1>4 DEF FindUser, CreatedAt
  <2>2. /\ x \in Call /\ x.op = "my" /\ x.code = "none" /\ x.stage = "create"
        /\ x.user = call[c].user /\ ~x.had
    BY <1>1, <2>1 DEF Call, TypeOK, HadInv
  <2> HIDE DEF x
  <2>3. /\ call' \in [Calls -> Call] /\ (CallInv(c) /\ HadInv(c))'
        /\ \A d \in Calls \ {c} : call'[d] = call[d]
        /\ call'[c].op = call[c].op
    BY <1>1, <2>1, <2>2, GotoInv
  <2> QED
    BY <1>1, <2>1, <2>3 DEF TypeOK, CallStep, database, app
<1>5. CASE CreateMine(c)
  <2>1. UNCHANGED <<secret, now, scans, resolves, app>>
    BY <1>5 DEF CreateMine
  <2>2. CASE Answer(c, "error") /\ UNCHANGED shown /\ code' \in [PayIds -> Code \cup {None}]
    <3>1. call' = [call EXCEPT ![c] = Done(call[c], "error")]
      BY <1>1, <2>2 DEF Answer
    <3>2. /\ call' \in [Calls -> Call] /\ (CallInv(c) /\ HadInv(c))'
          /\ \A d \in Calls \ {c} : call'[d] = call[d]
          /\ call'[c].op = call[c].op
      BY <1>1, <3>1, DoneInv
    <3> QED
      BY <1>1, <2>1, <2>2, <3>2 DEF TypeOK, CallStep, app
  <2>3. ASSUME NEW p \in PayIds,
               code' = [code EXCEPT ![p] = [user |-> call[c].user, at |-> call[c].at,
                                            secret |-> secret]]
        PROVE  /\ code' \in [PayIds -> Code \cup {None}]
               /\ code'[p] # None /\ code'[p].user = call[c].user
    <3>1. [user |-> call[c].user, at |-> call[c].at, secret |-> secret] \in Code
      BY <1>1 DEF TypeOK, Code
    <3> QED
      BY <1>1, <2>3, <3>1, NoneAssumption DEF TypeOK
  <2>4. ASSUME NEW p \in PayIds, Show(c, p),
               code' = [code EXCEPT ![p] = [user |-> call[c].user, at |-> call[c].at,
                                            secret |-> secret]]
        PROVE  /\ TypeOK' /\ CallStep(c) /\ (CallInv(c) /\ HadInv(c))'
               /\ \A s \in shown' \ shown : Owner(s[1], s[2])'
    BY <1>1, <1>2, <2>1, <2>3, <2>4 DEF TypeOK, CallStep, app
  <2> QED
    BY <1>1, <1>5, <2>2, <2>3, <2>4 DEF CreateMine, TypeOK
<1> QED
  BY <1>3, <1>4, <1>5

LEMMA ResolveInv ==
  ASSUME QrInv, NEW c \in Calls, Scan(c) \/ Read(c) \/ LogResolve(c) \/ Break(c)
  PROVE  TypeOK' /\ CallStep(c) /\ (CallInv(c) /\ HadInv(c))' /\ shown' = shown
<1>1. /\ call[c] \in Call /\ call \in [Calls -> Call] /\ TypeOK /\ HadInv(c) /\ CallInv(c)
  BY DEF QrInv, TypeOK
<1>2. /\ UNCHANGED <<code, secret, now, shown, app>>
      /\ scans' \in [PayIds -> Nat] /\ resolves' \in [PayIds -> Nat]
  <2>1. \A p \in PayIds : \A log \in [PayIds -> Nat] : Record(log, p) \in [PayIds -> Nat]
    BY DEF Record
  <2>2. CASE Scan(c)
    <3>1. call[c].id \in PayIds
      BY <1>1, <2>2 DEF Scan, CallInv
    <3> QED
      BY <1>1, <2>1, <2>2, <3>1 DEF Scan, LogScan, TypeOK
  <2>3. CASE LogResolve(c)
    <3>1. call[c].id \in PayIds
      BY <1>1, <2>3 DEF LogResolve, CallInv
    <3> QED
      BY <1>1, <2>1, <2>3, <3>1 DEF LogResolve, TypeOK
  <2>4. CASE Read(c) \/ Break(c)
    BY <1>1, <2>4 DEF Read, Break, database, TypeOK
  <2> QED
    BY <2>2, <2>3, <2>4
<1> DEFINE Goal == /\ call' \in [Calls -> Call] /\ (CallInv(c) /\ HadInv(c))'
                   /\ \A d \in Calls \ {c} : call'[d] = call[d]
                   /\ call'[c].op = call[c].op
<1>3. SUFFICES Goal
  BY <1>1, <1>2 DEF TypeOK, CallStep, app
<1>4. ASSUME NEW how \in {"notFound", "badFormat", "badSignature", "error"}, Answer(c, how)
      PROVE  Goal
  <2>1. call' = [call EXCEPT ![c] = Done(call[c], how)]
    BY <1>1, <1>4 DEF Answer
  <2> QED
    BY <1>1, <2>1, DoneInv
<1>5. CASE Scan(c)
  <2>1. CASE Goto(c, "read")
    <3> DEFINE x == [call[c] EXCEPT !.stage = "read"]
    <3>1. call' = [call EXCEPT ![c] = x] /\ call[c].stage = "scan"
      BY <1>1, <1>5, <2>1 DEF Goto, Scan
    <3>2. /\ x \in Call /\ x.op = "resolve" /\ x.code = "none" /\ x.stage = "read"
          /\ x.id \in PayIds /\ ~x.had /\ x.op = call[c].op
      BY <1>1, <3>1 DEF Call, CallInv, HadInv
    <3> HIDE DEF x
    <3> QED
      BY <3>1, <3>2, GotoInv
  <2> QED
    BY <1>4, <1>5, <2>1 DEF Scan, LogScan
<1>6. CASE Read(c)
  <2> DEFINE p == call[c].id
             x == [call[c] EXCEPT !.stage = "log", !.user = code[p].user]
  <2>1. CASE code[p] # None /\ call' = [call EXCEPT ![c].stage = "log", ![c].user = code[p].user]
    <3>1. call[c].stage = "read" /\ call[c].op = "resolve" /\ p \in PayIds
      BY <1>1, <1>6 DEF Read, CallInv
    <3>2. call' = [call EXCEPT ![c] = x] /\ code[p].user \in Users
      BY <1>1, <2>1, <3>1 DEF TypeOK, Code
    <3>3. /\ x \in Call /\ x.op = "resolve" /\ x.code = "none" /\ x.stage = "log"
          /\ x.id = p /\ x.user = code[p].user /\ ~x.had
      BY <1>1, <3>1, <3>2 DEF Call, CallInv, HadInv
    <3>4. code'[x.id] # None /\ code'[x.id].user = x.user
      BY <1>2, <2>1, <3>3
    <3> HIDE DEF x
    <3> QED
      BY <3>1, <3>2, <3>3, <3>4, GotoInv DEF Owner
  <2> QED
    BY <1>4, <1>6, <2>1 DEF Read
<1>7. CASE LogResolve(c)
  <2>1. CASE Answer(c, "ok")
    <3>1. call' = [call EXCEPT ![c] = Done(call[c], "ok")]
      BY <1>1, <2>1 DEF Answer
    <3>2. code'[call[c].id] # None /\ code'[call[c].id].user = call[c].user
      BY <1>1, <1>2, <1>7 DEF LogResolve, CallInv, Resolved, Owner
    <3> QED
      BY <1>1, <3>1, <3>2, DoneInv DEF Owner
  <2> QED
    BY <1>4, <1>7, <2>1 DEF LogResolve
<1>8. CASE Break(c)
  BY <1>4, <1>8 DEF Break
<1> QED
  BY <1>5, <1>6, <1>7, <1>8

(* A new request. *)
LEMMA AskMyQrInv ==
  ASSUME QrInv, NEW c \in Calls, NEW u \in Users, AskMyQr(c, u)
  PROVE  TypeOK' /\ CallStep(c) /\ (CallInv(c) /\ HadInv(c))' /\ shown' = shown
<1> DEFINE x == [Idle EXCEPT !.stage = "find", !.user = u, !.had = CodesOf(u) # {}]
<1>1. /\ TypeOK /\ call \in [Calls -> Call] /\ call[c] = Idle
      /\ call' = [call EXCEPT ![c] = x]
      /\ UNCHANGED <<database, secret, now, shown, app>>
  BY DEF QrInv, TypeOK, AskMyQr, Unused
<1>2. (CodesOf(u) # {}) \in BOOLEAN
  OBVIOUS
<1>3. /\ x \in Call /\ x.op = "my" /\ x.code = "none" /\ x.stage = "find" /\ x.user = u
      /\ x.had = (CodesOf(u) # {})
  BY <1>2, IdleType DEF Call
<1> HIDE DEF x
<1>4. call'[c] = x /\ call' \in [Calls -> Call] /\ \A d \in Calls \ {c} : call'[d] = call[d]
  BY <1>1, <1>3
<1>5. CodesOf(u)' = CodesOf(u)
  BY <1>1 DEF CodesOf, database
<1>6. (CallInv(c) /\ HadInv(c))'
  BY <1>3, <1>4, <1>5 DEF CallInv, HadInv, Resolved, CodesOf
<1>7. TypeOK'
  BY <1>1, <1>4 DEF TypeOK, database, app
<1> QED
  BY <1>1, <1>3, <1>4, <1>6, <1>7, IdleType DEF CallStep, database, app

(* The scanner's request: of a scanned or typed code, or of a retry. *)
LEMMA AskResolveInv ==
  ASSUME QrInv, [Next]_vars, NEW c \in Calls, NEW p \in PayIds, call[c] = Idle,
         AskResolve(c, p), scan' \in [handled : BOOLEAN, resolving : BOOLEAN,
                                      call : {c}, used : 0..MaxScans],
         screen' \in Screens, UNCHANGED <<database, secret, now, shown, payee>>
  PROVE  QrInv'
<1> DEFINE x == [Idle EXCEPT !.op = "resolve", !.stage = "scan", !.id = p]
<1>1. /\ TypeOK /\ call \in [Calls -> Call] /\ CodesKept
      /\ call' = [call EXCEPT ![c] = x]
  BY CodesStay DEF QrInv, TypeOK, AskResolve
<1>2. /\ x \in Call /\ x.op = "resolve" /\ x.code = "none" /\ x.stage = "scan" /\ x.id = p
      /\ ~x.had
  BY IdleType DEF Call
<1> HIDE DEF x
<1>3. call'[c] = x /\ call' \in [Calls -> Call] /\ \A d \in Calls \ {c} : call'[d] = call[d]
  BY <1>1, <1>2
<1>4. (CallInv(c) /\ HadInv(c))'
  BY <1>2, <1>3 DEF CallInv, HadInv, Resolved
<1>5. \A d \in Calls : (CallInv(d) /\ HadInv(d))'
  BY <1>1, <1>3, <1>4, OtherCall
<1>6. TypeOK'
  BY <1>1, <1>3 DEF TypeOK, database
<1>7. ScanInv'
  BY <1>2, <1>3 DEF ScanInv
<1>8. ShownInv' /\ PayeeInv'
  BY DEF QrInv, ShownInv, PayeeInv, Owner, database
<1> QED
  BY <1>5, <1>6, <1>7, <1>8 DEF QrInv

(* A step of the app that asks for nothing, or of the world. *)
LEMMA AppInv ==
  ASSUME QrInv, [Next]_vars,
         OpenScan \/ OpenDialog \/ CloseDialog \/ OnAnswer \/ Timeout \/ Leave
  PROVE  QrInv'
<1>1. TypeOK /\ scan \in [handled : BOOLEAN, resolving : BOOLEAN, call : Calls \cup {None},
                            used : 0..MaxScans]
  BY DEF QrInv, TypeOK
<1>2. UNCHANGED <<database, secret, now, call, shown>> /\ screen' \in Screens
  <2>1. screen \in Screens /\ Opened \in Screens
    BY <1>1 DEF TypeOK, Screens, Opened
  <2> QED
    BY <2>1 DEF OpenScan, OpenDialog, CloseDialog, OnAnswer, Timeout, Leave, Screens
<1>3. /\ scan' \in [handled : BOOLEAN, resolving : BOOLEAN, call : Calls \cup {None},
                     used : 0..MaxScans]
      /\ scan'.call \in {scan.call, None}
  <2>1. CASE scan' = scan
    BY <1>1, <2>1
  <2>2. CASE scan' = [scan EXCEPT !.call = None]
    BY <1>1, <2>2
  <2>3. CASE scan' = [scan EXCEPT !.handled = FALSE, !.resolving = FALSE, !.call = None]
    BY <1>1, <2>3
  <2> QED
    BY <2>1, <2>2, <2>3
       DEF OpenScan, OpenDialog, CloseDialog, OnAnswer, Timeout, Leave, ScanAgain
<1>4. \/ payee' = payee \/ payee' = None
      \/ /\ OnAnswer /\ call[scan.call].code = "ok"
         /\ payee' = [user |-> call[scan.call].user, id |-> call[scan.call].id]
  BY DEF OpenScan, OpenDialog, CloseDialog, OnAnswer, Timeout, Leave
<1>5. PayeeInv' /\ payee' \in [user : Users, id : PayIds] \cup {None}
  <2>1. CASE payee' = payee \/ payee' = None
    BY <1>2, <2>1 DEF QrInv, TypeOK, PayeeInv, Owner, database
  <2>2. CASE /\ OnAnswer /\ call[scan.call].code = "ok"
             /\ payee' = [user |-> call[scan.call].user, id |-> call[scan.call].id]
    <3>1. scan.call \in Calls /\ call[scan.call].op = "resolve"
      BY <1>1, <2>2 DEF OnAnswer, QrInv, ScanInv
    <3>2. /\ call[scan.call].id \in PayIds /\ code[call[scan.call].id] # None
          /\ code[call[scan.call].id].user = call[scan.call].user
      BY <2>2, <3>1 DEF QrInv, CallInv, Resolved, Owner
    <3>3. call[scan.call].user \in Users
      BY <1>1, <3>2 DEF TypeOK, Code
    <3> QED
      BY <1>2, <2>2, <3>2, <3>3 DEF PayeeInv, Owner, database
  <2> QED
    BY <1>4, <2>1, <2>2
<1>6. TypeOK'
  BY <1>1, <1>2, <1>3, <1>5 DEF TypeOK, database
<1>7. CodesKept
  BY CodesStay DEF QrInv
<1>8. \A d \in Calls : (CallInv(d) /\ HadInv(d))'
  BY <1>2, <1>7, OtherCall
<1>9. ScanInv' /\ ShownInv'
  BY <1>2, <1>3 DEF QrInv, ScanInv, ShownInv, Owner, database
<1> QED
  BY <1>5, <1>6, <1>8, <1>9 DEF QrInv

LEMMA WorldInv ==
  ASSUME QrInv, [Next]_vars, Redeploy \/ Tick
  PROVE  QrInv'
<1>1. TypeOK /\ CodesKept
  BY CodesStay DEF QrInv
<1>2. /\ UNCHANGED <<database, shown, app>> /\ now' \in 0..MaxTime /\ secret' \in 0..MaxKeys
  BY <1>1, BoundsAssumption DEF Redeploy, Tick, TypeOK
<1>3. /\ call' \in [Calls -> Call]
      /\ \A d \in Calls : (CallInv(d) /\ HadInv(d))' /\ call'[d].op = call[d].op
  <2>1. CASE UNCHANGED call
    BY <1>1, <2>1, OtherCall DEF TypeOK
  <2>2. CASE call' = [d \in Calls |-> IF call[d].stage = "done" THEN call[d]
                                      ELSE Done(call[d], "error")]
    <3>1. ASSUME NEW d \in Calls
          PROVE  call'[d] \in Call /\ (CallInv(d) /\ HadInv(d))' /\ call'[d].op = call[d].op
      <4>1. CASE call'[d] = call[d]
        BY <1>1, <4>1, OtherCall DEF TypeOK
      <4>2. CASE call'[d] = Done(call[d], "error")
        <5>1. call[d] \in Call /\ (call[d].op = "resolve" => call[d].id \in PayIds)
          BY DEF QrInv, TypeOK, CallInv
        <5>2. /\ call'[d] \in Call /\ call'[d].stage = "done" /\ call'[d].op = call[d].op
              /\ call'[d].id = call[d].id /\ call'[d].code = "error" /\ ~call'[d].had
          BY <4>2, <5>1, Constant DEF Done, Call
        <5> QED
          BY <5>1, <5>2 DEF CallInv, HadInv, Resolved
      <4> QED
        BY <2>2, <4>1, <4>2
    <3> QED
      BY <2>2, <3>1
  <2> QED
    BY <2>1, <2>2 DEF Redeploy, Tick
<1>4. TypeOK'
  BY <1>1, <1>2, <1>3 DEF TypeOK, database, app
<1>5. ScanInv' /\ ShownInv' /\ PayeeInv'
  BY <1>1, <1>2, <1>3 DEF QrInv, TypeOK, ScanInv, ShownInv, PayeeInv, Owner, database, app
<1> QED
  BY <1>3, <1>4, <1>5 DEF QrInv

LEMMA NextQrInv == QrInv /\ [Next]_vars => QrInv'
<1> SUFFICES ASSUME QrInv, [Next]_vars PROVE QrInv'
  OBVIOUS
<1>1. /\ TypeOK /\ scan \in [handled : BOOLEAN, resolving : BOOLEAN,
                             call : Calls \cup {None}, used : 0..MaxScans]
      /\ screen \in Screens /\ ScanInv
  BY DEF QrInv, TypeOK
<1>2. ASSUME NEW c \in Calls, Handler(c) \/ Break(c) PROVE QrInv'
  BY <1>2, MyQrInv, ResolveInv, CallStepInv DEF Handler
<1>3. ASSUME NEW c \in Calls, NEW u \in Users, AskMyQr(c, u) PROVE QrInv'
  BY <1>3, AskMyQrInv, CallStepInv
<1>4. ASSUME NEW c \in Calls, Retry(c) PROVE QrInv'
  <2>1. scan.call \in Calls /\ call[scan.call].id \in PayIds
    BY <1>1, <1>4 DEF Retry, ScanInv, QrInv, CallInv
  <2>2. scan.used + 1 \in 0..MaxScans
    BY <1>1, <1>4, BoundsAssumption DEF Retry
  <2>3. scan' \in [handled : BOOLEAN, resolving : BOOLEAN, call : {c}, used : 0..MaxScans]
    BY <1>1, <1>4, <2>2 DEF Retry
  <2> QED
    BY <1>1, <1>4, <2>1, <2>3, AskResolveInv DEF Retry, Unused
<1>5. ASSUME NEW c \in Calls, NEW p \in PayIds, Detect(c, p) \/ Typed(c, p) PROVE QrInv'
  <2>1. scan' \in [handled : BOOLEAN, resolving : BOOLEAN, call : {c}, used : 0..MaxScans]
    <3>1. /\ scan.used < MaxScans
          /\ scan' = [handled |-> TRUE, resolving |-> TRUE, call |-> c, used |-> scan.used + 1]
      BY <1>5 DEF Detect, Typed, Resolve
    <3>2. scan.used + 1 \in 0..MaxScans
      BY <1>1, <3>1, BoundsAssumption
    <3> QED
      BY <3>1, <3>2
  <2>2. screen' \in Screens
    BY <1>1, <1>5 DEF Detect, Typed, Screens
  <2> QED
    BY <1>5, <2>1, <2>2, AskResolveInv DEF Detect, Typed, Resolve, Unused
<1>6. CASE UNCHANGED vars
  <2>1. CodesKept
    BY <1>1, CodesStay
  <2>2. \A d \in Calls : (CallInv(d) /\ HadInv(d))'
    BY <1>6, <2>1, OtherCall DEF vars
  <2> QED
    BY <1>6, <2>2 DEF vars, database, app, QrInv, TypeOK, ScanInv, ShownInv, PayeeInv, Owner
<1>7. CASE OpenScan \/ OpenDialog \/ CloseDialog \/ OnAnswer \/ Timeout \/ Leave
  BY <1>7, AppInv
<1>8. CASE Redeploy \/ Tick
  BY <1>8, WorldInv
<1>9. CASE \E c \in Calls : Handler(c) \/ Break(c) \/ Retry(c)
  BY <1>2, <1>4, <1>9
<1>10. CASE \E c \in Calls, u \in Users : AskMyQr(c, u)
  BY <1>3, <1>10
<1>11. CASE \E c \in Calls, p \in PayIds : Detect(c, p) \/ Typed(c, p)
  BY <1>5, <1>11
<1> QED
  BY <1>6, <1>7, <1>8, <1>9, <1>10, <1>11 DEF Next

-----------------------------------------------------------------------------
(* The audit is a matter of counting: the calls past their QR_SCAN are no  *)
(* more than the scans, the answered ones no more than the resolves, and   *)
(* those between the two logs are what the resolves lack of the scans.     *)

ByCode(p, codes) ==
  {c \in Calls : call[c].op = "resolve" /\ call[c].id = p /\ call[c].code \in codes}
Between(p) ==
  {c \in Calls : call[c].op = "resolve" /\ call[c].id = p /\ call[c].stage \in {"read", "log"}}
Given(p) == ByCode(p, {"ok"})
Scanned(p) == Between(p) \cup ByCode(p, {"ok", "notFound", "badSignature"})

AuditInv ==
  \A p \in PayIds :
    /\ Cardinality(Scanned(p)) <= scans[p]
    /\ Cardinality(Given(p)) <= resolves[p]
    /\ resolves[p] + Cardinality(Between(p)) <= scans[p]

(* What is counted is finite, before a step and after it. *)
LEMMA Counted ==
  ASSUME NEW S \in SUBSET Calls
  PROVE  IsFiniteSet(S) /\ Cardinality(S) \in Nat
<1>1. IsFiniteSet(Calls)
  BY BoundsAssumption, FS_Interval DEF Calls
<1> QED
  BY <1>1, FS_Subset, FS_CardinalityType

LEMMA CountLess ==
  ASSUME NEW S \in SUBSET Calls, NEW T \in SUBSET S
  PROVE  Cardinality(T) <= Cardinality(S)
  BY Counted, FS_Subset

LEMMA CountOneMore ==
  ASSUME NEW S \in SUBSET Calls, NEW c \in Calls, NEW T \in SUBSET (S \cup {c})
  PROVE  Cardinality(T) <= Cardinality(S) + 1
<1>1. IsFiniteSet(S) /\ Cardinality(S) \in Nat
  BY Counted
<1>2. Cardinality(S \cup {c}) <= Cardinality(S) + 1
  BY <1>1, FS_AddElement
<1>3. (S \cup {c}) \in SUBSET Calls
  OBVIOUS
<1>4. Cardinality(T) <= Cardinality(S \cup {c}) /\ Cardinality(T) \in Nat
      /\ Cardinality(S \cup {c}) \in Nat
  BY <1>3, CountLess, Counted
<1> QED
  BY <1>1, <1>2, <1>4

LEMMA CountOneLess ==
  ASSUME NEW S \in SUBSET Calls, NEW c \in S, NEW T \in SUBSET (S \ {c})
  PROVE  Cardinality(T) + 1 <= Cardinality(S)
<1>1. IsFiniteSet(S) /\ Cardinality(S) \in Nat
  BY Counted
<1>2. Cardinality(S \ {c}) = Cardinality(S) - 1
  BY <1>1, FS_RemoveElement
<1>3. (S \ {c}) \in SUBSET Calls
  OBVIOUS
<1>4. Cardinality(T) <= Cardinality(S \ {c}) /\ Cardinality(T) \in Nat
  BY <1>3, CountLess, Counted
<1> QED
  BY <1>1, <1>2, <1>4

(* A change of a call that needs no log. *)
Silent(c) ==
  \/ call'[c].op = "my"
  \/ call'[c].stage \notin {"read", "log"}
     /\ call'[c].code \notin {"ok", "notFound", "badSignature"}
  \/ /\ call[c].op = "resolve" /\ call[c].stage = "read" /\ call'[c].id = call[c].id
     /\ call'[c].code # "ok"

LEMMA SilentAudit ==
  ASSUME QrInv, AuditInv, UNCHANGED <<scans, resolves>>,
         \A d \in Calls : call'[d] = call[d] \/ Silent(d)
  PROVE  AuditInv'
<1> SUFFICES ASSUME NEW p \in PayIds
             PROVE  /\ Cardinality(Scanned(p)') <= scans[p]
                    /\ Cardinality(Given(p)') <= resolves[p]
                    /\ resolves[p] + Cardinality(Between(p)') <= scans[p]
  BY DEF AuditInv
<1>1. /\ Scanned(p)' \subseteq Scanned(p) /\ Given(p)' \subseteq Given(p)
      /\ Between(p)' \subseteq Between(p)
      /\ Scanned(p) \in SUBSET Calls /\ Given(p) \in SUBSET Calls
      /\ Between(p) \in SUBSET Calls
  BY DEF Silent, Scanned, Given, Between, ByCode
<1>2. /\ Cardinality(Scanned(p)') <= Cardinality(Scanned(p))
      /\ Cardinality(Given(p)') <= Cardinality(Given(p))
      /\ Cardinality(Between(p)') <= Cardinality(Between(p))
  BY <1>1, CountLess
<1>3. /\ {Cardinality(Scanned(p)'), Cardinality(Given(p)'), Cardinality(Between(p)')} \subseteq Nat
      /\ {Cardinality(Scanned(p)), Cardinality(Given(p)), Cardinality(Between(p))} \subseteq Nat
  BY <1>1, Counted
<1>4. scans[p] \in Nat /\ resolves[p] \in Nat
  BY DEF QrInv, TypeOK
<1> QED
  BY <1>2, <1>3, <1>4 DEF AuditInv

(* The two steps that log. *)
LEMMA ScanAudit ==
  ASSUME QrInv, AuditInv, NEW c \in Calls, Scan(c)
  PROVE  AuditInv'
<1>1. /\ call \in [Calls -> Call] /\ call[c].op = "resolve" /\ call[c].id \in PayIds
      /\ call[c].code = "none" /\ scans \in [PayIds -> Nat] /\ resolves \in [PayIds -> Nat]
      /\ call[c].stage = "scan"
  BY DEF QrInv, TypeOK, CallInv, Scan
<1>2. CASE Answer(c, "badFormat") /\ UNCHANGED scans
  <2>1. \A d \in Calls : call'[d] = call[d] \/ Silent(d)
    BY <1>1, <1>2, Constant DEF Answer, Done, Silent, Call
  <2> QED
    BY <1>2, <2>1, SilentAudit DEF Scan
<1>3. CASE Goto(c, "read") /\ scans' = Record(scans, call[c].id)
  <2> SUFFICES ASSUME NEW p \in PayIds
               PROVE  /\ Cardinality(Scanned(p)') <= scans'[p]
                      /\ Cardinality(Given(p)') <= resolves[p]
                      /\ resolves[p] + Cardinality(Between(p)') <= scans'[p]
    BY DEF AuditInv, Scan
  <2>1. /\ \A d \in Calls \ {c} : call'[d] = call[d]
        /\ call'[c].id = call[c].id /\ call'[c].code = "none"
    BY <1>1, <1>3 DEF Goto, Call
  <2>2. /\ Scanned(p) \in SUBSET Calls /\ Given(p) \in SUBSET Calls
        /\ Between(p) \in SUBSET Calls /\ Scanned(p)' \in SUBSET Calls
        /\ Between(p)' \in SUBSET Calls
    BY DEF Scanned, Given, Between, ByCode
  <2>3. /\ {Cardinality(Scanned(p)), Cardinality(Given(p)), Cardinality(Between(p))} \subseteq Nat
        /\ {Cardinality(Scanned(p)'), Cardinality(Between(p)')} \subseteq Nat
        /\ scans[p] \in Nat /\ resolves[p] \in Nat
    BY <1>1, <2>2, Counted
  <2>4. Given(p)' \subseteq Given(p)
    BY <1>1, <2>1 DEF Given, ByCode
  <2>5. Cardinality(Given(p)') <= resolves[p]
    <3>1. Cardinality(Given(p)') <= Cardinality(Given(p)) /\ Cardinality(Given(p)') \in Nat
      BY <2>2, <2>4, CountLess, Counted
    <3> QED
      BY <2>3, <3>1 DEF AuditInv
  <2>6. CASE p = call[c].id
    <3>1. Scanned(p)' \subseteq Scanned(p) \cup {c} /\ Between(p)' \subseteq Between(p) \cup {c}
      BY <2>1 DEF Scanned, Between, ByCode
    <3>2. /\ Cardinality(Scanned(p)') <= Cardinality(Scanned(p)) + 1
          /\ Cardinality(Between(p)') <= Cardinality(Between(p)) + 1
      BY <2>2, <3>1, CountOneMore
    <3>3. scans'[p] = scans[p] + 1
      BY <1>1, <1>3, <2>6 DEF Record
    <3> QED
      BY <2>3, <2>5, <3>2, <3>3 DEF AuditInv
  <2>7. CASE p # call[c].id
    <3>1. Scanned(p)' \subseteq Scanned(p) /\ Between(p)' \subseteq Between(p)
      BY <2>1, <2>7 DEF Scanned, Between, ByCode
    <3>2. /\ Cardinality(Scanned(p)') <= Cardinality(Scanned(p))
          /\ Cardinality(Between(p)') <= Cardinality(Between(p))
      BY <2>2, <3>1, CountLess
    <3>3. scans'[p] = scans[p]
      BY <1>1, <1>3, <2>7 DEF Record
    <3> QED
      BY <2>3, <2>5, <3>2, <3>3 DEF AuditInv
  <2> QED
    BY <2>6, <2>7
<1> QED
  BY <1>2, <1>3 DEF Scan, LogScan

LEMMA ResolveAudit ==
  ASSUME QrInv, AuditInv, NEW c \in Calls, LogResolve(c)
  PROVE  AuditInv'
<1>1. /\ call \in [Calls -> Call] /\ call[c].op = "resolve" /\ call[c].id \in PayIds
      /\ scans \in [PayIds -> Nat] /\ resolves \in [PayIds -> Nat] /\ call[c].stage = "log"
  BY DEF QrInv, TypeOK, CallInv, LogResolve
<1>2. /\ \A d \in Calls \ {c} : call'[d] = call[d]
      /\ call'[c].id = call[c].id /\ call'[c].stage = "done" /\ call'[c].code \in {"ok", "error"}
  BY <1>1 DEF LogResolve, Answer, Done, Call
<1> SUFFICES ASSUME NEW p \in PayIds
             PROVE  /\ Cardinality(Scanned(p)') <= scans[p]
                    /\ Cardinality(Given(p)') <= resolves'[p]
                    /\ resolves'[p] + Cardinality(Between(p)') <= scans[p]
  BY DEF AuditInv, LogResolve
<1>3. /\ Scanned(p) \in SUBSET Calls /\ Given(p) \in SUBSET Calls
      /\ Between(p) \in SUBSET Calls /\ Scanned(p)' \in SUBSET Calls
      /\ Given(p)' \in SUBSET Calls /\ Between(p)' \in SUBSET Calls
  BY DEF Scanned, Given, Between, ByCode
<1>4. /\ {Cardinality(Scanned(p)), Cardinality(Given(p)), Cardinality(Between(p))} \subseteq Nat
      /\ {Cardinality(Scanned(p)'), Cardinality(Given(p)'), Cardinality(Between(p)')} \subseteq Nat
      /\ scans[p] \in Nat /\ resolves[p] \in Nat
  BY <1>1, <1>3, Counted
<1>5. Scanned(p)' \subseteq Scanned(p)
  BY <1>1, <1>2 DEF Scanned, Between, ByCode
<1>6. Cardinality(Scanned(p)') <= Cardinality(Scanned(p))
  BY <1>3, <1>5, CountLess
<1>7. CASE p = call[c].id
  <2>1. /\ Given(p)' \subseteq Given(p) \cup {c}
        /\ c \in Between(p) /\ Between(p)' \subseteq Between(p) \ {c}
    BY <1>1, <1>2, <1>7 DEF Given, Between, ByCode
  <2>2. /\ Cardinality(Given(p)') <= Cardinality(Given(p)) + 1
        /\ Cardinality(Between(p)') + 1 <= Cardinality(Between(p))
    BY <1>3, <2>1, CountOneMore, CountOneLess
  <2>3. resolves'[p] = resolves[p] + 1
    BY <1>1, <1>7 DEF LogResolve, Record
  <2> QED
    BY <1>4, <1>6, <2>2, <2>3 DEF AuditInv
<1>8. CASE p # call[c].id
  <2>1. Given(p)' \subseteq Given(p) /\ Between(p)' \subseteq Between(p)
    BY <1>2, <1>8 DEF Given, Between, ByCode
  <2>2. /\ Cardinality(Given(p)') <= Cardinality(Given(p))
        /\ Cardinality(Between(p)') <= Cardinality(Between(p))
    BY <1>3, <2>1, CountLess
  <2>3. resolves'[p] = resolves[p]
    BY <1>1, <1>8 DEF LogResolve, Record
  <2> QED
    BY <1>4, <1>6, <2>2, <2>3 DEF AuditInv
<1> QED
  BY <1>7, <1>8

(* All the others are silent. *)
LEMMA OthersAreSilent ==
  ASSUME QrInv, QrInv', [Next]_vars, NEW c \in Calls, ~Scan(c), ~LogResolve(c),
         \/ Handler(c) \/ Break(c) \/ Retry(c)
         \/ \E u \in Users : AskMyQr(c, u)
         \/ \E p \in PayIds : Detect(c, p) \/ Typed(c, p)
  PROVE  /\ UNCHANGED <<scans, resolves>>
         /\ \A d \in Calls : call'[d] = call[d] \/ Silent(d)
<1>1. /\ call \in [Calls -> Call] /\ call[c] \in Call
      /\ CallInv(c)
  BY DEF QrInv, TypeOK
<1>2. CASE FindMine(c) \/ FindUser(c) \/ CreateMine(c)
  <2>1. CallStep(c) /\ call[c].op = "my"
    BY <1>1, <1>2, MyQrInv DEF CallInv, FindMine, FindUser, CreateMine
  <2>2. UNCHANGED <<scans, resolves>>
    BY <1>2 DEF FindMine, FindUser, CreateMine, database
  <2> QED
    BY <2>1, <2>2 DEF CallStep, Silent
<1>3. CASE Read(c)
  <2> DEFINE p == call[c].id
  <2>1. call[c].op = "resolve" /\ call[c].stage = "read" /\ call[c].code = "none"
    BY <1>1, <1>3 DEF CallInv, Read
  <2>2. /\ \A d \in Calls \ {c} : call'[d] = call[d]
        /\ call'[c].id = call[c].id /\ call'[c].code # "ok"
    <3>1. CASE \E how \in {"notFound", "badSignature"} : Answer(c, how)
      BY <1>1, <3>1 DEF Answer, Done, Call
    <3>2. CASE call' = [call EXCEPT ![c].stage = "log", ![c].user = code[p].user]
      BY <1>1, <2>1, <3>2 DEF Call
    <3> QED
      BY <1>3, <3>1, <3>2 DEF Read
  <2> QED
    BY <1>3, <2>1, <2>2 DEF Read, Silent, database
<1>4. CASE Break(c)
  <2>1. call'[c].stage = "done" /\ call'[c].code = "error"
        /\ \A d \in Calls \ {c} : call'[d] = call[d]
    BY <1>1, <1>4 DEF Break, Answer, Done, Call
  <2> QED
    BY <1>4, <2>1 DEF Break, Silent, database
<1>5. CASE \E u \in Users : AskMyQr(c, u)
  <2>1. PICK u \in Users : AskMyQr(c, u)
    BY <1>5
  <2>2. CallStep(c) /\ call[c] = Idle
    BY <2>1, AskMyQrInv DEF AskMyQr, Unused
  <2> QED
    BY <2>1, <2>2, IdleType DEF AskMyQr, CallStep, Silent, database
<1>6. CASE \/ Retry(c)
           \/ \E p \in PayIds : Detect(c, p) \/ Typed(c, p)
  <2>1. PICK p : AskResolve(c, p)
    BY <1>6 DEF Retry, Detect, Typed, Resolve
  <2>2. /\ call'[c].stage = "scan" /\ call'[c].code = "none"
        /\ \A d \in Calls \ {c} : call'[d] = call[d]
    BY <1>1, <2>1, IdleType DEF AskResolve, Call, Idle
  <2>3. UNCHANGED <<scans, resolves>>
    BY <1>6 DEF Retry, Detect, Typed, Resolve, database
  <2> QED
    BY <2>2, <2>3 DEF Silent
<1> QED
  BY <1>2, <1>3, <1>4, <1>5, <1>6 DEF Handler

LEMMA NextAuditInv == QrInv /\ AuditInv /\ [Next]_vars => AuditInv'
<1> SUFFICES ASSUME QrInv, AuditInv, [Next]_vars PROVE AuditInv'
  OBVIOUS
<1>1. ASSUME NEW c \in Calls,
             \/ Handler(c) \/ Break(c) \/ Retry(c)
             \/ \E u \in Users : AskMyQr(c, u)
             \/ \E p \in PayIds : Detect(c, p) \/ Typed(c, p)
      PROVE  AuditInv'
  BY <1>1, ScanAudit, ResolveAudit, OthersAreSilent, SilentAudit, NextQrInv
<1>2. CASE OpenScan \/ OpenDialog \/ CloseDialog \/ OnAnswer \/ Timeout \/ Leave
           \/ Tick \/ UNCHANGED vars
  <2>1. UNCHANGED <<scans, resolves, call>>
    BY <1>2 DEF OpenScan, OpenDialog, CloseDialog, OnAnswer, Timeout, Leave, Tick, vars, database
  <2> QED
    BY <2>1, SilentAudit
<1>3. CASE Redeploy
  <2>1. UNCHANGED <<scans, resolves>>
    BY <1>3 DEF Redeploy, database
  <2>2. ASSUME NEW d \in Calls PROVE call'[d] = call[d] \/ Silent(d)
    <3>1. call[d] \in Call
      BY DEF QrInv, TypeOK
    <3>2. call'[d] = call[d] \/ call'[d] = Done(call[d], "error")
      BY <1>3 DEF Redeploy
    <3> QED
      BY <3>1, <3>2 DEF Done, Silent, Call
  <2> QED
    BY <2>1, <2>2, SilentAudit
<1> QED
  BY <1>1, <1>2, <1>3 DEF Next

LEMMA InitAuditInv == Init => AuditInv
<1> SUFFICES ASSUME Init, NEW p \in PayIds
             PROVE  /\ Scanned(p) = {} /\ Given(p) = {} /\ Between(p) = {}
                    /\ scans[p] = 0 /\ resolves[p] = 0
  BY FS_EmptySet DEF AuditInv
<1> QED
  BY IdleType DEF Init, Scanned, Given, Between, ByCode

-----------------------------------------------------------------------------
(* Rows, calls and screens keep the shape of the schema and the code, for  *)
(* every number of users, identifiers and calls.                           *)
THEOREM QrTypeCorrect == Spec => []TypeOK
<1>1. QrInv => TypeOK
  BY DEF QrInv
<1> QED
  BY <1>1, InitQrInv, NextQrInv, PTL DEF Spec

(* The recipient a scan leads to is the user who was shown that code, when *)
(* identifiers collide too: the unique index lets no second user have one. *)
THEOREM ScanLeadsToOwner == Spec => []PaysWhoShowsIt
<1>1. QrInv => PaysWhoShowsIt
  BY DEF QrInv, ShownInv, PayeeInv, Owner, PaysWhoShowsIt
<1> QED
  BY <1>1, InitQrInv, NextQrInv, PTL DEF Spec

(* A user who had a code when he asked is never on the way to another one: *)
(* rows stay, and among those he has one is the newest.                    *)
THEOREM CodesAreKept == Spec => []KeepsHisCode
<1>1. QrInv => KeepsHisCode
  BY DEF QrInv, HadInv, KeepsHisCode
<1> QED
  BY <1>1, InitQrInv, NextQrInv, PTL DEF Spec

(* No answer about a code lacks its QR_SCAN, and no recipient his          *)
(* QR_RESOLVE, for any calls that overlap, are retried or fail half-way.   *)
THEOREM AuditIsComplete == Spec => []ScansAreAudited
<1>1. QrInv /\ AuditInv => ScansAreAudited
  <2> SUFFICES ASSUME QrInv, AuditInv, NEW p \in PayIds
               PROVE  /\ Answered(p, {"ok", "notFound", "badSignature"}) <= scans[p]
                      /\ Answered(p, {"ok"}) <= resolves[p]
                      /\ resolves[p] <= scans[p]
    BY DEF ScansAreAudited
  <2>1. /\ Answered(p, {"ok", "notFound", "badSignature"})
            = Cardinality(ByCode(p, {"ok", "notFound", "badSignature"}))
        /\ Answered(p, {"ok"}) = Cardinality(Given(p))
    BY DEF Answered, ByCode, Given
  <2>2. /\ ByCode(p, {"ok", "notFound", "badSignature"}) \subseteq Scanned(p)
        /\ Scanned(p) \in SUBSET Calls /\ Between(p) \in SUBSET Calls
    BY DEF Scanned, ByCode, Between
  <2>3. /\ Cardinality(ByCode(p, {"ok", "notFound", "badSignature"})) <= Cardinality(Scanned(p))
        /\ Cardinality(ByCode(p, {"ok", "notFound", "badSignature"})) \in Nat
        /\ Cardinality(Scanned(p)) \in Nat /\ Cardinality(Between(p)) \in Nat
    BY <2>2, CountLess, Counted
  <2>4. scans[p] \in Nat /\ resolves[p] \in Nat
    BY DEF QrInv, TypeOK
  <2> QED
    BY <2>1, <2>3, <2>4 DEF AuditInv
<1>2. Init => QrInv /\ AuditInv
  BY InitQrInv, InitAuditInv
<1>3. QrInv /\ AuditInv /\ [Next]_vars => (QrInv /\ AuditInv)'
  BY NextQrInv, NextAuditInv
<1> QED
  BY <1>1, <1>2, <1>3, PTL DEF Spec
=============================================================================
