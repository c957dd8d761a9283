----------------------------- MODULE AuthProofs -----------------------------
(***************************************************************************)
(* Proofs about Auth, for any number of phones, devices and calls.         *)
(***************************************************************************)
EXTENDS Auth, TLAPS

USE DEF env

-----------------------------------------------------------------------------
(* What a call knows at each stage: the operation it serves and the fields *)
(* of its request, that it has written no session of its own yet, and that *)
(* the session it has found is still a row, for rows are never deleted.    *)

Signing == {"sign", "expiry", "store"}
Inserting == {"insertWallet", "commitUser"}

OpOf(stage) ==
  CASE stage \in {"findPhone", "insertUser"} \cup Inserting -> {"register"}
    [] stage \in {"identify", "device"} -> {"login"}
    [] stage = "findValid" -> {"refresh"}
    [] stage \in {"findSession", "update"} -> {"revoke"}
    [] stage = "revokeAll" -> {"revokeAll"}
    [] stage \in Signing -> {"register", "login", "refresh"}
    [] OTHER -> {"register", "login", "refresh", "revoke", "revokeAll"}

RequestInv(c) ==
  pc[c] # "idle" =>
    /\ req[c] \in Request
    /\ req[c].op \in OpOf(pc[c])
    /\ req[c].op \in {"register", "login"} => req[c].device \in Devices
    /\ req[c].op = "refresh" => req[c].token \in Token
    /\ req[c].op = "revoke" => req[c].target \in Calls

UnwrittenInv(c) ==
  /\ pc[c] \notin {"done", "lost"} => sessions[c] = None
  /\ pc[c] # "done" => answer[c] = None

FoundInv(c) ==
  /\ pc[c] \in Signing /\ req[c].op = "refresh"
       => draft[c].sid \in Calls /\ sessions[draft[c].sid] # None
  /\ pc[c] = "update" => sessions[req[c].target] # None

TokenInv(c) ==
  /\ pc[c] \in {"expiry", "store"} => draft[c].token \in Token /\ draft[c].token.iat <= now
  /\ pc[c] = "store" => draft[c].expires >= draft[c].token.iat + DurationToMs

CallInv(c) == RequestInv(c) /\ UnwrittenInv(c) /\ FoundInv(c) /\ TokenInv(c)

AuthInv ==
  /\ TypeOK
  /\ \A c \in Calls : CallInv(c)

(* What no step undoes. *)
RowsKept ==
  \A s \in Calls : sessions[s] # None =>
    /\ sessions'[s] # None
    /\ sessions'[s].user = sessions[s].user
    /\ sessions'[s].device = sessions[s].device
    /\ sessions[s].revoked => sessions'[s].revoked

(* A row appears only where its call has ended. *)
RowsAppear ==
  \A s \in Calls : sessions[s] = None /\ sessions'[s] # None
                    => pc[s] = "store" /\ pc'[s] \in {"done", "lost"}

(* One call took a step, and its locals are the ones that changed. *)
StepOf(c) ==
  /\ \A d \in Calls \ {c} : /\ pc'[d] = pc[d] /\ req'[d] = req[d]
                             /\ draft'[d] = draft[d] /\ answer'[d] = answer[d]
  /\ UNCHANGED env

-----------------------------------------------------------------------------

LEMMA InitAuthInv == Init => AuthInv
<1> SUFFICES ASSUME Init PROVE AuthInv
  OBVIOUS
<1> USE DEF Init
<1>1. TypeOK
  BY TimeAssumption DEF TypeOK, Empty, Draft
<1>2. ASSUME NEW c \in Calls PROVE CallInv(c)
  BY DEF CallInv, RequestInv, UnwrittenInv, FoundInv, TokenInv, Signing
<1> QED
  BY <1>1, <1>2 DEF AuthInv

LEMMA TermOfSetting ==
  ASSUME TypeOK PROVE DurationToMs \in Nat /\ DurationToMs <= MaxLife
  BY TimeAssumption DEF TypeOK, DurationToMs, Duration, Setting

(* The setting is the same from the start of the server on. *)
LEMMA SettingStays == ASSUME [Next]_vars PROVE setting' = setting
  BY DEF Next, Step, Receive, FindPhone, InsertUser, InsertWallet, CommitUser, Identify,
         CheckDevice, FindValid, Sign, Expiry, Store, FindSession, Revoke, RevokeAll, Fail,
         Crash, Tick, vars

(* The three writes to user_sessions, and all the other steps. *)
LEMMA StoreKeepsRows ==
  ASSUME AuthInv, NEW c \in Calls, Store(c)
  PROVE  RowsKept /\ RowsAppear /\ sessions' \in [Calls -> Session \cup {None}]
<1> USE DEF AuthInv, TypeOK
<1>1. /\ pc[c] = "store" /\ req[c] \in Request /\ sessions[c] = None
      /\ req[c].op \in {"register", "login", "refresh"}
      /\ draft[c].token \in Token /\ draft[c].expires \in 0..(MaxTime + MaxLife)
  BY DEF Store, CallInv, RequestInv, UnwrittenInv, TokenInv, OpOf, Signing, Inserting, Draft
<1>2. CASE req[c].op = "refresh"
  <2>1. draft[c].sid \in Calls /\ sessions[draft[c].sid] \in Session
    BY <1>1, <1>2 DEF CallInv, FoundInv, Signing
  <2>2. sessions' = [sessions EXCEPT ![draft[c].sid].token = draft[c].token,
                                     ![draft[c].sid].expires = draft[c].expires]
    BY <1>2 DEF Store, Rotate
  <2>3. sessions'[draft[c].sid] \in Session
    BY <1>1, <2>1, <2>2 DEF Session
  <2> QED
    BY <1>1, <2>1, <2>2, <2>3, NoneAssumption DEF RowsKept, RowsAppear, Session
<1>3. CASE req[c].op # "refresh"
  <2>1. req[c].device \in Devices /\ req[c].user \in Phones
    BY <1>1, <1>3 DEF CallInv, RequestInv, Request
  <2>2. sessions' = [sessions EXCEPT ![c] =
          [user |-> req[c].user, device |-> req[c].device, token |-> draft[c].token,
           expires |-> draft[c].expires, revoked |-> FALSE]]
    BY <1>3 DEF Store, CreateSession
  <2>3. pc'[c] \in {"done", "lost"}
    BY <1>3 DEF Store, CreateSession, Grant, Goto
  <2> QED
    BY <1>1, <2>1, <2>2, <2>3 DEF RowsKept, RowsAppear, Session
<1> QED
  BY <1>2, <1>3

LEMMA RevokeKeepsRows ==
  ASSUME AuthInv, NEW c \in Calls, Revoke(c)
  PROVE  RowsKept /\ RowsAppear /\ sessions' \in [Calls -> Session \cup {None}]
<1> USE DEF AuthInv, TypeOK
<1>1. req[c].target \in Calls /\ sessions[req[c].target] \in Session
  BY DEF Revoke, CallInv, RequestInv, FoundInv, OpOf, Signing, Inserting
<1>2. sessions' = [sessions EXCEPT ![req[c].target].revoked = TRUE]
  BY DEF Revoke
<1>3. sessions'[req[c].target] \in Session
  BY <1>1, <1>2 DEF Session
<1> QED
  BY <1>1, <1>2, <1>3, NoneAssumption DEF RowsKept, RowsAppear, Session

LEMMA RevokeAllKeepsRows ==
  ASSUME AuthInv, NEW c \in Calls, RevokeAll(c)
  PROVE  RowsKept /\ RowsAppear /\ sessions' \in [Calls -> Session \cup {None}]
<1> USE DEF AuthInv, TypeOK
<1>1. sessions' = [s \in Calls |->
        IF Owns(req[c].user, s)
        THEN [sessions[s] EXCEPT !.revoked = TRUE] ELSE sessions[s]]
  BY DEF RevokeAll
<1>2. ASSUME NEW s \in Calls, sessions[s] # None
      PROVE  /\ [sessions[s] EXCEPT !.revoked = TRUE] \in Session
             /\ [sessions[s] EXCEPT !.revoked = TRUE].user = sessions[s].user
             /\ [sessions[s] EXCEPT !.revoked = TRUE].device = sessions[s].device
             /\ [sessions[s] EXCEPT !.revoked = TRUE].revoked
  BY <1>2 DEF Session
<1> QED
  BY <1>1, <1>2, NoneAssumption DEF RowsKept, RowsAppear, Owns

LEMMA NextKeepsRows ==
  ASSUME AuthInv, [Next]_vars
  PROVE  RowsKept /\ RowsAppear /\ sessions' \in [Calls -> Session \cup {None}]
<1>1. ASSUME NEW c \in Calls, Store(c) \/ Revoke(c) \/ RevokeAll(c)
      PROVE  RowsKept /\ RowsAppear /\ sessions' \in [Calls -> Session \cup {None}]
  BY <1>1, StoreKeepsRows, RevokeKeepsRows, RevokeAllKeepsRows
<1>2. CASE UNCHANGED sessions
  BY <1>2 DEF AuthInv, TypeOK, RowsKept, RowsAppear
<1>3. ASSUME NEW c \in Calls,
             \/ Receive(c) \/ FindPhone(c) \/ InsertUser(c) \/ InsertWallet(c)
             \/ CommitUser(c) \/ Identify(c) \/ CheckDevice(c) \/ FindValid(c)
             \/ Sign(c) \/ Expiry(c) \/ FindSession(c) \/ Fail(c)
      PROVE  UNCHANGED sessions
  BY <1>3 DEF Receive, FindPhone, InsertUser, InsertWallet, CommitUser, Identify,
       CheckDevice, FindValid, Sign, Expiry, FindSession, Fail, tables
<1>4. Crash \/ Tick \/ UNCHANGED vars => UNCHANGED sessions
  BY DEF Crash, Tick, vars, tables
<1> QED
  BY <1>1, <1>2, <1>3, <1>4 DEF Next, Step

(* What the steps of others and the clock leave true of a call. *)
LEMMA OtherCallInv ==
  ASSUME AuthInv, [Next]_vars, now' \in Nat, now' >= now, NEW d \in Calls,
         pc'[d] = pc[d], req'[d] = req[d], draft'[d] = draft[d], answer'[d] = answer[d]
  PROVE  CallInv(d)'
<1>1. RowsKept /\ RowsAppear
  BY NextKeepsRows
<1>2. CallInv(d) /\ now \in Nat
  BY DEF AuthInv, TypeOK
<1>3. RequestInv(d)'
  BY <1>2 DEF CallInv, RequestInv
<1>4. UnwrittenInv(d)'
  BY <1>1, <1>2 DEF CallInv, UnwrittenInv, RowsAppear
<1>5. FoundInv(d)'
  BY <1>1, <1>2 DEF CallInv, FoundInv, RequestInv, RowsKept, OpOf, Signing, Inserting
<1>6. TokenInv(d)'
  <2>1. DurationToMs' = DurationToMs
    BY SettingStays DEF DurationToMs
  <2> QED
    BY <1>2, <2>1 DEF CallInv, TokenInv, Token
<1> QED
  BY <1>3, <1>4, <1>5, <1>6 DEF CallInv

LEMMA ReceiveInv ==
  ASSUME AuthInv, NEW c \in Calls, Receive(c)
  PROVE  TypeOK' /\ CallInv(c)' /\ StepOf(c)
<1> USE DEF AuthInv, TypeOK
<1>1. PICK op \in Ops, p \in Phones, d \in Devices \cup {None},
           t \in Token \cup {None}, s \in Calls \cup {None} :
        /\ (d # None) = (op \in {"register", "login"})
        /\ IF op = "refresh" THEN t \in Held(p) ELSE t = None
        /\ (s # None) = (op = "revoke")
        /\ req' = [req EXCEPT ![c] =
             [op |-> op, user |-> p, device |-> d, token |-> t, target |-> s]]
        /\ pc' = [pc EXCEPT ![c] = FirstStage[op]]
  BY DEF Receive, Goto
<1>2. UNCHANGED <<env, accounts, wallets, sessions, draft, answer>> /\ pc[c] = "idle"
  BY DEF Receive, tables
<1>3. t \in Held(p) => t \in Token
  BY DEF Held, Answers
<1>4. req'[c] \in Request
  BY <1>1 DEF Request
<1>5. FirstStage[op] \in Running /\ op \in OpOf(FirstStage[op])
      /\ FirstStage[op] \notin Signing \cup {"update"}
  BY OpsAssumption DEF FirstStage, Running, OpOf, Signing, Inserting
<1>6. TypeOK'
  BY <1>1, <1>2, <1>4, <1>5
<1>7. CallInv(c)'
  <2>1. RequestInv(c)'
    BY <1>1, <1>3, <1>4, <1>5 DEF RequestInv
  <2>2. UnwrittenInv(c)'
    BY <1>1, <1>2 DEF CallInv, UnwrittenInv
  <2>3. FoundInv(c)' /\ TokenInv(c)'
    BY <1>1, <1>5 DEF FoundInv, TokenInv, Signing
  <2> QED
    BY <2>1, <2>2, <2>3 DEF CallInv
<1> QED
  BY <1>1, <1>2, <1>6, <1>7 DEF StepOf

(* A call that is refused, or goes on and keeps its locals. *)
LEMMA RefuseInv ==
  ASSUME AuthInv, NEW c \in Calls, NEW code \in {"unauthorized", "conflict", "notFound", "error"},
         pc[c] # "idle", Refuse(c, code), UNCHANGED <<env, tables, req, draft>>
  PROVE  TypeOK' /\ CallInv(c)' /\ StepOf(c)
<1> USE DEF AuthInv, TypeOK, Refuse, Goto, tables
<1>1. TypeOK'
  BY DEF Answers
<1>2. CallInv(c)'
  BY DEF CallInv, RequestInv, UnwrittenInv, FoundInv, TokenInv, OpOf, Signing,
         Inserting, Request
<1>3. StepOf(c)
  BY DEF StepOf
<1> QED
  BY <1>1, <1>2, <1>3

LEMMA GotoInv ==
  ASSUME AuthInv, NEW c \in Calls, NEW stage \in Running,
         pc[c] \in Running, Goto(c, stage), req[c].op \in OpOf(stage),
         UNCHANGED <<env, sessions, req, answer>>,
         accounts' \in [Phones -> Nat], wallets' \in [Phones -> Nat],
         NEW x \in Draft, draft' = [draft EXCEPT ![c] = x],
         stage \in Signing /\ req[c].op = "refresh"
           => x.sid \in Calls /\ sessions[x.sid] # None,
         stage = "update" => sessions[req[c].target] # None,
         stage \in {"expiry", "store"} => x.token \in Token /\ x.token.iat <= now,
         stage = "store" => x.expires >= x.token.iat + DurationToMs
  PROVE  TypeOK' /\ CallInv(c)' /\ StepOf(c)
<1> USE DEF AuthInv, TypeOK, Goto
<1>1. TypeOK'
  OBVIOUS
<1>2. CallInv(c)'
  <2>1. RequestInv(c)'
    BY DEF CallInv, RequestInv, Running
  <2>2. UnwrittenInv(c)'
    BY DEF CallInv, UnwrittenInv, Running
  <2>3. FoundInv(c)' /\ TokenInv(c)'
    BY DEF FoundInv, TokenInv, DurationToMs
  <2> QED
    BY <2>1, <2>2, <2>3 DEF CallInv
<1>3. StepOf(c)
  BY DEF StepOf
<1> QED
  BY <1>1, <1>2, <1>3

LEMMA StepInv ==
  ASSUME AuthInv, NEW c \in Calls, Step(c) \/ Fail(c)
  PROVE  TypeOK' /\ CallInv(c)' /\ StepOf(c)
<1> DEFINE Goal == TypeOK' /\ CallInv(c)' /\ StepOf(c)
<1> SUFFICES Goal
  OBVIOUS
<1> USE DEF tables
<1>0. /\ draft[c] \in Draft
      /\ draft = [draft EXCEPT ![c] = draft[c]]
      /\ accounts \in [Phones -> Nat] /\ wallets \in [Phones -> Nat]
      /\ now \in 0..MaxTime
  BY DEF AuthInv, TypeOK
<1>r. pc[c] # "idle" => req[c] \in Request /\ req[c].op \in OpOf(pc[c])
  BY DEF AuthInv, CallInv, RequestInv
<1>1. ASSUME NEW code \in {"unauthorized", "conflict", "notFound", "error"},
             pc[c] # "idle", Refuse(c, code), UNCHANGED <<env, tables, req, draft>>
      PROVE  Goal
  BY <1>1, RefuseInv
<1>2. ASSUME NEW stage \in Running \ Signing, stage # "update",
             pc[c] \in Running, Goto(c, stage), req[c].op \in OpOf(stage),
             UNCHANGED <<env, tables, req, draft, answer>>
      PROVE  Goal
  BY <1>0, <1>2, GotoInv DEF Signing
<1> HIDE DEF Goal
<1> USE <1>r DEF Running, Signing, Inserting, OpOf
<1>3. CASE FindPhone(c)
  BY <1>3, <1>1, <1>2 DEF FindPhone
<1>4. CASE InsertUser(c)
  BY <1>4, <1>1, <1>2 DEF InsertUser, PhoneIndex
<1>5. CASE InsertWallet(c)
  BY <1>5, <1>2 DEF InsertWallet
<1>6. CASE CommitUser(c)
  <2>1. accounts' \in [Phones -> Nat] /\ wallets' \in [Phones -> Nat]
    <3>1. pc[c] = "commitUser"
      BY <1>6 DEF CommitUser
    <3>2. req[c].user \in Phones
      BY <3>1, <1>r DEF Request
    <3> QED
      BY <1>0, <1>6, <3>2 DEF CommitUser
  <2> QED
    BY <1>0, <1>6, <2>1, GotoInv DEF CommitUser, Goal
<1>7. CASE Identify(c)
  BY <1>7, <1>1, <1>2 DEF Identify
<1>8. CASE CheckDevice(c)
  <2> DEFINE x == [draft[c] EXCEPT !.isNew = ~SeenDevice(req[c].user, req[c].device)]
  <2>1. x \in Draft /\ draft' = [draft EXCEPT ![c] = x]
    BY <1>0, <1>8 DEF CheckDevice, Draft, SeenDevice
  <2> HIDE DEF x
  <2> QED
    BY <1>0, <1>8, <2>1, GotoInv DEF CheckDevice, Goal
<1>9. CASE FindValid(c)
  <2>1. ASSUME NEW s \in Calls, Matches(c, s), draft' = [draft EXCEPT ![c].sid = s],
               Goto(c, "sign"), pc[c] = "findValid", UNCHANGED <<env, tables, req, answer>>
        PROVE  Goal
    <3> DEFINE x == [draft[c] EXCEPT !.sid = s]
    <3>1. x \in Draft /\ x.sid = s /\ draft' = [draft EXCEPT ![c] = x]
      BY <1>0, <2>1 DEF Draft
    <3>2. sessions[s] # None
      BY <2>1 DEF Matches, Live
    <3> HIDE DEF x
    <3> QED
      BY <1>0, <2>1, <3>1, <3>2, GotoInv DEF Goal
  <2> QED
    BY <1>9, <1>1, <2>1 DEF FindValid
<1>10. CASE Sign(c)
  <2> DEFINE t == [user |-> req[c].user, iat |-> now]
             x == [draft[c] EXCEPT !.token = t]
  <2>1. t \in Token /\ t.iat <= now
    BY <1>0, <1>10 DEF Sign, Token, Request
  <2>2. /\ x \in Draft /\ x.token = t /\ x.sid = draft[c].sid
        /\ draft' = [draft EXCEPT ![c] = x]
    BY <1>0, <1>10, <2>1 DEF Sign, Draft
  <2>3. req[c].op = "refresh" => draft[c].sid \in Calls /\ sessions[draft[c].sid] # None
    BY <1>10 DEF Sign, AuthInv, CallInv, FoundInv
  <2> HIDE DEF x, t
  <2> QED
    BY <1>0, <1>10, <2>1, <2>2, <2>3, GotoInv DEF Sign, Goal
<1>11. CASE Expiry(c)
  <2> DEFINE x == [draft[c] EXCEPT !.expires = now + DurationToMs]
  <2>0. /\ DurationToMs \in Nat /\ now \in 0..MaxTime
        /\ now + DurationToMs \in 0..(MaxTime + MaxLife)
    BY TermOfSetting, TimeAssumption DEF AuthInv, TypeOK
  <2>1. /\ x \in Draft /\ x.token = draft[c].token /\ x.sid = draft[c].sid
        /\ x.expires = now + DurationToMs
        /\ draft' = [draft EXCEPT ![c] = x]
    BY <1>0, <1>11, <2>0 DEF Expiry, RefreshExpiryDate, Draft
  <2>2. /\ req[c].op = "refresh" => draft[c].sid \in Calls /\ sessions[draft[c].sid] # None
        /\ draft[c].token \in Token /\ draft[c].token.iat <= now
    BY <1>11 DEF Expiry, AuthInv, CallInv, FoundInv, TokenInv
  <2>3. x.expires >= x.token.iat + DurationToMs
    BY <2>0, <2>1, <2>2, TimeAssumption DEF Token
  <2> HIDE DEF x
  <2> QED
    BY <1>0, <1>11, <2>1, <2>2, <2>3, GotoInv DEF Expiry, Goal
<1>12. CASE FindSession(c)
  <2>1. ASSUME Owns(req[c].user, req[c].target), Goto(c, "update"), pc[c] = "findSession",
               UNCHANGED <<env, tables, req, draft, answer>>
        PROVE  Goal
    <3>1. sessions[req[c].target] # None
      BY <2>1 DEF Owns
    <3> QED
      BY <1>0, <2>1, <3>1, GotoInv DEF Goal
  <2> QED
    BY <1>12, <1>1, <2>1 DEF FindSession
<1>13. CASE Store(c) \/ Revoke(c) \/ RevokeAll(c)
  <2>1. sessions' \in [Calls -> Session \cup {None}]
    BY <1>13, StoreKeepsRows, RevokeKeepsRows, RevokeAllKeepsRows
  <2>2. /\ Grant(c) /\ UNCHANGED <<env, accounts, wallets, req, draft>>
        /\ pc[c] \in Running
    BY <1>13 DEF Store, Rotate, CreateSession, Revoke, RevokeAll
  <2>3. draft[c].token \in Token \cup {None} /\ draft[c].isNew \in BOOLEAN
    BY <1>0 DEF Draft
  <2>4. /\ \/ pc' = [pc EXCEPT ![c] = "done"]
           \/ pc' = [pc EXCEPT ![c] = "lost"] /\ answer' = answer
        /\ answer' \in [Calls -> Answers \cup {None}]
        /\ \A d \in Calls \ {c} : answer'[d] = answer[d]
    BY <2>2, <2>3 DEF Grant, Goto, Answers, AuthInv, TypeOK
  <2>5. TypeOK'
    BY <2>1, <2>2, <2>4 DEF AuthInv, TypeOK
  <2>6. CallInv(c)'
    BY <2>2, <2>4 DEF AuthInv, TypeOK, CallInv, RequestInv, UnwrittenInv, FoundInv,
                      TokenInv, Request
  <2>7. StepOf(c)
    BY <2>2, <2>4 DEF StepOf, AuthInv, TypeOK
  <2> QED
    BY <2>5, <2>6, <2>7 DEF Goal
<1>14. CASE Fail(c)
  BY <1>14, <1>1 DEF Fail
<1> QED
  BY <1>3, <1>4, <1>5, <1>6, <1>7, <1>8, <1>9, <1>10, <1>11, <1>12, <1>13, <1>14 DEF Step

LEMMA NextAuthInv == AuthInv /\ [Next]_vars => AuthInv'
<1> SUFFICES ASSUME AuthInv, [Next]_vars PROVE AuthInv'
  OBVIOUS
<1>1. now \in 0..MaxTime /\ MaxTime \in Nat
  BY TimeAssumption DEF AuthInv, TypeOK
<1>2. ASSUME NEW c \in Calls, Receive(c) \/ Step(c) \/ Fail(c)
      PROVE  AuthInv'
  <2>1. TypeOK' /\ CallInv(c)' /\ StepOf(c)
    BY <1>2, ReceiveInv, StepInv
  <2>2. ASSUME NEW d \in Calls \ {c} PROVE CallInv(d)'
    BY <1>1, <2>1, OtherCallInv DEF StepOf
  <2> QED
    BY <2>1, <2>2 DEF AuthInv
<1>3. CASE Crash
  <2>1. TypeOK'
    BY <1>3 DEF Crash, tables, AuthInv, TypeOK
  <2>2. ASSUME NEW d \in Calls PROVE CallInv(d)'
    <3>1. CASE pc[d] \in Running
      BY <1>3, <3>1 DEF Crash, tables, AuthInv, TypeOK, CallInv, RequestInv, UnwrittenInv,
                        FoundInv, TokenInv, OpOf, Signing, Inserting, Running, Request
    <3>2. CASE pc[d] \notin Running
      BY <1>1, <1>3, <3>2, OtherCallInv DEF Crash, tables, AuthInv, TypeOK
    <3> QED
      BY <3>1, <3>2
  <2> QED
    BY <2>1, <2>2 DEF AuthInv
<1>4. CASE Tick \/ UNCHANGED vars
  <2>1. /\ UNCHANGED <<tables, pc, req, draft, answer>>
        /\ now' \in 0..MaxTime /\ now' >= now /\ setting' = setting
    BY <1>1, <1>4 DEF Tick, vars
  <2>2. TypeOK'
    BY <2>1 DEF tables, AuthInv, TypeOK
  <2>3. ASSUME NEW d \in Calls PROVE CallInv(d)'
    BY <1>1, <2>1, OtherCallInv
  <2> QED
    BY <2>2, <2>3 DEF AuthInv
<1> QED
  BY <1>2, <1>3, <1>4 DEF Next

(* A call that goes on has a request, whose operation is its stage's. *)
LEMMA StageOp ==
  ASSUME AuthInv, NEW c \in Calls, pc[c] # "idle"
  PROVE  req[c] \in Request /\ req[c] # None /\ req[c].op \in OpOf(pc[c])
  BY NoneAssumption DEF AuthInv, CallInv, RequestInv

-----------------------------------------------------------------------------
(* The tables and every call keep the shape of the schema and the code,    *)
(* for every number of phones, devices and calls.                          *)
THEOREM AuthTypeCorrect == Spec => []TypeOK
<1>1. AuthInv => TypeOK
  BY DEF AuthInv
<1> QED
  BY <1>1, InitAuthInv, NextAuthInv, PTL DEF Spec

(* A revocation is never undone, whatever refresh found the session valid  *)
(* before it and writes after it.                                          *)
THEOREM RevocationIsFinal == Spec => RevokedStaysRevoked
<1>1. AuthInv /\ [Next]_vars =>
        [\A s \in Calls :
           sessions[s] # None /\ sessions[s].revoked
             => sessions'[s] # None /\ sessions'[s].revoked]_vars
  BY NextKeepsRows DEF RowsKept
<1> QED
  BY <1>1, InitAuthInv, NextAuthInv, PTL DEF Spec, RevokedStaysRevoked

-----------------------------------------------------------------------------
(* One account per phone: a call that has inserted its user holds the      *)
(* unique index, so nobody else has inserted that phone and none is there. *)

HoldsPhone(c) ==
  pc[c] \in Inserting =>
    /\ accounts[req[c].user] = 0
    /\ \A d \in Calls \ {c} : pc[d] \in Inserting => req[d].user # req[c].user

AccountInv == OneAccountOneWallet /\ \A c \in Calls : HoldsPhone(c)

LEMMA NextAccountInv == AuthInv /\ AccountInv /\ [Next]_vars => AccountInv'
<1> SUFFICES ASSUME AuthInv, AccountInv, [Next]_vars PROVE AccountInv'
  OBVIOUS
<1> USE DEF AccountInv, OneAccountOneWallet, HoldsPhone
<1>1. TypeOK /\ AuthInv'
  BY NextAuthInv DEF AuthInv
<1>2. ASSUME NEW c \in Calls, InsertUser(c)
      PROVE  AccountInv'
  <2>1. /\ UNCHANGED <<accounts, wallets, req>> /\ pc[c] = "insertUser"
        /\ \A d \in Calls \ {c} : pc'[d] = pc[d]
        /\ \A d \in Calls \ {c} :
             req[d] # None /\ req[d].user = req[c].user => pc[d] \notin Inserting
        /\ pc'[c] \in Inserting => accounts[req[c].user] = 0
    BY <1>1, <1>2 DEF InsertUser, PhoneIndex, Refuse, Goto, Inserting, TypeOK, tables
  <2>2. \A d \in Calls \ {c} : pc[d] \in Inserting => req[d].user # req[c].user
    BY <2>1, StageOp DEF Inserting
  <2> QED
    BY <2>1, <2>2
<1>3. ASSUME NEW c \in Calls, CommitUser(c)
      PROVE  AccountInv'
  <2>1. /\ pc[c] = "commitUser" /\ pc' = [pc EXCEPT ![c] = "sign"] /\ req' = req
        /\ accounts' = [accounts EXCEPT ![req[c].user] = @ + 1]
        /\ wallets' = [wallets EXCEPT ![req[c].user] = @ + 1]
    BY <1>3 DEF CommitUser, Goto
  <2>2. req[c].user \in Phones /\ accounts[req[c].user] = 0
    BY <2>1, StageOp DEF Request, Inserting
  <2>3. OneAccountOneWallet'
    BY <1>1, <2>1, <2>2 DEF TypeOK
  <2>4. ASSUME NEW d \in Calls PROVE HoldsPhone(d)'
    <3>1. CASE pc'[d] \in Inserting
      <4>1. d # c /\ pc[d] \in Inserting /\ req[d].user # req[c].user
        BY <1>1, <2>1, <3>1 DEF TypeOK, Inserting
      <4>2. req[d].user \in Phones /\ accounts'[req[d].user] = 0
        BY <1>1, <2>1, <4>1, StageOp DEF TypeOK, Request, Inserting
      <4> QED
        BY <1>1, <2>1, <4>1, <4>2 DEF TypeOK, Inserting
    <3>2. CASE pc'[d] \notin Inserting
      BY <3>2
    <3> QED
      BY <3>1, <3>2
  <2> QED
    BY <2>3, <2>4
<1>4. ASSUME UNCHANGED <<accounts, wallets>>,
             \A d \in Calls : pc'[d] \in Inserting => pc[d] \in Inserting /\ req'[d] = req[d]
      PROVE  AccountInv'
  BY <1>4
<1>5. ASSUME NEW c \in Calls,
             \/ Receive(c) \/ FindPhone(c) \/ InsertWallet(c) \/ Identify(c)
             \/ CheckDevice(c) \/ FindValid(c) \/ Sign(c) \/ Expiry(c)
             \/ Store(c) \/ FindSession(c) \/ Revoke(c) \/ RevokeAll(c) \/ Fail(c)
      PROVE  AccountInv'
  <2>1. UNCHANGED <<accounts, wallets>>
    BY <1>5 DEF Receive, FindPhone, InsertWallet, Identify, CheckDevice, FindValid,
         Sign, Expiry, Store, FindSession, Revoke, RevokeAll, Fail, tables
  <2>2. CASE Receive(c)
    <3>1. PICK op \in Ops : pc' = [pc EXCEPT ![c] = FirstStage[op]]
      BY <2>2 DEF Receive, Goto
    <3>2. FirstStage[op] \notin Inserting
      BY OpsAssumption DEF FirstStage, Inserting
    <3>3. \A d \in Calls \ {c} : req'[d] = req[d]
      BY <1>1, <2>2 DEF Receive, TypeOK
    <3> QED
      BY <1>1, <1>4, <2>1, <3>1, <3>2, <3>3 DEF TypeOK
  <2>3. CASE ~Receive(c)
    <3>1. /\ UNCHANGED req
          /\ \A d \in Calls \ {c} : pc'[d] = pc[d]
          /\ pc'[c] \in Inserting => pc[c] \in Inserting
      BY <1>1, <1>5, <2>3 DEF FindPhone, InsertWallet, Identify, CheckDevice, FindValid,
         Sign, Expiry, Store, Rotate, CreateSession, FindSession, Revoke, RevokeAll, Fail,
         Goto, Refuse, Grant, Inserting, TypeOK
    <3> QED
      BY <1>4, <2>1, <3>1
  <2> QED
    BY <2>2, <2>3
<1>6. CASE Crash \/ Tick \/ UNCHANGED vars
  BY <1>1, <1>4, <1>6 DEF Crash, Tick, vars, tables, TypeOK, Inserting, Running
<1> QED
  BY <1>2, <1>3, <1>5, <1>6 DEF Next, Step

(* A phone has at most one account and each account its wallet, however    *)
(* registrations of it overlap, fail or die half way: the unique index     *)
(* orders them and one transaction writes both rows.                       *)
THEOREM AccountsAreUnique == Spec => []OneAccountOneWallet
<1>1. Init => AccountInv
  BY DEF Init, AccountInv, OneAccountOneWallet, HoldsPhone, Inserting
<1>2. AccountInv => OneAccountOneWallet
  BY DEF AccountInv
<1> QED
  BY <1>1, <1>2, InitAuthInv, NextAuthInv, NextAccountInv, PTL DEF Spec

-----------------------------------------------------------------------------
(* The expiry of a session: the one a call writes was computed after its   *)
(* token was signed (TokenInv).                                            *)

LEMMA NextExpiry == AuthInv /\ SessionServesItsTerm /\ [Next]_vars => SessionServesItsTerm'
<1> SUFFICES ASSUME AuthInv, SessionServesItsTerm, [Next]_vars,
                    NEW s \in Calls, sessions'[s] # None
             PROVE  sessions'[s].expires >= sessions'[s].token.iat + DurationToMs
  BY SettingStays DEF SessionServesItsTerm, DurationToMs
<1> USE DEF SessionServesItsTerm
<1>1. TypeOK
  BY DEF AuthInv
<1>2. CASE sessions'[s] = sessions[s]
  BY <1>2
<1>3. ASSUME NEW c \in Calls, Store(c), sessions'[s] # sessions[s]
      PROVE  sessions'[s].expires >= sessions'[s].token.iat + DurationToMs
  <2>1. draft[c].expires >= draft[c].token.iat + DurationToMs
    BY <1>3 DEF Store, AuthInv, CallInv, TokenInv
  <2>2. CASE req[c].op = "refresh"
    <3>1. draft[c].sid \in Calls /\ sessions[draft[c].sid] \in Session
      BY <1>1, <1>3, <2>2 DEF Store, AuthInv, CallInv, FoundInv, Signing, TypeOK
    <3>2. /\ s = draft[c].sid
          /\ sessions'[s].token = draft[c].token /\ sessions'[s].expires = draft[c].expires
      BY <1>1, <1>3, <2>2, <3>1 DEF Store, Rotate, TypeOK, Session
    <3> QED
      BY <2>1, <3>2
  <2>3. CASE req[c].op # "refresh"
    BY <1>1, <1>3, <2>1, <2>3 DEF Store, CreateSession, TypeOK
  <2> QED
    BY <2>2, <2>3
<1>4. ASSUME NEW c \in Calls, Revoke(c)
      PROVE  sessions'[s].expires >= sessions'[s].token.iat + DurationToMs
  <2>1. sessions' = [sessions EXCEPT ![req[c].target].revoked = TRUE]
        /\ sessions[req[c].target] # None
    BY <1>4 DEF Revoke, AuthInv, CallInv, FoundInv
  <2>2. s = req[c].target => sessions[s] \in Session
    BY <1>1, <2>1 DEF TypeOK
  <2> QED
    BY <1>1, <1>2, <2>1, <2>2 DEF TypeOK, Session
<1>5. ASSUME NEW c \in Calls, RevokeAll(c)
      PROVE  sessions'[s].expires >= sessions'[s].token.iat + DurationToMs
  BY <1>1, <1>2, <1>5 DEF RevokeAll, Owns, TypeOK, Session
<1>6. ASSUME NEW c \in Calls,
             \/ Receive(c) \/ FindPhone(c) \/ InsertUser(c) \/ InsertWallet(c)
             \/ CommitUser(c) \/ Identify(c) \/ CheckDevice(c) \/ FindValid(c)
             \/ Sign(c) \/ Expiry(c) \/ FindSession(c) \/ Fail(c)
      PROVE  UNCHANGED sessions
  BY <1>6 DEF Receive, FindPhone, InsertUser, InsertWallet, CommitUser, Identify,
       CheckDevice, FindValid, Sign, Expiry, FindSession, Fail, tables
<1>7. Crash \/ Tick \/ UNCHANGED vars => UNCHANGED sessions
  BY DEF Crash, Tick, vars, tables
<1> QED
  BY <1>2, <1>3, <1>4, <1>5, <1>6, <1>7 DEF Next, Step

(* A session lasts at least the duration of the setting from the second    *)
(* its refresh token was signed in, in whatever order rotations write and  *)
(* whenever a call reads the clock.                                        *)
THEOREM SessionsServeTheirTerm == Spec => []SessionServesItsTerm
<1>1. Init => SessionServesItsTerm
  BY DEF Init, SessionServesItsTerm
<1> QED
  BY <1>1, InitAuthInv, NextAuthInv, NextExpiry, PTL DEF Spec

-----------------------------------------------------------------------------
(* New devices: the session a login has seen on its device is there when   *)
(* it answers.                                                             *)

Seen(c) == \E s \in Calls \ {c} : Owns(req[c].user, s) /\ sessions[s].device = req[c].device

DeviceInv ==
  \A c \in Calls : req[c] # None /\ req[c].op = "login" =>
    /\ pc[c] \in Signing /\ ~draft[c].isNew => Seen(c)
    /\ answer[c] # None /\ answer[c].code = "ok" /\ ~answer[c].isNew => Seen(c)

LEMMA SeenIsKept ==
  ASSUME AuthInv, [Next]_vars, NEW c \in Calls, req'[c] = req[c], Seen(c)
  PROVE  Seen(c)'
<1>1. RowsKept
  BY NextKeepsRows
<1> QED
  BY <1>1 DEF RowsKept, Seen, Owns

LEMMA NextDeviceInv == AuthInv /\ DeviceInv /\ [Next]_vars => DeviceInv'
<1> DEFINE Inv(d) == req[d] # None /\ req[d].op = "login" =>
             /\ pc[d] \in Signing /\ ~draft[d].isNew => Seen(d)
             /\ answer[d] # None /\ answer[d].code = "ok" /\ ~answer[d].isNew => Seen(d)
<1> SUFFICES ASSUME AuthInv, DeviceInv, [Next]_vars, NEW d \in Calls PROVE Inv(d)'
  BY DEF DeviceInv
<1>1. Inv(d) /\ TypeOK /\ CallInv(d)
  BY DEF DeviceInv, AuthInv
<1>2. CASE UNCHANGED <<req[d], draft[d], answer[d]>> /\ (pc'[d] \in Signing => pc[d] \in Signing)
  BY <1>1, <1>2, SeenIsKept
<1>3. CASE Receive(d)
  <2>1. PICK op \in Ops : pc' = [pc EXCEPT ![d] = FirstStage[op]]
    BY <1>3 DEF Receive, Goto
  <2>2. FirstStage[op] \notin Signing
    BY OpsAssumption DEF FirstStage, Signing
  <2>3. answer'[d] = None
    BY <1>1, <1>3 DEF Receive, CallInv, UnwrittenInv
  <2> QED
    BY <1>1, <2>1, <2>2, <2>3 DEF TypeOK
<1>4. CASE CheckDevice(d)
  <2>1. /\ draft'[d].isNew = ~SeenDevice(req[d].user, req[d].device)
        /\ UNCHANGED <<req, answer, sessions>> /\ pc[d] = "device"
    BY <1>1, <1>4 DEF CheckDevice, TypeOK, Draft, tables
  <2>2. sessions[d] = None /\ answer[d] = None
    BY <1>1, <2>1 DEF CallInv, UnwrittenInv
  <2> QED
    BY <2>1, <2>2 DEF SeenDevice, Seen, Owns
<1>5. CASE FindPhone(d) \/ InsertUser(d) \/ Identify(d) \/ FindSession(d) \/ Fail(d)
  <2>1. UNCHANGED <<req, draft>> /\ pc'[d] \notin Signing
        /\ (answer'[d] = answer[d] \/ answer'[d].code # "ok")
    BY <1>1, <1>5 DEF FindPhone, InsertUser, PhoneIndex, Identify, FindSession, Fail,
                      Refuse, Goto, Signing, TypeOK
  <2> QED
    BY <1>1, <2>1, SeenIsKept
<1>6. CASE InsertWallet(d) \/ CommitUser(d) \/ FindValid(d)
  <2>1. pc[d] \in Inserting \cup {"findValid"} /\ req' = req
    BY <1>6 DEF InsertWallet, CommitUser, FindValid, Inserting
  <2>2. /\ pc[d] \in Inserting => OpOf(pc[d]) = {"register"}
        /\ pc[d] = "findValid" => OpOf(pc[d]) = {"refresh"}
    BY DEF OpOf, Inserting, Signing
  <2>3. req[d].op # "login"
    BY <2>1, <2>2, StageOp DEF Inserting
  <2> QED
    BY <2>1, <2>3
<1>7. CASE Sign(d) \/ Expiry(d)
  <2>1. /\ pc[d] \in Signing /\ draft'[d].isNew = draft[d].isNew
        /\ UNCHANGED <<req, answer>>
    BY <1>1, <1>7 DEF Sign, Expiry, RefreshExpiryDate, Signing, TypeOK, Draft
  <2> QED
    BY <1>1, <2>1, SeenIsKept
<1>8. CASE Store(d)
  <2>1. /\ pc[d] \in Signing /\ pc'[d] \notin Signing /\ UNCHANGED <<req, draft>>
        /\ answer'[d] = answer[d] \/ answer'[d].isNew = draft[d].isNew
    BY <1>1, <1>8 DEF Store, Rotate, CreateSession, Grant, Goto, Signing, TypeOK
  <2> QED
    BY <1>1, <2>1, SeenIsKept
<1>9. CASE Revoke(d) \/ RevokeAll(d)
  <2>1. pc[d] \in {"update", "revokeAll"} /\ req' = req
    BY <1>9 DEF Revoke, RevokeAll
  <2>2. /\ pc[d] = "update" => OpOf(pc[d]) = {"revoke"}
        /\ pc[d] = "revokeAll" => OpOf(pc[d]) = {"revokeAll"}
    BY DEF OpOf, Inserting, Signing
  <2>3. req[d].op # "login"
    BY <2>1, <2>2, StageOp
  <2> QED
    BY <2>1, <2>3
<1>10. CASE Crash \/ Tick \/ UNCHANGED vars
  <2>1. UNCHANGED <<req, draft, answer>> /\ (pc'[d] \in Signing => pc[d] \in Signing)
    BY <1>1, <1>10 DEF Crash, Tick, vars, TypeOK, Signing
  <2> QED
    BY <1>2, <2>1
<1>11. ASSUME NEW c \in Calls \ {d}, Receive(c) \/ Step(c) \/ Fail(c)
       PROVE  Inv(d)'
  <2>1. StepOf(c)
    BY <1>11, ReceiveInv, StepInv
  <2> QED
    BY <1>2, <2>1 DEF StepOf
<1> QED
  BY <1>3, <1>4, <1>5, <1>6, <1>7, <1>8, <1>9, <1>10, <1>11 DEF Next, Step

(* A login that is not reported as a new device is on a device of which    *)
(* its user has another session, which no later step can have removed.     *)
THEOREM NewDevicesAreReported == Spec => []NewDeviceIsReported
<1>1. Init => DeviceInv
  BY DEF Init, DeviceInv
<1>2. AuthInv /\ DeviceInv => NewDeviceIsReported
  <2> SUFFICES ASSUME AuthInv, DeviceInv, NEW c \in Calls,
                      answer[c] # None, answer[c].code = "ok",
                      req[c].op = "login", ~answer[c].isNew
               PROVE  Seen(c)
    BY DEF NewDeviceIsReported, Seen
  <2>1. pc[c] # "idle"
    BY DEF AuthInv, CallInv, UnwrittenInv
  <2> QED
    BY <2>1, StageOp DEF DeviceInv
<1> QED
  BY <1>1, <1>2, InitAuthInv, NextAuthInv, NextDeviceInv, PTL DEF Spec

-----------------------------------------------------------------------------
(* Whose tokens and sessions a call has to do with: those of the user it   *)
(* is made for, from the token it presents to the row it writes.           *)

OwnTokens(c) ==
  /\ answer[c] # None /\ answer[c].token # None
       => pc[c] # "idle" /\ answer[c].token.user = req[c].user
  /\ draft[c].token # None \/ pc[c] \in {"expiry", "store"}
       => pc[c] # "idle" /\ draft[c].token.user = req[c].user
  /\ pc[c] # "idle" /\ req[c].op = "refresh" => req[c].token.user = req[c].user

OwnTarget(c) ==
  /\ pc[c] \in Signing /\ req[c].op = "refresh" => sessions[draft[c].sid].user = req[c].user
  /\ pc[c] = "update" => sessions[req[c].target].user = req[c].user

OwnInv == \A c \in Calls : OwnTokens(c) /\ OwnTarget(c)

(* A row that a call writes is, and was, its user's. *)
WritesOwn(c) ==
  \A s \in Calls : sessions'[s] # sessions[s]
    => /\ sessions[s] # None => sessions[s].user = req[c].user
       /\ sessions'[s] # None /\ sessions'[s].user = req[c].user
       /\ sessions'[s].token.user = req[c].user

OwnSessions == \A s \in Calls : sessions[s] # None => sessions[s].token.user = sessions[s].user

LEMMA CallWritesOwn ==
  ASSUME AuthInv, OwnSessions, NEW c \in Calls, OwnTokens(c), OwnTarget(c),
         Receive(c) \/ Step(c) \/ Fail(c)
  PROVE  WritesOwn(c)
<1>1. TypeOK /\ AuthInv' /\ RowsKept
  BY NextAuthInv, NextKeepsRows DEF AuthInv, Next
<1>2. CASE Store(c) /\ req[c].op = "refresh"
  <2>1. /\ draft[c].sid \in Calls /\ sessions[draft[c].sid] \in Session
        /\ sessions[draft[c].sid].user = req[c].user /\ draft[c].token.user = req[c].user
    BY <1>1, <1>2 DEF Store, AuthInv, CallInv, FoundInv, Signing, TypeOK, OwnTarget, OwnTokens
  <2>2. sessions' = [sessions EXCEPT ![draft[c].sid].token = draft[c].token,
                                     ![draft[c].sid].expires = draft[c].expires]
    BY <1>2 DEF Store, Rotate
  <2>3. /\ \A s \in Calls \ {draft[c].sid} : sessions'[s] = sessions[s]
        /\ sessions'[draft[c].sid].token = draft[c].token
    BY <1>1, <2>1, <2>2 DEF TypeOK, Session
  <2> QED
    BY <1>1, <2>1, <2>3, NoneAssumption DEF WritesOwn, RowsKept
<1>3. CASE Store(c) /\ req[c].op # "refresh"
  <2>1. sessions[c] = None /\ draft[c].token.user = req[c].user /\ pc[c] = "store"
    BY <1>3 DEF Store, AuthInv, CallInv, UnwrittenInv, OwnTokens
  <2>2. sessions' = [sessions EXCEPT ![c] =
          [user |-> req[c].user, device |-> req[c].device, token |-> draft[c].token,
           expires |-> draft[c].expires, revoked |-> FALSE]]
    BY <1>3 DEF Store, CreateSession
  <2>3. /\ \A s \in Calls \ {c} : sessions'[s] = sessions[s]
        /\ sessions'[c].user = req[c].user /\ sessions'[c].token = draft[c].token
    BY <1>1, <2>2 DEF TypeOK
  <2>4. sessions'[c] # None
    <3>1. /\ req[c].user \in Phones /\ req[c].device \in Devices
          /\ draft[c].token \in Token /\ draft[c].expires \in 0..(MaxTime + MaxLife)
      BY <1>1, <1>3, <2>1, StageOp DEF AuthInv, CallInv, RequestInv, TokenInv, TypeOK,
           Request, Draft, OpOf, Signing, Inserting
    <3>2. sessions'[c] \in Session
      BY <1>1, <2>2, <3>1 DEF TypeOK, Session
    <3> QED
      BY <3>2, NoneAssumption
  <2> QED
    BY <2>1, <2>3, <2>4 DEF WritesOwn
<1>4. CASE Revoke(c)
  <2>1. /\ req[c].target \in Calls /\ sessions[req[c].target] \in Session
        /\ sessions[req[c].target].user = req[c].user
    BY <1>1, <1>4 DEF Revoke, AuthInv, CallInv, RequestInv, FoundInv, TypeOK, OwnTarget,
         OpOf, Signing, Inserting
  <2>2. sessions' = [sessions EXCEPT ![req[c].target].revoked = TRUE]
    BY <1>4 DEF Revoke
  <2>3. /\ \A s \in Calls \ {req[c].target} : sessions'[s] = sessions[s]
        /\ sessions'[req[c].target].token = sessions[req[c].target].token
    BY <1>1, <2>1, <2>2 DEF TypeOK, Session
  <2> QED
    BY <1>1, <2>1, <2>3, NoneAssumption DEF WritesOwn, RowsKept, OwnSessions
<1>5. CASE RevokeAll(c)
  <2>1. ASSUME NEW s \in Calls, sessions'[s] # sessions[s]
        PROVE  /\ sessions[s] # None /\ sessions[s].user = req[c].user
               /\ sessions'[s].token = sessions[s].token
    BY <1>1, <1>5, <2>1 DEF RevokeAll, Owns, TypeOK, Session
  <2> QED
    BY <1>1, <2>1 DEF WritesOwn, RowsKept, OwnSessions
<1>6. CASE \/ Receive(c) \/ FindPhone(c) \/ InsertUser(c) \/ InsertWallet(c)
           \/ CommitUser(c) \/ Identify(c) \/ CheckDevice(c) \/ FindValid(c)
           \/ Sign(c) \/ Expiry(c) \/ FindSession(c) \/ Fail(c)
  BY <1>6 DEF Receive, FindPhone, InsertUser, InsertWallet, CommitUser, Identify,
       CheckDevice, FindValid, Sign, Expiry, FindSession, Fail, tables, WritesOwn
<1> QED
  BY <1>2, <1>3, <1>4, <1>5, <1>6 DEF Step

(* What a call holds after its own step. *)
LEMMA StepOwnTokens ==
  ASSUME AuthInv, OwnInv, NEW c \in Calls, Receive(c) \/ Step(c) \/ Fail(c)
  PROVE  OwnTokens(c)'
<1>1. TypeOK /\ TypeOK' /\ OwnTokens(c) /\ CallInv(c)
  BY NextAuthInv DEF AuthInv, Next, OwnInv
<1>2. CASE Receive(c)
  <2>1. /\ pc[c] = "idle" /\ UNCHANGED <<draft, answer>>
        /\ answer[c] = None /\ draft[c].token = None
    BY <1>1, <1>2 DEF Receive, CallInv, UnwrittenInv, OwnTokens
  <2>2. PICK op \in Ops, p \in Phones, d \in Devices \cup {None},
             t \in Token \cup {None}, s \in Calls \cup {None} :
          /\ (d # None) = (op \in {"register", "login"})
          /\ IF op = "refresh" THEN t \in Held(p) ELSE t = None
          /\ op \in {"revoke", "revokeAll"} => Held(p) # {}
          /\ (s # None) = (op = "revoke")
          /\ req' = [req EXCEPT ![c] =
               [op |-> op, user |-> p, device |-> d, token |-> t, target |-> s]]
          /\ pc' = [pc EXCEPT ![c] = FirstStage[op]]
    BY <1>2 DEF Receive, Goto
  <2>3. t \in Held(p) => t.user = p
    BY <2>2 DEF Held, OwnInv, OwnTokens
  <2>4. FirstStage[op] \notin {"idle", "expiry", "store"}
    BY OpsAssumption DEF FirstStage
  <2> QED
    BY <1>1, <2>1, <2>2, <2>3, <2>4 DEF TypeOK, OwnTokens
<1>3. ASSUME req' = req, pc[c] # "idle", pc'[c] # "idle",
             draft'[c].token = draft[c].token \/ draft'[c].token.user = req[c].user,
             \/ answer' = answer
             \/ answer'[c].token = None
             \/ answer'[c].token = draft[c].token,
             pc'[c] \in {"expiry", "store"} => \/ draft'[c].token.user = req[c].user
                                               \/ pc[c] \in {"expiry", "store"}
      PROVE  OwnTokens(c)'
  BY <1>1, <1>3 DEF OwnTokens
<1>4. CASE Sign(c)
  <2>1. /\ draft' = [draft EXCEPT ![c].token = [user |-> req[c].user, iat |-> now]]
        /\ pc[c] = "sign" /\ pc' = [pc EXCEPT ![c] = "expiry"] /\ UNCHANGED <<req, answer>>
    BY <1>4 DEF Sign, Goto
  <2>2. draft'[c].token.user = req[c].user /\ pc'[c] = "expiry"
    BY <1>1, <2>1 DEF TypeOK, Draft
  <2> QED
    BY <1>3, <2>1, <2>2
<1>5. CASE \/ FindPhone(c) \/ InsertUser(c) \/ InsertWallet(c) \/ CommitUser(c)
           \/ Identify(c) \/ CheckDevice(c) \/ FindValid(c) \/ Expiry(c)
           \/ Store(c) \/ FindSession(c) \/ Revoke(c) \/ RevokeAll(c) \/ Fail(c)
  <2>1. req' = req /\ pc[c] # "idle"
    BY <1>5 DEF FindPhone, InsertUser, InsertWallet, CommitUser, Identify, CheckDevice,
         FindValid, Expiry, Store, FindSession, Revoke, RevokeAll, Fail, Running
  <2>2. draft'[c].token = draft[c].token
    BY <1>1, <1>5 DEF FindPhone, InsertUser, InsertWallet, CommitUser, Identify, CheckDevice,
         FindValid, Expiry, RefreshExpiryDate, Store, FindSession, Revoke, RevokeAll, Fail,
         TypeOK, Draft
  <2>3. \/ answer' = answer
        \/ answer'[c].token = None
        \/ answer'[c].token = draft[c].token
    BY <1>1, <1>5 DEF FindPhone, InsertUser, PhoneIndex, InsertWallet, CommitUser, Identify,
         CheckDevice, FindValid, Expiry, Store, Rotate, CreateSession, FindSession, Revoke,
         RevokeAll, Fail, Refuse, Grant, TypeOK
  <2>4. pc'[c] # "idle" /\ (pc'[c] \in {"expiry", "store"} => pc[c] = "expiry")
    BY <1>1, <1>5 DEF FindPhone, InsertUser, PhoneIndex, InsertWallet, CommitUser, Identify,
         CheckDevice, FindValid, Expiry, Store, Rotate, CreateSession, FindSession, Revoke,
         RevokeAll, Fail, Refuse, Grant, Goto, TypeOK
  <2> QED
    BY <1>3, <2>1, <2>2, <2>3, <2>4
<1> QED
  BY <1>2, <1>4, <1>5 DEF Step

LEMMA StepOwnTarget ==
  ASSUME AuthInv, OwnInv, NEW c \in Calls, Receive(c) \/ Step(c) \/ Fail(c)
  PROVE  OwnTarget(c)'
<1>1. TypeOK /\ OwnTokens(c) /\ OwnTarget(c) /\ CallInv(c) /\ RowsKept
  BY NextKeepsRows DEF AuthInv, Next, OwnInv
<1>2. CASE FindValid(c)
  <2>1. /\ pc' = [pc EXCEPT ![c] = "sign"] \/ pc'[c] = "done"
        /\ pc[c] = "findValid" /\ UNCHANGED <<sessions, req>>
    BY <1>1, <1>2 DEF FindValid, Goto, Refuse, tables, TypeOK
  <2>2. CASE pc'[c] = "done"
    BY <2>2 DEF OwnTarget, Signing
  <2>3. CASE pc'[c] # "done"
    <3>1. PICK s \in Calls : Matches(c, s) /\ draft' = [draft EXCEPT ![c].sid = s]
      BY <1>1, <1>2, <2>3 DEF FindValid, Refuse, Goto, TypeOK
    <3>2. req[c].op = "refresh" /\ sessions[s].user = req[c].token.user
      BY <2>1, <3>1, StageOp DEF Matches, Owns, OpOf, Signing, Inserting
    <3>3. draft'[c].sid = s
      BY <1>1, <3>1 DEF TypeOK, Draft
    <3> QED
      BY <1>1, <2>1, <2>3, <3>2, <3>3 DEF OwnTarget, OwnTokens, TypeOK
  <2> QED
    BY <2>2, <2>3
<1>3. CASE FindSession(c)
  BY <1>1, <1>3 DEF FindSession, Owns, Refuse, Goto, OwnTarget, Signing, tables, TypeOK
<1>4. CASE CommitUser(c) \/ CheckDevice(c)
  <2>1. req' = req /\ req[c].op # "refresh" /\ pc'[c] = "sign"
    BY <1>1, <1>4, StageOp DEF CommitUser, CheckDevice, Goto, OpOf, Signing, Inserting, TypeOK
  <2> QED
    BY <2>1 DEF OwnTarget
<1>5. CASE Sign(c) \/ Expiry(c)
  <2>1. /\ pc[c] \in Signing /\ pc'[c] \in Signing /\ UNCHANGED <<sessions, req>>
        /\ draft'[c].sid = draft[c].sid
    BY <1>1, <1>5 DEF Sign, Expiry, RefreshExpiryDate, Goto, Signing, tables, TypeOK, Draft
  <2> QED
    BY <1>1, <2>1 DEF OwnTarget, Signing
<1>6. CASE Receive(c)
  <2>1. PICK op \in Ops : pc' = [pc EXCEPT ![c] = FirstStage[op]]
    BY <1>6 DEF Receive, Goto
  <2>2. FirstStage[op] \notin Signing \cup {"update"}
    BY OpsAssumption DEF FirstStage, Signing
  <2> QED
    BY <1>1, <2>1, <2>2 DEF OwnTarget, TypeOK
<1>7. CASE \/ FindPhone(c) \/ InsertUser(c) \/ InsertWallet(c) \/ Identify(c)
           \/ Store(c) \/ Revoke(c) \/ RevokeAll(c) \/ Fail(c)
  <2>1. pc'[c] \notin Signing \cup {"update"}
    BY <1>1, <1>7 DEF FindPhone, InsertUser, PhoneIndex, InsertWallet, Identify, Store, Rotate,
         CreateSession, Revoke, RevokeAll, Fail, Refuse, Grant, Goto, Signing, TypeOK
  <2> QED
    BY <2>1 DEF OwnTarget
<1> QED
  BY <1>2, <1>3, <1>4, <1>5, <1>6, <1>7 DEF Step

LEMMA NextOwnInv ==
  ASSUME AuthInv, OwnSessions, OwnInv, [Next]_vars
  PROVE  /\ OwnSessions' /\ OwnInv'
         /\ \A c \in Calls : pc'[c] # pc[c] => WritesOwn(c)
<1>1. TypeOK /\ RowsKept
  BY NextKeepsRows DEF AuthInv
<1>2. ASSUME NEW d \in Calls, draft'[d] = draft[d], req'[d] = req[d], answer'[d] = answer[d],
             pc'[d] = pc[d] \/ (pc[d] # "idle" /\ pc'[d] = "lost")
      PROVE  OwnTokens(d)' /\ OwnTarget(d)'
  <2>1. OwnTokens(d) /\ OwnTarget(d) /\ CallInv(d)
    BY DEF OwnInv, AuthInv
  <2>2. OwnTokens(d)'
    BY <1>2, <2>1 DEF OwnTokens
  <2>3. OwnTarget(d)'
    BY <1>1, <1>2, <2>1 DEF OwnTarget, RowsKept, CallInv, FoundInv, RequestInv,
         OpOf, Signing, Inserting
  <2> QED
    BY <2>2, <2>3
<1>3. ASSUME NEW c \in Calls, Receive(c) \/ Step(c) \/ Fail(c)
      PROVE  /\ OwnSessions' /\ OwnInv'
             /\ \A d \in Calls : pc'[d] # pc[d] => WritesOwn(d)
  <2>1. WritesOwn(c)
    BY <1>3, CallWritesOwn DEF OwnInv
  <2>2. OwnSessions'
    BY <2>1 DEF WritesOwn, OwnSessions
  <2>3. StepOf(c)
    BY <1>3, ReceiveInv, StepInv
  <2>4. OwnTokens(c)' /\ OwnTarget(c)'
    BY <1>3, StepOwnTokens, StepOwnTarget
  <2> QED
    BY <1>2, <2>1, <2>2, <2>3, <2>4 DEF StepOf, OwnInv
<1>4. CASE Crash \/ Tick \/ UNCHANGED vars
  <2>1. UNCHANGED <<sessions, req, draft, answer>>
        /\ \A d \in Calls : pc'[d] = pc[d] \/ (pc[d] # "idle" /\ pc'[d] = "lost")
    BY <1>1, <1>4 DEF Crash, Tick, vars, tables, TypeOK, Running
  <2>2. OwnInv'
    BY <1>2, <2>1 DEF OwnInv
  <2> QED
    BY <2>1, <2>2 DEF OwnSessions, WritesOwn
<1> QED
  BY <1>3, <1>4 DEF Next

(* Every write to user_sessions is to a session of the user the call is    *)
(* made for: update by id is safe, because the row that was looked up      *)
(* stays that user's and the tokens a client holds are its own.            *)
THEOREM CallsWriteOwnSessions == Spec => WritesOwnSessions
<1>1. Init => OwnSessions /\ OwnInv
  BY DEF Init, OwnSessions, OwnInv, OwnTokens, OwnTarget, Empty, Signing
<1>2. AuthInv /\ OwnSessions /\ OwnInv /\ [Next]_vars =>
        /\ OwnSessions' /\ OwnInv'
        /\ [\A c, s \in Calls :
              pc'[c] # pc[c] /\ sessions'[s] # sessions[s]
                => /\ sessions[s] # None => sessions[s].user = req[c].user
                   /\ sessions'[s] # None /\ sessions'[s].user = req[c].user
                   /\ sessions'[s].token.user = req[c].user]_vars
  BY NextOwnInv DEF WritesOwn
<1> QED
  BY <1>1, <1>2, InitAuthInv, NextAuthInv, PTL DEF Spec, WritesOwnSessions
=============================================================================
