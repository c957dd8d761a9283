-------------------------------- MODULE Auth --------------------------------
(***************************************************************************)
(* Accounts and device sessions: AuthService (register, login, refresh)    *)
(* over UsersService.create and SessionsService (create, findValidSession, *)
(* rotate, revoke, revokeAll).  Every call runs one await at a time, so    *)
(* the rows a call has read may change before it writes.                   *)
(*                                                                         *)
(* A JWT is its payload, so a refresh token is the user and the second it  *)
(* was signed in.  The clock counts those seconds.  A PIN is right, or     *)
(* wrong; hashing keeps equality and nothing else.                         *)
(***************************************************************************)
EXTENDS Integers, FiniteSets

CONSTANTS
  Phones,          \* phone numbers; a user is known by the phone
  Devices,
  Calls,           \* HTTP calls; a call names the session it creates
  Ops,             \* the operations clients may call
  Seeded,          \* phones that have an account from the start (seed.ts)
  Settings,        \* what JWT_REFRESH_EXPIRES_IN may say
  FallbackLife,    \* the 7 days of durationToMs, in seconds
  MaxLife,         \* bound on what durationToMs returns
  MaxTime,         \* bound on the clock
  None

ASSUME OpsAssumption ==
  Ops \subseteq {"register", "login", "refresh", "revoke", "revokeAll"}
ASSUME SeededAssumption == Seeded \subseteq Phones

(* The setting is read twice: jsonwebtoken makes life of it for the token; *)
(* durationToMs the same for the session if the text is plain, a number    *)
(* and one of s, m, h, d, and 7 days of any other ("2w", "30 days").       *)
Setting == [life : Nat \ {0}, plain : BOOLEAN]
Duration(x) == IF x.plain THEN x.life ELSE FallbackLife

ASSUME TimeAssumption ==
  /\ MaxTime \in Nat /\ MaxLife \in Nat /\ FallbackLife \in Nat
  /\ Settings \subseteq Setting
  /\ \A x \in Settings : Duration(x) <= MaxLife

Token == [user : Phones, iat : 0..MaxTime]
Session == [user : Phones, device : Devices, token : Token,
            expires : 0..(MaxTime + MaxLife), revoked : BOOLEAN]

VARIABLES
  now,         \* the clock, in seconds
  setting,     \* JWT_REFRESH_EXPIRES_IN, read from the environment at start
  accounts,    \* accounts[p]: committed users rows with phone p
  wallets,     \* wallets[p]: committed wallets of that user
  sessions,    \* user_sessions by id, None where there is no row
  pc,          \* where each call is
  req,         \* what each call asks for
  draft,       \* the locals of a call: new token and expiry, session found, isNew
  answer       \* what each call was answered

env == <<now, setting>>
tables == <<accounts, wallets, sessions>>
vars == <<env, tables, pc, req, draft, answer>>

Request == [op : Ops, user : Phones, device : Devices \cup {None},
            token : Token \cup {None}, target : Calls \cup {None}]
ASSUME NoneAssumption == None \notin Session \cup Request

Draft == [token : Token \cup {None}, expires : 0..(MaxTime + MaxLife),
          sid : Calls \cup {None}, isNew : BOOLEAN]
Empty == [token |-> None, expires |-> 0, sid |-> None, isNew |-> FALSE]
Answers == [code : {"ok", "unauthorized", "conflict", "notFound", "error"},
            token : Token \cup {None}, isNew : BOOLEAN]

Running == {"findPhone", "insertUser", "insertWallet", "commitUser", "identify",
            "device", "findValid", "findSession", "update", "revokeAll",
            "sign", "expiry", "store"}

Init ==
  /\ now = 0
  /\ setting \in Settings
  /\ accounts = [p \in Phones |-> IF p \in Seeded THEN 1 ELSE 0]
  /\ wallets = [p \in Phones |-> IF p \in Seeded THEN 1 ELSE 0]
  /\ sessions = [s \in Calls |-> None]
  /\ pc = [c \in Calls |-> "idle"]
  /\ req = [c \in Calls |-> None]
  /\ draft = [c \in Calls |-> Empty]
  /\ answer = [c \in Calls |-> None]

Goto(c, stage) == pc' = [pc EXCEPT ![c] = stage]

Refuse(c, code) ==
  /\ Goto(c, "done")
  /\ answer' = [answer EXCEPT ![c] = [code |-> code, token |-> None, isNew |-> FALSE]]

(* The answer leaves; the client may never receive it. *)
Grant(c) ==
  \/ /\ Goto(c, "done")
     /\ answer' = [answer EXCEPT ![c] =
          [code |-> "ok", token |-> draft[c].token, isNew |-> draft[c].isNew]]
  \/ Goto(c, "lost") /\ UNCHANGED answer

(* findFirst by id and userId; or by id alone. *)
Exists(p, s) == sessions[s] # None
Owns(p, s) == sessions[s] # None /\ sessions[s].user = p
Live(s) == sessions[s] # None /\ ~sessions[s].revoked /\ sessions[s].expires > now

-----------------------------------------------------------------------------
FirstStage == [register |-> "findPhone", login |-> "identify",
               refresh |-> "findValid", revoke |-> "findSession",
               revokeAll |-> "revokeAll"]

(* Tokens a client holds: those it was answered with. *)
Held(p) == {answer[c].token : c \in {d \in Calls : /\ answer[d] # None
                                                  /\ answer[d].token # None
                                                  /\ req[d].user = p}}

Receive(c) ==
  /\ pc[c] = "idle"
  /\ \E op \in Ops, p \in Phones, d \in Devices \cup {None},
        t \in Token \cup {None}, s \in Calls \cup {None} :
       /\ (d # None) = (op \in {"register", "login"})
       /\ IF op = "refresh" THEN t \in Held(p) ELSE t = None
       /\ op \in {"revoke", "revokeAll"} => Held(p) # {}
       /\ (s # None) = (op = "revoke")
       /\ req' = [req EXCEPT ![c] =
            [op |-> op, user |-> p, device |-> d, token |-> t, target |-> s]]
       /\ Goto(c, FirstStage[op])
  /\ UNCHANGED <<env, tables, draft, answer>>

(* register: the phone is looked up, then the PIN is hashed. *)
FindPhone(c) ==
  /\ pc[c] = "findPhone"
  /\ \/ accounts[req[c].user] > 0 /\ Refuse(c, "conflict")
     \/ accounts[req[c].user] = 0 /\ Goto(c, "insertUser") /\ UNCHANGED answer
  /\ UNCHANGED <<env, tables, req, draft>>

(* users.create, one transaction: the user, then the wallet.  The unique   *)
(* index on phone makes a second insert wait for the first to end, and     *)
(* fails it with an uncaught P2002 (500) if the first has committed.       *)
NoPhoneIndex(c) == Goto(c, "insertWallet") /\ UNCHANGED answer
PhoneIndex(c) ==
  /\ \A d \in Calls \ {c} :
       req[d] # None /\ req[d].user = req[c].user
         => pc[d] \notin {"insertWallet", "commitUser"}
  /\ \/ accounts[req[c].user] > 0 /\ Refuse(c, "error")
     \/ accounts[req[c].user] = 0 /\ Goto(c, "insertWallet") /\ UNCHANGED answer

InsertUser(c) ==
  /\ pc[c] = "insertUser"
  /\ PhoneIndex(c)
  /\ UNCHANGED <<env, tables, req, draft>>

InsertWallet(c) ==
  /\ pc[c] = "insertWallet"
  /\ Goto(c, "commitUser")
  /\ UNCHANGED <<env, tables, req, draft, answer>>

CommitUser(c) ==
  /\ pc[c] = "commitUser"
  /\ accounts' = [accounts EXCEPT ![req[c].user] = @ + 1]
  /\ wallets' = [wallets EXCEPT ![req[c].user] = @ + 1]
  /\ Goto(c, "sign")
  /\ UNCHANGED <<env, sessions, req, draft, answer>>

(* login: no account or a wrong PIN get the same 401. *)
Identify(c) ==
  /\ pc[c] = "identify"
  /\ \/ Refuse(c, "unauthorized")
     \/ accounts[req[c].user] > 0 /\ Goto(c, "device") /\ UNCHANGED answer
  /\ UNCHANGED <<env, tables, req, draft>>

(* isNewDevice: no session of this user, live or not, was on this device. *)
SeenByAnyone(p, d) == \E s \in Calls : sessions[s] # None /\ sessions[s].device = d
SeenDevice(p, d) == \E s \in Calls : Owns(p, s) /\ sessions[s].device = d

CheckDevice(c) ==
  /\ pc[c] = "device"
  /\ draft' = [draft EXCEPT ![c].isNew = ~SeenDevice(req[c].user, req[c].device)]
  /\ Goto(c, "sign")
  /\ UNCHANGED <<env, tables, req, answer>>

(* refresh: the token is verified, then compared with the hash of every    *)
(* live session of its user, as read by one findMany; the first that       *)
(* matches is taken.  findMany has no ORDER BY.                            *)
Matches(c, s) ==
  Live(s) /\ Owns(req[c].token.user, s) /\ sessions[s].token = req[c].token

FindValid(c) ==
  /\ pc[c] = "findValid"
  /\ \/ /\ \/ req[c].token.iat + setting.life <= now
           \/ \A s \in Calls : ~Matches(c, s)
        /\ Refuse(c, "unauthorized")
        /\ UNCHANGED draft
     \/ /\ req[c].token.iat + setting.life > now
        /\ \E s \in Calls : Matches(c, s) /\ draft' = [draft EXCEPT ![c].sid = s]
        /\ Goto(c, "sign")
        /\ UNCHANGED answer
  /\ UNCHANGED <<env, tables, req>>

(* generateTokens: same user, same second, same token. *)
Sign(c) ==
  /\ pc[c] = "sign"
  /\ draft' = [draft EXCEPT ![c].token = [user |-> req[c].user, iat |-> now]]
  /\ Goto(c, "expiry")
  /\ UNCHANGED <<env, tables, req, answer>>

(* refreshExpiryDate: Date.now() plus what durationToMs reads, once the    *)
(* token is signed.  The hash of the token is awaited next.                *)
DurationToMs == Duration(setting)
DoubleLife(c) == draft' = [draft EXCEPT ![c].expires = now + 2 * DurationToMs]
RefreshExpiryDate(c) == draft' = [draft EXCEPT ![c].expires = now + DurationToMs]

Expiry(c) ==
  /\ pc[c] = "expiry"
  /\ RefreshExpiryDate(c)
  /\ Goto(c, "store")
  /\ UNCHANGED <<env, tables, req, answer>>

(* sessions.create, at the end of register and login. *)
CreateSession(c) ==
  /\ sessions' = [sessions EXCEPT ![c] =
       [user |-> req[c].user, device |-> req[c].device, token |-> draft[c].token,
        expires |-> draft[c].expires, revoked |-> FALSE]]
  /\ Grant(c)

(* A rotation that writes the whole row. *)
RotateWhole(c) ==
  /\ sessions' = [sessions EXCEPT ![draft[c].sid].token = draft[c].token,
                                  ![draft[c].sid].expires = draft[c].expires,
                                  ![draft[c].sid].revoked = FALSE]
  /\ Grant(c)

(* A rotation that does not move the expiry of the session. *)
RotateToken(c) ==
  /\ sessions' = [sessions EXCEPT ![draft[c].sid].token = draft[c].token]
  /\ Grant(c)

(* sessions.rotate: an update by id, whatever became of the session since  *)
(* it was found.  It leaves revoked alone.                                 *)
Rotate(c) ==
  /\ sessions' = [sessions EXCEPT ![draft[c].sid].token = draft[c].token,
                                  ![draft[c].sid].expires = draft[c].expires]
  /\ Grant(c)

Store(c) ==
  /\ pc[c] = "store"
  /\ IF req[c].op = "refresh" THEN Rotate(c) ELSE CreateSession(c)
  /\ UNCHANGED <<env, accounts, wallets, req, draft>>

(* revoke: the session is looked up by id and owner, then updated. *)
FindSession(c) ==
  /\ pc[c] = "findSession"
  /\ \/ ~Owns(req[c].user, req[c].target) /\ Refuse(c, "notFound")
     \/ Owns(req[c].user, req[c].target) /\ Goto(c, "update") /\ UNCHANGED answer
  /\ UNCHANGED <<env, tables, req, draft>>

Revoke(c) ==
  /\ pc[c] = "update"
  /\ sessions' = [sessions EXCEPT ![req[c].target].revoked = TRUE]
  /\ Grant(c)
  /\ UNCHANGED <<env, accounts, wallets, req, draft>>

(* revokeAll: one updateMany over the user's sessions. *)
RevokeAll(c) ==
  /\ pc[c] = "revokeAll"
  /\ sessions' = [s \in Calls |->
       IF Owns(req[c].user, s)
       THEN [sessions[s] EXCEPT !.revoked = TRUE] ELSE sessions[s]]
  /\ Grant(c)
  /\ UNCHANGED <<env, accounts, wallets, req, draft>>

(* The database fails the call: 500.  An open transaction is rolled back,  *)
(* a user already committed stays.                                         *)
Fail(c) ==
  /\ pc[c] \in Running
  /\ Refuse(c, "error")
  /\ UNCHANGED <<env, tables, req, draft>>

(* The server process dies with all its calls. *)
Crash ==
  /\ \E c \in Calls : pc[c] \in Running
  /\ pc' = [c \in Calls |-> IF pc[c] \in Running THEN "lost" ELSE pc[c]]
  /\ UNCHANGED <<env, tables, req, draft, answer>>

Tick ==
  /\ now < MaxTime
  /\ now' = now + 1
  /\ UNCHANGED <<setting, tables, pc, req, draft, answer>>

Step(c) ==
  \/ FindPhone(c) \/ InsertUser(c) \/ InsertWallet(c) \/ CommitUser(c)
  \/ Identify(c) \/ CheckDevice(c) \/ FindValid(c) \/ Sign(c) \/ Expiry(c)
  \/ Store(c) \/ FindSession(c) \/ Revoke(c) \/ RevokeAll(c)

Next ==
  \/ \E c \in Calls : Receive(c) \/ Step(c) \/ Fail(c)
  \/ Crash
  \/ Tick

Spec == Init /\ [][Next]_vars

-----------------------------------------------------------------------------
(* Properties. *)

(* The shape of the tables and of every call. *)
TypeOK ==
  /\ now \in 0..MaxTime /\ setting \in Settings
  /\ accounts \in [Phones -> Nat] /\ wallets \in [Phones -> Nat]
  /\ sessions \in [Calls -> Session \cup {None}]
  /\ pc \in [Calls -> Running \cup {"idle", "done", "lost"}]
  /\ req \in [Calls -> Request \cup {None}]
  /\ draft \in [Calls -> Draft]
  /\ answer \in [Calls -> Answers \cup {None}]

(* However registrations of one phone race, fail or die half way, a phone  *)
(* has at most one account, and every account has its wallet.              *)
OneAccountOneWallet ==
  \A p \in Phones : accounts[p] <= 1 /\ wallets[p] = accounts[p]

(* A session that was revoked stays revoked: a refresh that found it valid *)
(* before the revocation and writes after it does not bring it back.       *)
RevokedStaysRevoked ==
  [][\A s \in Calls :
       sessions[s] # None /\ sessions[s].revoked
         => sessions'[s] # None /\ sessions'[s].revoked]_vars

(* A login that is not reported as a new device is on a device its own     *)
(* user has used in another session.                                       *)
NewDeviceIsReported ==
  \A c \in Calls :
    /\ answer[c] # None /\ answer[c].code = "ok"
    /\ req[c].op = "login" /\ ~answer[c].isNew
    => \E s \in Calls \ {c} : /\ Owns(req[c].user, s)
                              /\ sessions[s].device = req[c].device

(* A session lasts at least the duration of the setting from the second    *)
(* the refresh token it stores was signed in, however late its expiry is   *)
(* computed and in whatever order rotations write.  So it outlives the     *)
(* token when durationToMs reads no less than jsonwebtoken does; with a    *)
(* setting like "2w" it lasts the 7 days of the fallback, and the token    *)
(* longer.                                                                 *)
SessionServesItsTerm ==
  \A s \in Calls : sessions[s] # None =>
    sessions[s].expires >= sessions[s].token.iat + DurationToMs

(* No call writes to the session of another user: neither a rotation of    *)
(* the session its token was found in, nor a revocation of one it names,   *)
(* whatever other calls wrote between its look-up and its update.  And the *)
(* token that is stored with a session is its user's.                      *)
WritesOwnSessions ==
  [][\A c, s \in Calls :
       pc'[c] # pc[c] /\ sessions'[s] # sessions[s]
         => /\ sessions[s] # None => sessions[s].user = req[c].user
            /\ sessions'[s] # None /\ sessions'[s].user = req[c].user
            /\ sessions'[s].token.user = req[c].user]_vars
=============================================================================
