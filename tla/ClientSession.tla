---------------------------- MODULE ClientSession ----------------------------
(***************************************************************************)
(* Who is logged in, and whose data is shown: the tokens of ApiClient and  *)
(* their rotation, InFlightGuard, the cache of WalletStore in memory and   *)
(* on disk, AuthGate, login and logout.  The server signs tokens and keeps *)
(* one refresh token per session, in the two steps of module Auth.         *)
(*                                                                         *)
(* Data is known by its owner.  Dart runs one callback at a time, so a     *)
(* step is what happens between two awaits.  A write to preferences is     *)
(* atomic per key.  One restore and one login run at a time.               *)
(***************************************************************************)
EXTENDS Integers, FiniteSets

CONSTANTS
  Users,
  Resources,     \* what is fetched and cached: profile, wallet, history, QR code
  MaxLogins,     \* bound on logins
  MaxEvents,     \* bound on what the world adds: tokens that expire, requests
                 \* lost, logins refused, kills of the app, pulls to refresh,
                 \* visits of MyQrScreen
  None

ASSUME ResourcesAssumption ==
  /\ {"profile", "wallet"} \subseteq Resources
  /\ Resources \subseteq {"profile", "wallet", "history", "qr"}
ASSUME BoundsAssumption ==
  {MaxLogins, MaxEvents} \subseteq Nat

(* Every request may notice every expiry, and once more in the end. *)
MaxIssued == MaxLogins + (MaxEvents + 1) * Cardinality(Resources)
Token == [user : Users, sess : 1..MaxIssued, no : 1..MaxIssued]
Pair(t) == [access |-> t, refresh |-> t]
NoPair == Pair(None)
Tokens == [access : Token \cup {None}, refresh : Token \cup {None}]
NoData == [r \in Resources |-> None]
Dashboard == Resources \ {"profile", "qr"}

VARIABLES
  issued, row,    \* the server: tokens issued; token stored in each session
  expired,        \* access tokens up to this one have expired
  mem, disk,      \* _accessToken and _refreshToken; access_token and refresh_token
  fetch,          \* InFlightGuard: the GET in flight for each resource
  saving,         \* cache writes that are on their way to disk
  shown, cached,  \* the data of WalletStore; LocalDataStore
  hydrated,       \* _hydratedFromDisk
  screen,         \* what AuthGate and the navigator show
  restore,        \* restoreSession: refreshAll, awaited or in the background
  sync,           \* _syncAfterLogin
  login, logout,  \* the two calls, while they run
  used,           \* how much of each bound is used
  calm            \* see Trouble

server == <<issued, row, expired>>
tokens == <<mem, disk>>
data == <<saving, shown, cached, hydrated>>
flows == <<screen, restore, sync, login, logout>>
vars == <<server, tokens, fetch, data, flows, used, calm>>

Fetch == [stage : {"sent", "ok", "denied", "refresh", "found", "rotated",
                   "saveAccess", "saveRefresh", "rejected", "removeAccess",
                   "removeRefresh", "failed"},
          token : Token \cup {None}, again : BOOLEAN]

LoginCall == [stage : {"sent", "answered", "saveAccess", "saveRefresh"},
              user : Users, token : Token \cup {None}]

ASSUME NoneAssumption == None \notin Users \cup Token \cup Fetch \cup LoginCall

PlainStages == {"sent", "ok", "denied", "failed"}

Init ==
  /\ issued = 0 /\ row = [s \in 1..MaxIssued |-> 0] /\ expired = 0
  /\ mem = NoPair /\ disk = NoPair
  /\ fetch = NoData
  /\ saving = [r \in Resources |-> {}]
  /\ shown = NoData /\ cached = NoData /\ hydrated = FALSE
  /\ screen = "boot"
  /\ restore = [at |-> "idle", awaited |-> FALSE] /\ sync = "idle"
  /\ login = None /\ logout = "idle"
  /\ used = [logins |-> 0, events |-> 0]
  /\ calm = TRUE

(* What the properties call calm has not seen any of these: a 401 while    *)
(* another request is in flight; a rotation, or the retry after it, that   *)
(* is lost; a restore that runs out of time or gives the session up; a     *)
(* logout while anything is in flight; a kill during a logout or a         *)
(* rotation.  Lost requests, expiries, logins that fail, pulls to refresh  *)
(* and kills at any other time are calm.                                   *)
Trouble(happened) == calm' = (calm /\ ~happened)

Event == used.events < MaxEvents /\ used' = [used EXCEPT !.events = @ + 1]

Idle == fetch = NoData /\ saving = [r \in Resources |-> {}]
        /\ restore.at = "idle" /\ sync = "idle" /\ login = None /\ logout = "idle"

-----------------------------------------------------------------------------
(* Requests. *)

(* InFlightGuard.run: who asks for what is on its way waits for it.        *)
(* getHistory is not called before the owner is known.                     *)
Join(S, owner) ==
  fetch' = [r \in Resources |->
    IF r \in S /\ fetch[r] = None /\ (r = "history" => owner # None)
    THEN [stage |-> "sent", token |-> mem.access, again |-> FALSE] ELSE fetch[r]]

At(r, stage) == fetch[r] # None /\ fetch[r].stage = stage
Move(r, stage, t) == fetch' = [fetch EXCEPT ![r].stage = stage, ![r].token = t]

(* The JWT guard: a token that is signed and has not expired is accepted.  *)
ServeGet(r) ==
  /\ At(r, "sent")
  /\ LET t == fetch[r].token
     IN  Move(r, IF t # None /\ t.no > expired THEN "ok" ELSE "denied", t)
  /\ UNCHANGED <<server, tokens, data, flows, used, calm>>

(* A request that fails.  If it is the second try after a rotation, the    *)
(* failure is caught as if the rotation had failed.                        *)
Fail(r) == Move(r, IF fetch[r].again THEN "rejected" ELSE "failed", None)

(* A 401 with a refresh token at hand: _rotateRefreshToken posts it.       *)
OnDenied(r) ==
  /\ At(r, "denied")
  /\ IF mem.refresh = None THEN Fail(r) ELSE Move(r, "refresh", mem.refresh)
  /\ Trouble(\E q \in Resources \ {r} : fetch[q] # None)
  /\ UNCHANGED <<server, tokens, data, flows, used>>

(* findValidSession, then rotate: see Auth. *)
FindSession(r) ==
  /\ At(r, "refresh")
  /\ LET t == fetch[r].token
     IN  Move(r, IF row[t.sess] = t.no THEN "found" ELSE "rejected", t)
  /\ UNCHANGED <<server, tokens, data, flows, used, calm>>

RotateSession(r) ==
  /\ At(r, "found") /\ issued < MaxIssued
  /\ LET t == [fetch[r].token EXCEPT !.no = issued + 1]
     IN  Move(r, "rotated", t) /\ row' = [row EXCEPT ![t.sess] = t.no]
  /\ issued' = issued + 1
  /\ UNCHANGED <<expired, tokens, data, flows, used, calm>>

(* setTokens that forgets the refresh token. *)
SetAccess(t) == mem' = [mem EXCEPT !.access = t]
(* setTokens: both in memory at once, then one key of the disk at a time. *)
SetTokens(t) == mem' = Pair(t)

OnRotated(r) ==
  /\ At(r, "rotated")
  /\ SetTokens(fetch[r].token)
  /\ Move(r, "saveAccess", fetch[r].token)
  /\ UNCHANGED <<server, disk, data, flows, used, calm>>

(* The rotation failed: clearTokens, and the request keeps its 401. *)
OnRejected(r) ==
  /\ At(r, "rejected")
  /\ mem' = NoPair
  /\ Move(r, "removeAccess", None)
  /\ UNCHANGED <<server, disk, data, flows, used, calm>>

(* A saved access token that the disk never gets. *)
SkipAccess(t) == UNCHANGED disk
SaveAccess(t) == disk' = [disk EXCEPT !.access = t]
(* A refresh token that is saved but never removed. *)
KeepRefresh(t) == disk' = IF t = None THEN disk ELSE [disk EXCEPT !.refresh = t]
SaveRefresh(t) == disk' = [disk EXCEPT !.refresh = t]

WriteAccess(r) ==
  /\ \/ At(r, "saveAccess") /\ Move(r, "saveRefresh", fetch[r].token)
     \/ At(r, "removeAccess") /\ Move(r, "removeRefresh", None)
  /\ SaveAccess(fetch[r].token)
  /\ UNCHANGED <<server, mem, data, flows, used, calm>>

(* Then the request is sent again, with the access token of this moment. *)
WriteRefresh(r) ==
  /\ \/ /\ At(r, "saveRefresh")
        /\ fetch' = [fetch EXCEPT ![r] = [stage |-> "sent", token |-> mem.access,
                                          again |-> TRUE]]
     \/ At(r, "removeRefresh") /\ Move(r, "failed", None)
  /\ SaveRefresh(fetch[r].token)
  /\ UNCHANGED <<server, mem, data, flows, used, calm>>

(* The network fails the request for good, or until _withRetry sends it    *)
(* with the token of that moment, or fails the rotation.                   *)
Lose(r) ==
  /\ \/ At(r, "sent") /\ Fail(r)
     \/ At(r, "sent") /\ mem.access # fetch[r].token /\ Move(r, "sent", mem.access)
     \/ (At(r, "refresh") \/ At(r, "rotated")) /\ Move(r, "rejected", None)
  /\ Event /\ Trouble(~At(r, "sent") \/ fetch[r].again)
  /\ UNCHANGED <<server, tokens, data, flows>>

(* Any answer wakes whoever waits. *)
ContinueAny(at, r, ok) ==
  IF ~ok THEN "failed" ELSE IF r = "profile" THEN "loaded" ELSE "done"
(* What waits for r goes on once r has ended. *)
Continue(at, r, ok) ==
  IF at # r THEN at ELSE IF ~ok THEN "failed" ELSE
  IF r = "profile" THEN "loaded" ELSE "done"

(* whenComplete: the guard forgets the request.  Or only one that succeeds. *)
ReleaseAnswered(r) == fetch' = IF At(r, "ok") THEN [fetch EXCEPT ![r] = None] ELSE fetch
Release(r) == fetch' = [fetch EXCEPT ![r] = None]

(* The answer: memory first, then the disk. *)
Complete(r) ==
  /\ At(r, "ok") \/ At(r, "failed")
  /\ Release(r)
  /\ LET ok == At(r, "ok")
     IN  /\ shown' = IF ok THEN [shown EXCEPT ![r] = fetch[r].token.user] ELSE shown
         /\ saving' = IF ok THEN [saving EXCEPT ![r] = @ \cup {fetch[r].token.user}]
                            ELSE saving
         /\ restore' = [restore EXCEPT !.at = Continue(@, r, ok)]
         /\ sync' = Continue(sync, r, ok)
  /\ UNCHANGED <<server, tokens, cached, hydrated, screen, login, logout, used, calm>>

(* The history is encoded when it is written, the rest beforehand. *)
Save(r) ==
  /\ \E u \in saving[r] : /\ cached' = [cached EXCEPT ![r] =
                                IF r = "history" THEN shown[r] ELSE u]
                          /\ saving' = [saving EXCEPT ![r] = @ \ {u}]
  /\ UNCHANGED <<server, tokens, fetch, shown, hydrated, flows, used, calm>>

(* LocalDataStore.clearAll awaits the removal of one key after the other.  *)
Clearing == [clearProfile |-> "profile", clearWallet |-> "wallet",
             clearHistory |-> "history", clearQr |-> "qr"]
AfterClear == [clearProfile |-> "clearWallet", clearWallet |-> "clearHistory",
               clearHistory |-> "clearQr", clearQr |-> "idle"]

Clear(stage) ==
  /\ stage \in DOMAIN Clearing
  /\ cached' = [r \in Resources |-> IF r = Clearing[stage] THEN None ELSE cached[r]]

-----------------------------------------------------------------------------
(* AuthGate: start-up, and again after a logout.  MainShell asks for the   *)
(* parts of the dashboard that are not fresh, what has no data among them. *)

Stale(S) == {r \in Dashboard : shown'[r] = None} \subseteq S

HasData(d) == d["profile"] # None /\ \E r \in Dashboard : d[r] # None

(* ApiClient.init; it is called twice, and the second call decides. *)
Boot ==
  /\ screen = "boot" /\ restore.at = "idle"
  /\ mem' = disk
  /\ screen' = "init"
  /\ UNCHANGED <<server, disk, fetch, data, restore, sync, login, logout, used, calm>>

(* hydrateFromDisk and restoreSession: cached data is shown at once and    *)
(* refreshed in the background; without it the refresh is awaited.         *)
Restore ==
  /\ screen = "init"
  /\ hydrated' = TRUE
  /\ shown' = [r \in Resources |->
       IF ~hydrated /\ cached[r] # None THEN cached[r] ELSE shown[r]]
  /\ \/ /\ mem.access = None
        /\ screen' = "login"
        /\ UNCHANGED <<fetch, restore>>
     \/ /\ mem.access # None
        /\ screen' = IF HasData(shown') THEN "shell" ELSE "restoring"
        /\ restore' = [at |-> "profile", awaited |-> ~HasData(shown')]
        /\ \E S \in SUBSET Dashboard :
             /\ Join({"profile"} \cup (IF screen' = "shell" THEN S ELSE {}), shown'["profile"])
             /\ IF screen' = "shell" THEN Stale(S) ELSE S = {}
  /\ UNCHANGED <<server, tokens, saving, cached, sync, login, logout, used, calm>>

(* A restore that ends without a session and shows nothing. *)
ShowShell(s) ==
  IF screen # "restoring" \/ s = "login" THEN UNCHANGED <<screen, fetch>>
  ELSE /\ screen' = s
       /\ \E S \in SUBSET Dashboard : Stale(S) /\ Join(S, shown["profile"])
(* The end of what was awaited: nothing, if it ran out of time before. *)
Show(s) ==
  IF screen # "restoring" THEN UNCHANGED <<screen, fetch>>
  ELSE /\ screen' = s
       /\ IF s = "shell" THEN \E S \in SUBSET Dashboard : Stale(S) /\ Join(S, shown["profile"])
          ELSE UNCHANGED fetch

(* refreshAll after the profile: the dashboard, whose errors are caught.   *)
RestoreDashboard ==
  /\ restore.at = "loaded" /\ saving["profile"] = {}
  /\ Join(Dashboard, shown["profile"])
  /\ restore' = [restore EXCEPT !.at = "dashboard"]
  /\ UNCHANGED <<server, tokens, data, screen, sync, login, logout, used, calm>>

RestoreEnd ==
  /\ restore.at = "dashboard"
  /\ \A r \in Dashboard : fetch[r] = None /\ saving[r] = {}
  /\ restore' = [at |-> "idle", awaited |-> FALSE]
  /\ UNCHANGED <<server, tokens, data, sync, login, logout, used, calm>>
  /\ IF restore.awaited
     THEN Show(IF shown["profile"] # None THEN "shell" ELSE "login")
     ELSE UNCHANGED <<screen, fetch>>

(* No profile: nothing is done in the background; a session that was       *)
(* awaited is given up, its tokens and its cache cleared.                  *)
RestoreFail ==
  /\ restore.at = "failed"
  /\ Trouble(restore.awaited /\ ~HasData(shown))
  /\ UNCHANGED <<server, disk, data, sync, login, logout, used>>
  /\ IF restore.awaited /\ ~HasData(shown)
     THEN /\ mem' = NoPair
          /\ restore' = [restore EXCEPT !.at = "removeAccess"]
          /\ UNCHANGED <<screen, fetch>>
     ELSE /\ restore' = [at |-> "idle", awaited |-> FALSE]
          /\ UNCHANGED mem
          /\ Show("shell")

RestoreWrite ==
  /\ \/ /\ restore.at = "removeAccess" /\ SaveAccess(None)
        /\ restore' = [restore EXCEPT !.at = "removeRefresh"]
     \/ /\ restore.at = "removeRefresh" /\ SaveRefresh(None)
        /\ restore' = [restore EXCEPT !.at = "clearProfile"]
  /\ UNCHANGED <<server, mem, fetch, data, screen, sync, login, logout, used, calm>>

RestoreClear ==
  /\ Clear(restore.at)
  /\ UNCHANGED <<server, tokens, saving, shown, hydrated, sync, login, logout, used, calm>>
  /\ IF AfterClear[restore.at] = "idle"
     THEN restore' = [at |-> "idle", awaited |-> FALSE] /\ Show("login")
     ELSE restore' = [restore EXCEPT !.at = AfterClear[@]] /\ UNCHANGED <<screen, fetch>>

(* sessionRestoreTimeout: the login screen, while the restore goes on. *)
RestoreTimeout ==
  /\ screen = "restoring"
  /\ screen' = "login"
  /\ Trouble(TRUE)
  /\ UNCHANGED <<server, tokens, fetch, data, restore, sync, login, logout, used>>

-----------------------------------------------------------------------------
(* Login and logout. *)

Login(u) ==
  /\ screen = "login" /\ login = None /\ used.logins < MaxLogins
  /\ login' = [stage |-> "sent", user |-> u, token |-> None]
  /\ used' = [used EXCEPT !.logins = @ + 1]
  /\ UNCHANGED <<server, tokens, fetch, data, screen, restore, sync, logout, calm>>

ServeLogin ==
  /\ login # None /\ login.stage = "sent" /\ issued < MaxIssued
  /\ LET t == [user |-> login.user, sess |-> issued + 1, no |-> issued + 1]
     IN  /\ row' = [row EXCEPT ![t.sess] = t.no]
         /\ login' = [login EXCEPT !.stage = "answered", !.token = t]
  /\ issued' = issued + 1
  /\ UNCHANGED <<expired, tokens, fetch, data, screen, restore, sync, logout, used, calm>>

OnLogin ==
  /\ login # None /\ login.stage = "answered"
  /\ SetTokens(login.token)
  /\ login' = [login EXCEPT !.stage = "saveAccess"]
  /\ UNCHANGED <<server, disk, fetch, data, screen, restore, sync, logout, used, calm>>

LoginWriteAccess ==
  /\ login # None /\ login.stage = "saveAccess"
  /\ SaveAccess(login.token)
  /\ login' = [login EXCEPT !.stage = "saveRefresh"]
  /\ UNCHANGED <<server, mem, fetch, data, screen, restore, sync, logout, used, calm>>

(* _syncAfterLogin asks for the profile, and MainShell is shown. *)
LoginEnd ==
  /\ login # None /\ login.stage = "saveRefresh"
  /\ SaveRefresh(login.token)
  /\ login' = None
  /\ screen' = "shell"
  /\ sync' = "profile"
  /\ UNCHANGED <<server, mem, data, restore, logout, used, calm>>
  /\ \E S \in SUBSET Dashboard : Stale(S) /\ Join({"profile"} \cup S, shown["profile"])

LoginFail ==
  /\ login # None /\ login.stage = "sent"
  /\ login' = None
  /\ Event
  /\ UNCHANGED <<server, tokens, fetch, data, screen, restore, sync, logout, calm>>

(* The wallet follows the profile, and the history the wallet. *)
Sync ==
  /\ \/ /\ sync = "loaded" /\ saving["profile"] = {}
        /\ Join({"wallet"}, shown["profile"]) /\ sync' = "wallet"
     \/ /\ sync = "done" /\ saving["wallet"] = {}
        /\ Join(Resources \cap {"history"}, shown["profile"]) /\ sync' = "idle"
     \/ /\ sync = "failed"
        /\ UNCHANGED fetch /\ sync' = "idle"
  /\ UNCHANGED <<server, tokens, data, screen, restore, login, logout, used, calm>>

(* Pull to refresh: refreshDashboard(force: true), or the history alone. *)
Refresh ==
  /\ screen = "shell" /\ logout = "idle"
  /\ \E S \in {Dashboard, Dashboard \cap {"history"}} : S # {} /\ Join(S, shown["profile"])
  /\ Event
  /\ UNCHANGED <<server, tokens, data, flows, calm>>

(* MyQrScreen: what is cached is shown at once, and asked for again unless *)
(* it came within qrTtl, which may have passed at any moment.              *)
OpenQr ==
  /\ screen = "shell" /\ logout = "idle"
  /\ "qr" \in Resources /\ fetch["qr"] = None
  /\ Join({"qr"}, shown["profile"])
  /\ Event
  /\ UNCHANGED <<server, tokens, data, flows, calm>>

Logout ==
  /\ screen = "shell" /\ logout = "idle"
  /\ mem' = NoPair
  /\ logout' = "removeAccess"
  /\ Trouble(~Idle)
  /\ UNCHANGED <<server, disk, fetch, data, screen, restore, sync, login, used>>

LogoutWrite ==
  /\ \/ logout = "removeAccess" /\ SaveAccess(None) /\ logout' = "removeRefresh"
     \/ logout = "removeRefresh" /\ SaveRefresh(None) /\ logout' = "forget"
  /\ UNCHANGED <<server, mem, fetch, data, screen, restore, sync, login, used, calm>>

(* A logout that leaves the balances in memory. *)
ForgetOwner == shown' = [shown EXCEPT !["profile"] = None]
ForgetData == shown' = NoData

LogoutForget ==
  /\ logout = "forget"
  /\ ForgetData
  /\ logout' = "clearProfile"
  /\ UNCHANGED <<server, tokens, fetch, saving, cached, hydrated, screen, restore,
                 sync, login, used, calm>>

(* The cache is cleared, then AuthGate again. *)
LogoutEnd ==
  /\ Clear(logout)
  /\ logout' = AfterClear[logout]
  /\ screen' = IF logout' = "idle" THEN "boot" ELSE screen
  /\ UNCHANGED <<server, tokens, fetch, saving, shown, hydrated, restore, sync,
                 login, used, calm>>

-----------------------------------------------------------------------------
(* The world. *)

Expire ==
  /\ expired' \in (expired + 1)..issued
  /\ Event
  /\ UNCHANGED <<issued, row, tokens, fetch, data, flows, calm>>

(* The app is killed and started again: what is on disk is left. *)
Crash ==
  /\ mem' = NoPair /\ fetch' = NoData /\ saving' = [r \in Resources |-> {}]
  /\ shown' = NoData /\ hydrated' = FALSE /\ screen' = "boot"
  /\ restore' = [at |-> "idle", awaited |-> FALSE] /\ sync' = "idle"
  /\ login' = None /\ logout' = "idle"
  /\ Event
  /\ Trouble(\/ logout # "idle"
             \/ \E r \in Resources : fetch[r] # None /\ fetch[r].stage \notin PlainStages)
  /\ UNCHANGED <<server, disk, cached>>

Request(r) ==
  \/ ServeGet(r) \/ OnDenied(r) \/ FindSession(r) \/ RotateSession(r)
  \/ OnRotated(r) \/ OnRejected(r) \/ WriteAccess(r) \/ WriteRefresh(r)
  \/ Complete(r)
Gate == Boot \/ Restore \/ RestoreDashboard \/ RestoreEnd \/ RestoreFail
        \/ RestoreWrite \/ RestoreClear
Account == ServeLogin \/ OnLogin \/ LoginWriteAccess \/ LoginEnd \/ Sync
           \/ LogoutWrite \/ LogoutForget \/ LogoutEnd

Next ==
  \/ \E r \in Resources : Request(r) \/ Save(r) \/ Lose(r)
  \/ Gate \/ Account \/ RestoreTimeout
  \/ \E u \in Users : Login(u)
  \/ LoginFail \/ Refresh \/ OpenQr \/ Logout \/ Expire \/ Crash

Spec == Init /\ [][Next]_vars

(* Dart runs what is ready, and Dio's timeouts end what the network does   *)
(* not (ServeGet or Lose).  The user owes nothing, and the time-out of the *)
(* restore is not counted on.                                              *)
FairSpec ==
  /\ Spec
  /\ \A r \in Resources : WF_vars(Request(r) \/ Lose(r)) /\ WF_vars(Save(r))
  /\ WF_vars(Gate) /\ WF_vars(Account \/ LoginFail)

-----------------------------------------------------------------------------
(* Properties. *)

(* The shape of the app's state and of the server's sessions. *)
TypeOK ==
  /\ issued \in 0..MaxIssued /\ row \in [1..MaxIssued -> 0..MaxIssued]
  /\ mem \in Tokens /\ disk \in Tokens
  /\ fetch \in [Resources -> Fetch \cup {None}]
  /\ saving \in [Resources -> SUBSET Users]
  /\ {shown, cached} \subseteq [Resources -> Users \cup {None}]
  /\ screen \in {"boot", "init", "restoring", "login", "shell"}
  /\ restore \in [at : {"idle", "profile", "loaded", "failed", "dashboard",
                        "removeAccess", "removeRefresh"} \cup DOMAIN Clearing,
                 awaited : BOOLEAN]
  /\ sync \in {"idle", "profile", "loaded", "wallet", "done", "failed"}
  /\ login \in LoginCall \cup {None}
  /\ logout \in {"idle", "removeAccess", "removeRefresh", "forget"} \cup DOMAIN Clearing

LoggedIn == screen = "shell" /\ logout = "idle"

(* What is shown in the app is data of the user who is logged in. *)
OwnData ==
  LoggedIn /\ mem.access # None => \A r \in Resources : shown[r] \in {None, mem.access.user}

(* "Récupérer le QR de l'utilisateur connecté": the QR code that MyQrScreen *)
(* shows to whoever is to pay is a code of the user who is logged in.      *)
OwnQr ==
  LoggedIn /\ mem.access # None /\ "qr" \in Resources =>
    shown["qr"] \in {None, mem.access.user}

(* In calm, what WalletStore shows stays the user's own through logouts,    *)
(* logins of others, expiries, lost requests and restarts.  (It says       *)
(* nothing of NotificationCenter, which a logout does not clear.)          *)
CalmShowsOwnData == calm => OwnData

(* In calm, no expiry logs the user out: rotations, one after the other,   *)
(* keep the session going, across restarts too.                            *)
CalmStaysLoggedIn == calm /\ LoggedIn => mem.access # None

(* Nor does a session outlive its logout: on the login screen no token and  *)
(* no data are left, in memory or on disk, for a restart to bring back.    *)
CalmLogoutIsFinal ==
  calm /\ screen = "login" /\ login = None =>
    mem = NoPair /\ disk = NoPair /\ shown = NoData /\ cached = NoData

(* In calm, at rest, the disk holds what memory holds, so that a restart restores    *)
(* the session and its data.                                               *)
CalmDiskIsMemory ==
  calm /\ Idle /\ LoggedIn => disk = mem /\ \A r \in Resources : cached[r] = shown[r]

(* Starting the app ends at one of its two screens, whatever is lost and   *)
(* even if the time-out of the restore never fires.                        *)
StartEnds == screen \in {"boot", "init", "restoring"} ~> screen \in {"login", "shell"}

(* A request that was started ends, so that the guard lets the next one in. *)
RequestsEnd == \A r \in Resources : fetch[r] # None ~> fetch[r] = None

(* "JWT access token (court) + refresh token avec rotation": an expired    *)
(* access token does not end the session of a user whose network works:    *)
(* once all that it set off has come to rest, there is still a session.    *)
SessionSurvivesExpiry == LoggedIn /\ Idle => mem.access # None
=============================================================================
