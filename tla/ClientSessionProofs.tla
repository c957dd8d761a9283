------------------------- MODULE ClientSessionProofs -------------------------
(***************************************************************************)
(* Proofs about ClientSession, for any users and bounds: what the app       *)
(* guarantees as long as none of the troubles of `calm` has happened.       *)
(***************************************************************************)
EXTENDS ClientSession, FiniteSetTheorems, TLAPS

-----------------------------------------------------------------------------
(* The invariant. *)

Tokened == {"ok", "refresh", "found", "rotated", "saveAccess", "saveRefresh"}

(* A place that carries a token has one. *)
TypeInv ==
  /\ TypeOK
  /\ \A r \in Resources : fetch[r] # None /\ fetch[r].stage \in Tokened => fetch[r].token # None
  /\ login # None /\ login.stage # "sent" => login.token # None

(* Everything that is someone's is u's. *)
TokenOf(t, u) == t # None => t.user = u
OwnedBy(u) ==
  /\ TokenOf(mem.access, u) /\ TokenOf(mem.refresh, u)
  /\ TokenOf(disk.access, u) /\ TokenOf(disk.refresh, u)
  /\ \A r \in Resources :
       /\ fetch[r] # None => TokenOf(fetch[r].token, u)
       /\ saving[r] \subseteq {u}
       /\ shown[r] \in {None, u} /\ cached[r] \in {None, u}
  /\ login # None => login.user = u /\ TokenOf(login.token, u)

(* The server would still exchange t. *)
Valid(t) == row[t.sess] = t.no

(* A rotation is under way; and its token is not where it was before. *)
Rot(r) == fetch[r] # None /\ fetch[r].stage \notin PlainStages
Deep(r) == fetch[r] # None /\ fetch[r].stage \in {"rotated", "saveAccess", "saveRefresh"}

FetchInv(r) ==
  fetch[r] # None =>
    /\ fetch[r].stage \notin {"rejected", "removeAccess", "removeRefresh"}
    /\ fetch[r].again => mem.refresh # None
    /\ fetch[r].stage \in {"refresh", "found"} => fetch[r].token = mem.refresh /\ mem = disk
    /\ Deep(r) => Valid(fetch[r].token)
    /\ fetch[r].stage \in {"saveAccess", "saveRefresh"} => mem = Pair(fetch[r].token)
    /\ fetch[r].stage = "saveRefresh" => disk.access = fetch[r].token

CacheInv(r) == IF saving[r] = {} THEN cached[r] = shown[r] ELSE shown[r] # None

(* Someone uses the app: there is a session, in memory and on disk. *)
Awake == screen \in {"restoring", "shell"} /\ login = None /\ logout = "idle"

AwakeInv ==
  /\ mem.access # None /\ disk.access # None
  /\ (\A r \in Resources : ~Rot(r)) => mem = disk
  /\ (\A r \in Resources : ~Deep(r)) /\ disk.refresh # None => Valid(disk.refresh)
  /\ \A r \in Resources : FetchInv(r) /\ CacheInv(r)
  /\ \A r, q \in Resources : Rot(r) /\ Rot(q) => r = q
  /\ restore.at \in {"idle", "profile", "loaded", "failed", "dashboard"}
  /\ restore.at \in {"loaded", "dashboard"} => shown["profile"] # None

(* Nobody does: nothing is in flight, and each screen has its leftovers. *)
Quiet == fetch = NoData /\ saving = [r \in Resources |-> {}]
         /\ restore.at = "idle" /\ sync = "idle"

StartInv ==
  /\ login = None /\ logout = "idle" /\ shown = NoData
  /\ screen = "init" => mem = disk
  /\ hydrated => cached = NoData
  /\ disk.access = None => disk = NoPair /\ cached = NoData
  /\ disk.refresh # None => Valid(disk.refresh)

LoginInv ==
  /\ logout = "idle" /\ shown = NoData /\ cached = NoData
  /\ login = None \/ login.stage \in {"sent", "answered"} => mem = NoPair /\ disk = NoPair
  /\ login # None /\ login.stage # "sent" => Valid(login.token)
  /\ login # None /\ login.stage \in {"saveAccess", "saveRefresh"} => mem = Pair(login.token)
  /\ login # None /\ login.stage = "saveAccess" => disk = NoPair
  /\ login # None /\ login.stage = "saveRefresh" => disk = [NoPair EXCEPT !.access = login.token]

Clears == {"clearProfile", "clearWallet", "clearHistory", "clearQr"}

(* What clearAll has removed before it removes the next one. *)
Cleared(stage) ==
  CASE stage = "clearWallet"  -> {"profile"}
    [] stage = "clearHistory" -> {"profile", "wallet"}
    [] stage = "clearQr"      -> {"profile", "wallet", "history"}
    [] OTHER                  -> {}

LogoutInv ==
  /\ login = None /\ logout # "idle" /\ mem = NoPair
  /\ logout = "removeRefresh" => disk.access = None
  /\ logout \in {"forget"} \cup Clears => disk = NoPair
  /\ logout \in Clears => shown = NoData
  /\ \A r \in Resources \cap Cleared(logout) : cached[r] = None

AsleepInv ==
  /\ Quiet
  /\ screen \in {"boot", "init"} => StartInv
  /\ screen = "login" => LoginInv
  /\ screen = "shell" => LogoutInv
  /\ screen # "restoring"

PhoneInv == (Awake => AwakeInv) /\ (~Awake => AsleepInv)

CalmInv == calm => PhoneInv /\ \E u \in Users \cup {None} : OwnedBy(u)

-----------------------------------------------------------------------------
(* Types. *)

Stages == {"sent", "ok", "denied", "refresh", "found", "rotated", "saveAccess", "saveRefresh",
           "rejected", "removeAccess", "removeRefresh", "failed"}

FetchOK ==
  /\ fetch \in [Resources -> Fetch \cup {None}]
  /\ \A r \in Resources : fetch[r] # None /\ fetch[r].stage \in Tokened => fetch[r].token # None

LEMMA IssuedNat == MaxIssued \in Nat
<1>1. IsFiniteSet({"profile", "wallet", "history", "qr"})
  <2>1. IsFiniteSet({})
    BY FS_EmptySet
  <2>2. IsFiniteSet({} \cup {"profile"})
    BY <2>1, FS_AddElement
  <2>3. IsFiniteSet({} \cup {"profile"} \cup {"wallet"})
    BY <2>2, FS_AddElement
  <2>4. IsFiniteSet({} \cup {"profile"} \cup {"wallet"} \cup {"history"})
    BY <2>3, FS_AddElement
  <2>5. IsFiniteSet({} \cup {"profile"} \cup {"wallet"} \cup {"history"} \cup {"qr"})
    BY <2>4, FS_AddElement
  <2>6. {} \cup {"profile"} \cup {"wallet"} \cup {"history"} \cup {"qr"}
          = {"profile", "wallet", "history", "qr"}
    OBVIOUS
  <2> QED
    BY <2>5, <2>6
<1>2. Cardinality(Resources) \in Nat
  BY <1>1, ResourcesAssumption, FS_Subset, FS_CardinalityType
<1>3. (MaxEvents + 1) * Cardinality(Resources) \in Nat
  BY <1>2, BoundsAssumption
<1> QED
  BY <1>3, BoundsAssumption DEF MaxIssued

LEMMA MoveType ==
  ASSUME TypeInv, NEW r \in Resources, fetch[r] # None, NEW stage \in Stages,
         NEW t \in Token \cup {None}, stage \in Tokened => t # None, Move(r, stage, t)
  PROVE  /\ FetchOK' /\ \A q \in Resources \ {r} : fetch'[q] = fetch[q]
         /\ fetch'[r] # None /\ fetch'[r].stage = stage /\ fetch'[r].token = t
         /\ fetch'[r].again = fetch[r].again
<1>1. fetch \in [Resources -> Fetch \cup {None}] /\ fetch[r] \in Fetch
  BY DEF TypeInv, TypeOK
<1> DEFINE x == [fetch[r] EXCEPT !.stage = stage, !.token = t]
<1>2. fetch' = [fetch EXCEPT ![r] = x]
  BY <1>1 DEF Move
<1>3. x \in Fetch /\ x.stage = stage /\ x.token = t /\ x.again = fetch[r].again
  BY <1>1 DEF Fetch, Stages
<1>4. x # None
  BY <1>3, NoneAssumption
<1> HIDE DEF x
<1>5. fetch'[r] = x /\ \A q \in Resources \ {r} : fetch'[q] = fetch[q]
  BY <1>1, <1>2
<1>6. fetch' \in [Resources -> Fetch \cup {None}]
  BY <1>1, <1>2, <1>3
<1> QED
  BY <1>3, <1>4, <1>5, <1>6 DEF TypeInv, FetchOK

LEMMA JoinType ==
  ASSUME TypeInv, NEW S, NEW owner, Join(S, owner)
  PROVE  /\ FetchOK'
         /\ \A q \in Resources :
              \/ fetch'[q] = fetch[q]
              \/ /\ fetch[q] = None /\ q \in S /\ fetch'[q] # None
                 /\ fetch'[q].stage = "sent" /\ fetch'[q].token = mem.access
                 /\ fetch'[q].again = FALSE
<1> DEFINE x == [stage |-> "sent", token |-> mem.access, again |-> FALSE]
<1>1. fetch \in [Resources -> Fetch \cup {None}] /\ mem.access \in Token \cup {None}
  BY DEF TypeInv, TypeOK, Tokens
<1>2. x \in Fetch /\ x # None /\ x.stage = "sent" /\ x.token = mem.access /\ x.again = FALSE
  <2>1. x \in Fetch
    BY <1>1 DEF Fetch
  <2> QED
    BY <2>1, NoneAssumption
<1> HIDE DEF x
<1>3. \A q \in Resources : fetch'[q] = fetch[q] \/ (fetch[q] = None /\ q \in S /\ fetch'[q] = x)
  BY DEF Join, x
<1>4. fetch' \in [Resources -> Fetch \cup {None}]
  <2>1. fetch' = [q \in Resources |-> fetch'[q]]
    BY DEF Join
  <2>2. \A q \in Resources : fetch'[q] \in Fetch \cup {None}
    BY <1>1, <1>2, <1>3
  <2> QED
    BY <2>1, <2>2
<1> QED
  BY <1>2, <1>3, <1>4 DEF TypeInv, FetchOK, Tokened

LEMMA ReleaseType ==
  ASSUME TypeInv, NEW r \in Resources, Release(r)
  PROVE  /\ FetchOK' /\ fetch'[r] = None
         /\ \A q \in Resources \ {r} : fetch'[q] = fetch[q]
<1>1. /\ fetch \in [Resources -> Fetch \cup {None}]
      /\ fetch' = [fetch EXCEPT ![r] = None]
  BY DEF TypeInv, TypeOK, Release
<1>2. fetch'[r] = None /\ \A q \in Resources \ {r} : fetch'[q] = fetch[q]
  BY <1>1
<1>3. fetch' \in [Resources -> Fetch \cup {None}]
  BY <1>1
<1> QED
  BY <1>2, <1>3 DEF TypeInv, FetchOK

(* The places of a restore, those of clearAll among them. *)
RestoreAts == {"idle", "profile", "loaded", "failed", "dashboard",
               "removeAccess", "removeRefresh"} \cup Clears

LEMMA ClearStages ==
  /\ DOMAIN Clearing = Clears
  /\ \A stage \in Clears : AfterClear[stage] \in Clears \cup {"idle"}
  BY DEF Clearing, AfterClear, Clears

(* One key of the cache is removed, and nothing else is written. *)
LEMMA ClearType ==
  ASSUME TypeInv, NEW stage, Clear(stage)
  PROVE  /\ stage \in Clears
         /\ cached' \in [Resources -> Users \cup {None}]
         /\ \A r \in Resources : cached'[r] \in {None, cached[r]}
<1>1. stage \in Clears
  BY ClearStages DEF Clear
<1>2. cached \in [Resources -> Users \cup {None}]
  BY DEF TypeInv, TypeOK
<1> QED
  BY <1>1, <1>2 DEF Clear

(* What is left of TypeInv when the requests are set aside. *)
RestOK ==
  /\ issued \in 0..MaxIssued /\ row \in [1..MaxIssued -> 0..MaxIssued]
  /\ mem \in Tokens /\ disk \in Tokens
  /\ saving \in [Resources -> SUBSET Users]
  /\ {shown, cached} \subseteq [Resources -> Users \cup {None}]
  /\ screen \in {"boot", "init", "restoring", "login", "shell"}
  /\ restore \in [at : RestoreAts, awaited : BOOLEAN]
  /\ sync \in {"idle", "profile", "loaded", "wallet", "done", "failed"}
  /\ login \in LoginCall \cup {None}
  /\ logout \in {"idle", "removeAccess", "removeRefresh", "forget"} \cup Clears
  /\ login # None /\ login.stage # "sent" => login.token # None

LEMMA TypeParts == TypeInv <=> FetchOK /\ RestOK
  BY ClearStages DEF TypeInv, TypeOK, FetchOK, RestOK, RestoreAts

LEMMA TypePartsNext == TypeInv' <=> FetchOK' /\ RestOK'
  BY ClearStages DEF TypeInv, TypeOK, FetchOK, RestOK, RestoreAts

LEMMA NoDataType == NoData \in [Resources -> Users \cup {None}] /\ \A r \in Resources : NoData[r] = None
  BY DEF NoData

LEMMA PairType ==
  ASSUME NEW t \in Token \cup {None}
  PROVE  Pair(t) \in Tokens /\ Pair(t).access = t /\ Pair(t).refresh = t
  BY DEF Pair, Tokens

LEMMA FailType ==
  ASSUME TypeInv, NEW r \in Resources, fetch[r] # None, Fail(r)
  PROVE  /\ FetchOK' /\ \A q \in Resources \ {r} : fetch'[q] = fetch[q]
         /\ fetch'[r] # None /\ fetch'[r].token = None /\ fetch'[r].again = fetch[r].again
         /\ fetch'[r].stage = IF fetch[r].again THEN "rejected" ELSE "failed"
<1> DEFINE stage == IF fetch[r].again THEN "rejected" ELSE "failed"
<1>1. stage \in Stages /\ stage \notin Tokened /\ Move(r, stage, None)
  BY DEF Stages, Tokened, Fail
<1> HIDE DEF stage
<1>2. /\ FetchOK' /\ \A q \in Resources \ {r} : fetch'[q] = fetch[q]
      /\ fetch'[r] # None /\ fetch'[r].token = None /\ fetch'[r].again = fetch[r].again
      /\ fetch'[r].stage = stage
  BY <1>1, MoveType
<1> QED
  BY <1>2 DEF stage

(* The steps of a request, its answer apart, and what they write. *)
RequestStep(r) ==
  \/ ServeGet(r) \/ OnDenied(r) \/ FindSession(r) \/ RotateSession(r) \/ OnRotated(r)
  \/ OnRejected(r) \/ WriteAccess(r) \/ WriteRefresh(r) \/ Lose(r)

LEMMA RotatedToken ==
  ASSUME TypeInv, NEW r \in Resources, RotateSession(r)
  PROVE  LET t == [fetch[r].token EXCEPT !.no = issued + 1]
         IN  /\ t \in Token /\ t # None /\ t.no = issued + 1 /\ t.user = fetch[r].token.user
             /\ t.sess = fetch[r].token.sess /\ t.sess \in 1..MaxIssued
<1>1. fetch[r].token \in Token /\ issued \in Nat /\ issued + 1 \in 1..MaxIssued
  BY IssuedNat DEF TypeInv, TypeOK, RotateSession, At, Fetch, Tokened
<1> DEFINE t == [fetch[r].token EXCEPT !.no = issued + 1]
<1>2. t \in Token
  BY <1>1 DEF Token
<1> QED
  BY <1>1, <1>2, NoneAssumption DEF Token

LEMMA RequestType ==
  ASSUME TypeInv, NEW r \in Resources, RequestStep(r)
  PROVE  FetchOK' /\ RestOK' /\ UNCHANGED <<saving, shown, cached, hydrated, flows>>
<1>1. /\ RestOK /\ fetch[r] # None /\ fetch[r] \in Fetch
  BY TypeParts DEF RequestStep, ServeGet, OnDenied, FindSession, RotateSession, OnRotated,
     OnRejected, WriteAccess, WriteRefresh, Lose, At, TypeInv, TypeOK
<1>2. fetch[r].token \in Token \cup {None} /\ mem.access \in Token \cup {None}
      /\ mem.refresh \in Token \cup {None}
  BY <1>1 DEF Fetch, RestOK, Tokens
<1>3. /\ {"ok", "denied", "failed", "rejected", "refresh", "found", "rotated", "saveAccess",
          "saveRefresh", "removeAccess", "removeRefresh", "sent"} \subseteq Stages
      /\ {"denied", "failed", "rejected", "removeAccess", "removeRefresh", "sent"}
           \cap Tokened = {}
      /\ fetch[r].stage \in Tokened => fetch[r].token # None
  <2>1. fetch[r].stage \in Tokened => fetch[r].token # None
    BY <1>1 DEF TypeInv
  <2> QED
    BY <2>1 DEF Stages, Tokened
<1>4. /\ FetchOK'
      /\ UNCHANGED <<saving, shown, cached, hydrated, flows>>
  <2>1. CASE ServeGet(r)
    BY <1>1, <1>2, <1>3, <2>1, MoveType DEF ServeGet, data
  <2>2. CASE OnDenied(r)
    BY <1>1, <1>2, <1>3, <2>2, MoveType, FailType DEF OnDenied, data
  <2>3. CASE FindSession(r)
    BY <1>1, <1>2, <1>3, <2>3, MoveType DEF FindSession, data, At, Tokened
  <2>4. CASE RotateSession(r)
    BY <1>1, <1>3, <2>4, MoveType, RotatedToken DEF RotateSession, data
  <2>5. CASE OnRotated(r)
    BY <1>1, <1>2, <1>3, <2>5, MoveType DEF OnRotated, data, At, Tokened
  <2>6. CASE OnRejected(r)
    BY <1>1, <1>2, <1>3, <2>6, MoveType DEF OnRejected, data
  <2>7. CASE WriteAccess(r)
    BY <1>1, <1>2, <1>3, <2>7, MoveType DEF WriteAccess, data, At, Tokened
  <2>8. CASE WriteRefresh(r)
    <3>1. CASE Move(r, "failed", None)
      BY <1>1, <1>3, <2>8, <3>1, MoveType DEF WriteRefresh, data
    <3>2. CASE fetch' = [fetch EXCEPT ![r] = [stage |-> "sent", token |-> mem.access, again |-> TRUE]]
      <4> DEFINE x == [stage |-> "sent", token |-> mem.access, again |-> TRUE]
      <4>1. x \in Fetch /\ x.stage = "sent"
        BY <1>2 DEF Fetch
      <4> HIDE DEF x
      <4>2. FetchOK'
        BY <3>2, <4>1 DEF TypeInv, TypeOK, FetchOK, Tokened, x
      <4> QED
        BY <2>8, <4>2 DEF WriteRefresh, data
    <3> QED
      BY <2>8, <3>1, <3>2 DEF WriteRefresh
  <2>9. CASE Lose(r)
    BY <1>1, <1>2, <1>3, <2>9, MoveType, FailType DEF Lose, data
  <2> QED
    BY <2>1, <2>2, <2>3, <2>4, <2>5, <2>6, <2>7, <2>8, <2>9 DEF RequestStep
<1>5. mem' \in Tokens /\ disk' \in Tokens
  <2>1. CASE UNCHANGED tokens
    BY <1>1, <2>1 DEF tokens, RestOK
  <2>2. CASE OnRotated(r)
    BY <1>1, <1>2, <2>2, PairType DEF OnRotated, SetTokens, RestOK
  <2>3. CASE OnRejected(r)
    BY <1>1, <2>3, PairType DEF OnRejected, NoPair, RestOK
  <2>4. CASE WriteAccess(r) \/ WriteRefresh(r)
    BY <1>1, <1>2, <2>4 DEF WriteAccess, WriteRefresh, SaveAccess, SaveRefresh, RestOK, Tokens
  <2> QED
    BY <2>1, <2>2, <2>3, <2>4 DEF RequestStep, ServeGet, OnDenied, FindSession, RotateSession, Lose
<1>6. issued' \in 0..MaxIssued /\ row' \in [1..MaxIssued -> 0..MaxIssued]
  <2>1. CASE UNCHANGED server
    BY <1>1, <2>1 DEF server, RestOK
  <2>2. CASE RotateSession(r)
    <3>1. issued \in Nat /\ issued + 1 \in 1..MaxIssued
      BY <1>1, <2>2, IssuedNat DEF RotateSession, RestOK
    <3> DEFINE t == [fetch[r].token EXCEPT !.no = issued + 1]
    <3>2. t.no = issued + 1 /\ t.sess \in 1..MaxIssued
      BY <2>2, RotatedToken
    <3>3. row' = [row EXCEPT ![t.sess] = t.no] /\ issued' = issued + 1
      BY <2>2 DEF RotateSession
    <3> HIDE DEF t
    <3> QED
      BY <1>1, <3>1, <3>2, <3>3, IssuedNat DEF RestOK
  <2> QED
    BY <2>1, <2>2 DEF RequestStep, ServeGet, OnDenied, FindSession, OnRotated, OnRejected,
                      WriteAccess, WriteRefresh, Lose
<1> QED
  BY <1>1, <1>4, <1>5, <1>6 DEF RestOK, flows

LEMMA ContinueType ==
  ASSUME NEW r \in Resources, NEW ok \in BOOLEAN,
         NEW at \in RestoreAts \cup {"wallet", "done"}
  PROVE  /\ Continue(at, r, ok) \in {at, "failed", "loaded", "done"}
         /\ Continue(at, r, ok) = at \/ at = r
         /\ at # "wallet" => Continue(at, r, ok) # "done" \/ at = "done"
         /\ Continue(at, r, ok) = "loaded" => at = "loaded" \/ (ok /\ r = "profile")
<1>1. r \in {"profile", "wallet", "history", "qr"}
  BY ResourcesAssumption
<1> QED
  BY <1>1 DEF Continue, RestoreAts, Clears

(* The answer of a request reaches the fields and whoever waits for it. *)
LEMMA CompleteType ==
  ASSUME TypeInv, NEW r \in Resources, Complete(r)
  PROVE  TypeInv'
<1>1. /\ FetchOK' /\ fetch[r] \in Fetch /\ RestOK
  BY ReleaseType, TypeParts DEF Complete, At, TypeInv, TypeOK
<1> DEFINE ok == At(r, "ok")
<1>2. ok \in BOOLEAN /\ (ok => fetch[r].token.user \in Users)
  <2>1. ok => fetch[r].token \in Token
    BY <1>1 DEF At, TypeInv, Tokened, Fetch
  <2> QED
    BY <2>1 DEF At, Token
<1>3. /\ shown' = IF ok THEN [shown EXCEPT ![r] = fetch[r].token.user] ELSE shown
      /\ saving' = IF ok THEN [saving EXCEPT ![r] = @ \cup {fetch[r].token.user}] ELSE saving
      /\ restore' = [restore EXCEPT !.at = Continue(@, r, ok)]
      /\ sync' = Continue(sync, r, ok)
  BY DEF Complete
<1> HIDE DEF ok
<1>4. /\ shown' \in [Resources -> Users \cup {None}]
      /\ saving' \in [Resources -> SUBSET Users]
  BY <1>1, <1>2, <1>3 DEF RestOK
<1>5. sync' \in {"idle", "profile", "loaded", "wallet", "done", "failed"}
  <2>1. sync \in {"idle", "profile", "loaded", "wallet", "done", "failed"}
    BY <1>1 DEF RestOK
  <2> QED
    BY <1>2, <1>3, <2>1, ContinueType DEF RestoreAts, Clears
<1>6. restore' \in [at : RestoreAts, awaited : BOOLEAN]
  <2>1. restore.at \in RestoreAts
    BY <1>1 DEF RestOK
  <2>2. Continue(restore.at, r, ok) \in RestoreAts
    BY <1>2, <2>1, ContinueType DEF RestoreAts, Clears
  <2> QED
    BY <1>1, <1>3, <2>2 DEF RestOK
<1>7. RestOK'
  BY <1>1, <1>4, <1>5, <1>6 DEF Complete, server, tokens, RestOK
<1> QED
  BY <1>1, <1>7, TypePartsNext

LEMMA SaveType ==
  ASSUME TypeInv, NEW r \in Resources, Save(r)
  PROVE  TypeInv'
<1>1. FetchOK /\ RestOK
  BY TypeParts
<1>2. PICK u \in saving[r] : /\ cached' = [cached EXCEPT ![r] =
                                IF r = "history" THEN shown[r] ELSE u]
                             /\ saving' = [saving EXCEPT ![r] = @ \ {u}]
  BY DEF Save
<1>3. u \in Users /\ shown[r] \in Users \cup {None}
  BY <1>1, <1>2 DEF RestOK
<1>4. (IF r = "history" THEN shown[r] ELSE u) \in Users \cup {None}
  BY <1>3
<1>5. cached' \in [Resources -> Users \cup {None}] /\ saving' \in [Resources -> SUBSET Users]
  BY <1>1, <1>2, <1>4 DEF RestOK
<1>6. RestOK' /\ FetchOK'
  BY <1>1, <1>5 DEF Save, server, tokens, flows, RestOK, FetchOK
<1> QED
  BY <1>6, TypePartsNext

LEMMA ShowType ==
  ASSUME TypeInv, NEW s \in {"login", "shell"}, Show(s)
  PROVE  FetchOK' /\ screen' \in {"boot", "init", "restoring", "login", "shell"}
<1>1. CASE UNCHANGED fetch
  BY <1>1, TypeParts DEF Show, FetchOK, TypeInv, TypeOK
<1>2. CASE \E S \in SUBSET Dashboard : Join(S, shown["profile"])
  BY <1>2, JoinType DEF Show, TypeInv, TypeOK
<1> QED
  BY <1>1, <1>2 DEF Show

LEMMA GateType ==
  ASSUME TypeInv, Gate \/ RestoreTimeout
  PROVE  TypeInv'
<1>1. FetchOK /\ RestOK
  BY TypeParts
<1> USE DEF RestoreAts, Clears
<1> DEFINE Ats == RestoreAts
<1>2. /\ restore.awaited \in BOOLEAN
      /\ \A at \in Ats : [restore EXCEPT !.at = at] \in [at : Ats, awaited : BOOLEAN]
  BY <1>1 DEF RestOK
<1>3. NoPair \in Tokens /\ \A t \in {None} : SaveAccess(t) \/ SaveRefresh(t) => disk' \in Tokens
  BY <1>1, PairType DEF NoPair, SaveAccess, SaveRefresh, RestOK, Tokens
<1>4. CASE Boot
  <2>1. RestOK' /\ FetchOK'
    BY <1>1, <1>4 DEF Boot, server, data, RestOK, FetchOK
  <2> QED
    BY <2>1, TypePartsNext
<1>5. CASE Restore
  <2>1. FetchOK'
    <3>1. CASE UNCHANGED fetch
      BY <1>1, <3>1 DEF FetchOK
    <3> QED
      BY <1>5, <3>1, JoinType DEF Restore
  <2>2. shown' \in [Resources -> Users \cup {None}]
    BY <1>1, <1>5 DEF Restore, RestOK
  <2>3. (~HasData(shown')) \in BOOLEAN
    BY DEF HasData
  <2>4. restore' \in [at : Ats, awaited : BOOLEAN]
    <3> DEFINE b == ~HasData(shown')
    <3>1. b \in BOOLEAN
      BY <2>3
    <3>2. restore' = restore \/ restore' = [at |-> "profile", awaited |-> b]
      BY <1>5 DEF Restore
    <3> HIDE DEF b
    <3> QED
      BY <1>1, <3>1, <3>2 DEF RestOK
  <2>5. screen' \in {"boot", "init", "restoring", "login", "shell"}
    BY <1>5 DEF Restore
  <2>6. RestOK'
    BY <1>1, <1>5, <2>2, <2>4, <2>5 DEF Restore, server, tokens, RestOK
  <2> QED
    BY <2>1, <2>6, TypePartsNext
<1>6. CASE RestoreDashboard
  <2>1. FetchOK'
    BY <1>6, JoinType DEF RestoreDashboard
  <2>2. RestOK'
    BY <1>1, <1>2, <1>6 DEF RestoreDashboard, server, tokens, data, RestOK
  <2> QED
    BY <2>1, <2>2, TypePartsNext
<1>7. CASE RestoreEnd
  <2>1. FetchOK' /\ screen' \in {"boot", "init", "restoring", "login", "shell"}
    <3>1. CASE UNCHANGED <<screen, fetch>>
      BY <1>1, <3>1 DEF FetchOK, RestOK
    <3>2. (IF shown["profile"] # None THEN "shell" ELSE "login") \in {"login", "shell"}
      OBVIOUS
    <3> QED
      BY <1>7, <3>1, <3>2, ShowType DEF RestoreEnd
  <2>2. RestOK'
    BY <1>1, <1>7, <2>1 DEF RestoreEnd, server, tokens, data, RestOK
  <2> QED
    BY <2>1, <2>2, TypePartsNext
<1>8. CASE RestoreFail
  <2>1. FetchOK' /\ screen' \in {"boot", "init", "restoring", "login", "shell"}
    <3>1. CASE UNCHANGED <<screen, fetch>>
      BY <1>1, <3>1 DEF FetchOK, RestOK
    <3> QED
      BY <1>8, <3>1, ShowType DEF RestoreFail
  <2>2. mem' \in Tokens /\ restore' \in [at : Ats, awaited : BOOLEAN]
    <3>1. mem' \in {NoPair, mem}
      BY <1>8 DEF RestoreFail
    <3>2. \/ restore' = [restore EXCEPT !.at = "removeAccess"]
          \/ restore' = [at |-> "idle", awaited |-> FALSE]
      BY <1>8 DEF RestoreFail
    <3>3. restore' \in [at : Ats, awaited : BOOLEAN]
      <4>1. CASE restore' = [restore EXCEPT !.at = "removeAccess"]
        BY <1>1, <4>1 DEF RestOK
      <4>2. CASE restore' = [at |-> "idle", awaited |-> FALSE]
        BY <4>2
      <4> QED
        BY <3>2, <4>1, <4>2
    <3> QED
      BY <1>1, <1>3, <3>1, <3>3 DEF RestOK
  <2>3. RestOK'
    BY <1>1, <1>8, <2>1, <2>2 DEF RestoreFail, server, data, RestOK
  <2> QED
    BY <2>1, <2>3, TypePartsNext
<1>9. CASE RestoreWrite
  <2>1. RestOK' /\ FetchOK'
    BY <1>1, <1>2, <1>3, <1>9 DEF RestoreWrite, server, data, RestOK, FetchOK
  <2> QED
    BY <2>1, TypePartsNext
<1>10. CASE RestoreClear
  <2>1. FetchOK' /\ screen' \in {"boot", "init", "restoring", "login", "shell"}
    BY <1>1, <1>10, ShowType DEF RestoreClear, FetchOK, RestOK
  <2>2. /\ cached' \in [Resources -> Users \cup {None}]
        /\ restore.at \in Clears
    BY <1>10, ClearType DEF RestoreClear
  <2>3. restore' \in [at : Ats, awaited : BOOLEAN]
    <3>1. AfterClear[restore.at] \in Ats
      BY <2>2, ClearStages
    <3>2. [at |-> "idle", awaited |-> FALSE] \in [at : Ats, awaited : BOOLEAN]
      OBVIOUS
    <3>3. [restore EXCEPT !.at = AfterClear[@]] = [restore EXCEPT !.at = AfterClear[restore.at]]
      OBVIOUS
    <3>4. [restore EXCEPT !.at = AfterClear[@]] \in [at : Ats, awaited : BOOLEAN]
      BY <1>2, <3>1, <3>3
    <3> QED
      BY <1>10, <3>2, <3>4 DEF RestoreClear
  <2>4. RestOK'
    BY <1>1, <1>10, <2>1, <2>2, <2>3 DEF RestoreClear, server, tokens, RestOK
  <2> QED
    BY <2>1, <2>4, TypePartsNext
<1>11. CASE RestoreTimeout
  <2>1. RestOK' /\ FetchOK'
    BY <1>1, <1>11 DEF RestoreTimeout, server, tokens, data, RestOK, FetchOK
  <2> QED
    BY <2>1, TypePartsNext
<1> QED
  BY <1>4, <1>5, <1>6, <1>7, <1>8, <1>9, <1>10, <1>11, TypePartsNext DEF Gate

(* A login, as it goes on, is a record still. *)
LEMMA LoginStage ==
  ASSUME TypeInv, login # None, NEW stage \in {"answered", "saveAccess", "saveRefresh"},
         NEW t \in Token, login' = [login EXCEPT !.stage = stage, !.token = t]
  PROVE  /\ login' \in LoginCall /\ login' # None /\ login'.stage = stage /\ login'.token = t
         /\ t # None /\ login'.user = login.user
<1>1. login \in LoginCall
  BY DEF TypeInv, TypeOK
<1>2. login' \in LoginCall /\ login'.stage = stage /\ login'.token = t /\ login'.user = login.user
  BY <1>1 DEF LoginCall
<1> QED
  BY <1>2, NoneAssumption

LEMMA NewToken ==
  ASSUME TypeInv, ServeLogin
  PROVE  LET t == [user |-> login.user, sess |-> issued + 1, no |-> issued + 1]
         IN  /\ t \in Token /\ t.user = login.user /\ t.sess = issued + 1 /\ t.no = issued + 1
             /\ t.sess \in 1..MaxIssued
             /\ issued' \in 0..MaxIssued /\ row' \in [1..MaxIssued -> 0..MaxIssued]
<1>1. issued \in Nat /\ issued + 1 \in 1..MaxIssued /\ login.user \in Users
  BY IssuedNat DEF TypeInv, TypeOK, ServeLogin, LoginCall
<1> DEFINE t == [user |-> login.user, sess |-> issued + 1, no |-> issued + 1]
<1>2. t \in Token /\ t.user = login.user /\ t.sess = issued + 1 /\ t.no = issued + 1
  BY <1>1 DEF Token
<1>3. row' = [row EXCEPT ![issued + 1] = issued + 1] /\ issued' = issued + 1
  BY DEF ServeLogin
<1> QED
  BY <1>1, <1>2, <1>3, IssuedNat DEF TypeInv, TypeOK

(* The next place of a login that has its token. *)
LEMMA LoginGoesOn ==
  ASSUME TypeInv, OnLogin \/ LoginWriteAccess
  PROVE  /\ login' \in LoginCall /\ login' # None /\ login'.token = login.token
         /\ login.token \in Token /\ login.token # None /\ login'.user = login.user
         /\ login'.stage = IF login.stage = "answered" THEN "saveAccess" ELSE "saveRefresh"
<1>1. login # None /\ login \in LoginCall /\ login.stage \in {"answered", "saveAccess"}
      /\ login.token \in Token
  BY DEF OnLogin, LoginWriteAccess, TypeInv, TypeOK, LoginCall
<1> DEFINE stage == IF login.stage = "answered" THEN "saveAccess" ELSE "saveRefresh"
<1>2. login' = [login EXCEPT !.stage = stage, !.token = login.token]
  BY <1>1 DEF OnLogin, LoginWriteAccess, LoginCall
<1>3. stage \in {"answered", "saveAccess", "saveRefresh"}
  OBVIOUS
<1> HIDE DEF stage
<1>4. /\ login' \in LoginCall /\ login' # None /\ login'.stage = stage
      /\ login'.token = login.token /\ login'.user = login.user
  BY <1>1, <1>2, <1>3, LoginStage
<1> QED
  BY <1>1, <1>4, NoneAssumption DEF stage

LEMMA AccountType ==
  ASSUME TypeInv, Account \/ LoginFail \/ \E u \in Users : Login(u)
  PROVE  TypeInv'
<1>1. FetchOK /\ RestOK
  BY TypeParts
<1>2. CASE ServeLogin
  <2> DEFINE t == [user |-> login.user, sess |-> issued + 1, no |-> issued + 1]
  <2>1. /\ t \in Token /\ issued' \in 0..MaxIssued /\ row' \in [1..MaxIssued -> 0..MaxIssued]
    BY <1>2, NewToken
  <2>2. login # None /\ login' = [login EXCEPT !.stage = "answered", !.token = t]
    BY <1>2 DEF ServeLogin
  <2> HIDE DEF t
  <2>3. login' \in LoginCall /\ login'.token # None
    BY <2>1, <2>2, LoginStage
  <2>4. RestOK' /\ FetchOK'
    BY <1>1, <1>2, <2>1, <2>3 DEF ServeLogin, tokens, data, RestOK, FetchOK
  <2> QED
    BY <2>4, TypePartsNext
<1>3. CASE OnLogin
  <2>1. mem' \in Tokens
    BY <1>3, LoginGoesOn, PairType DEF OnLogin, SetTokens
  <2>2. RestOK' /\ FetchOK'
    BY <1>1, <1>3, <2>1, LoginGoesOn DEF OnLogin, server, data, RestOK, FetchOK
  <2> QED
    BY <2>2, TypePartsNext
<1>4. CASE LoginWriteAccess
  <2>1. disk' \in Tokens
    BY <1>1, <1>4, LoginGoesOn DEF LoginWriteAccess, SaveAccess, RestOK, Tokens
  <2>2. RestOK' /\ FetchOK'
    BY <1>1, <1>4, <2>1, LoginGoesOn DEF LoginWriteAccess, server, data, RestOK, FetchOK
  <2> QED
    BY <2>2, TypePartsNext
<1>5. CASE LoginEnd
  <2>1. login.token \in Token \cup {None}
    BY <1>1, <1>5 DEF LoginEnd, RestOK, LoginCall
  <2>2. disk' \in Tokens
    BY <1>1, <1>5, <2>1 DEF LoginEnd, SaveRefresh, RestOK, Tokens
  <2>3. FetchOK'
    BY <1>5, JoinType DEF LoginEnd
  <2>4. RestOK'
    BY <1>1, <1>5, <2>2 DEF LoginEnd, server, data, RestOK
  <2> QED
    BY <2>3, <2>4, TypePartsNext
<1>6. CASE Sync
  <2>1. FetchOK'
    <3>1. CASE UNCHANGED fetch
      BY <1>1, <3>1 DEF FetchOK
    <3> QED
      BY <1>6, <3>1, JoinType DEF Sync
  <2>2. RestOK'
    BY <1>1, <1>6 DEF Sync, server, tokens, data, RestOK
  <2> QED
    BY <2>1, <2>2, TypePartsNext
<1>7. CASE LogoutWrite
  <2>1. disk' \in Tokens
    BY <1>1, <1>7 DEF LogoutWrite, SaveAccess, SaveRefresh, RestOK, Tokens
  <2>2. RestOK' /\ FetchOK'
    BY <1>1, <1>7, <2>1 DEF LogoutWrite, server, data, RestOK, FetchOK
  <2> QED
    BY <2>2, TypePartsNext
<1>8. CASE LogoutForget
  <2>1. RestOK' /\ FetchOK'
    BY <1>1, <1>8, NoDataType DEF LogoutForget, ForgetData, server, tokens, RestOK, FetchOK, Clears
  <2> QED
    BY <2>1, TypePartsNext
<1>9. CASE LogoutEnd
  <2>1. cached' \in [Resources -> Users \cup {None}] /\ logout \in Clears
    BY <1>9, ClearType DEF LogoutEnd
  <2>2. logout' \in {"idle", "removeAccess", "removeRefresh", "forget"} \cup Clears
    BY <1>9, <2>1, ClearStages DEF LogoutEnd
  <2>3. RestOK' /\ FetchOK'
    BY <1>1, <1>9, <2>1, <2>2 DEF LogoutEnd, server, tokens, RestOK, FetchOK
  <2> QED
    BY <2>3, TypePartsNext
<1>10. CASE LoginFail
  <2>1. RestOK' /\ FetchOK'
    BY <1>1, <1>10 DEF LoginFail, server, tokens, data, RestOK, FetchOK
  <2> QED
    BY <2>1, TypePartsNext
<1>11. ASSUME NEW u \in Users, Login(u) PROVE TypeInv'
  <2>1. login' \in LoginCall /\ login'.stage = "sent"
    BY <1>11 DEF Login, LoginCall
  <2>2. RestOK' /\ FetchOK'
    BY <1>1, <1>11, <2>1 DEF Login, server, tokens, data, RestOK, FetchOK
  <2> QED
    BY <2>2, TypePartsNext
<1> QED
  BY <1>2, <1>3, <1>4, <1>5, <1>6, <1>7, <1>8, <1>9, <1>10, <1>11 DEF Account

LEMMA UserType ==
  ASSUME TypeInv, Refresh \/ OpenQr \/ Logout \/ Expire \/ Crash \/ UNCHANGED vars
  PROVE  TypeInv'
<1>1. FetchOK /\ RestOK
  BY TypeParts
<1>2. CASE Refresh \/ OpenQr
  <2>1. FetchOK'
    BY <1>2, JoinType DEF Refresh, OpenQr
  <2>2. RestOK'
    BY <1>1, <1>2 DEF Refresh, OpenQr, server, tokens, data, flows, RestOK
  <2> QED
    BY <2>1, <2>2, TypePartsNext
<1>3. CASE Logout
  <2>1. RestOK' /\ FetchOK'
    BY <1>1, <1>3, PairType DEF Logout, NoPair, server, data, RestOK, FetchOK
  <2> QED
    BY <2>1, TypePartsNext
<1>4. CASE Expire \/ UNCHANGED vars
  <2>1. RestOK' /\ FetchOK'
    BY <1>1, <1>4 DEF Expire, server, tokens, data, flows, vars, RestOK, FetchOK
  <2> QED
    BY <2>1, TypePartsNext
<1>5. CASE Crash
  <2>1. fetch' \in [Resources -> Fetch \cup {None}] /\ \A r \in Resources : fetch'[r] = None
    BY <1>5 DEF Crash, NoData
  <2>2. mem' \in Tokens
    BY <1>5, PairType DEF Crash, NoPair
  <2>3. RestOK' /\ FetchOK'
    BY <1>1, <1>5, <2>1, <2>2, NoDataType DEF Crash, server, RestOK, FetchOK, RestoreAts
  <2> QED
    BY <2>3, TypePartsNext
<1> QED
  BY <1>2, <1>3, <1>4, <1>5

LEMMA NextType == TypeInv /\ [Next]_vars => TypeInv'
<1> SUFFICES ASSUME TypeInv, [Next]_vars PROVE TypeInv'
  OBVIOUS
<1>1. ASSUME NEW r \in Resources, Request(r) \/ Save(r) \/ Lose(r) PROVE TypeInv'
  BY <1>1, RequestType, CompleteType, SaveType, TypePartsNext DEF Request, RequestStep
<1> QED
  BY <1>1, GateType, AccountType, UserType DEF Next

LEMMA InitType == Init => TypeInv
<1> SUFFICES ASSUME Init PROVE TypeInv
  OBVIOUS
<1>1. fetch \in [Resources -> Fetch \cup {None}] /\ \A r \in Resources : fetch[r] = None
  BY DEF Init, NoData
<1>2. NoPair \in Tokens
  BY PairType DEF NoPair
<1>3. RestOK /\ FetchOK
  BY <1>1, <1>2, IssuedNat, NoDataType DEF Init, RestOK, FetchOK, RestoreAts
<1> QED
  BY <1>3, TypeParts

-----------------------------------------------------------------------------
(* What the phone holds is one user's. *)

TokensOwned(u) ==
  /\ TokenOf(mem.access, u) /\ TokenOf(mem.refresh, u)
  /\ TokenOf(disk.access, u) /\ TokenOf(disk.refresh, u)
FetchOwned(u) == \A r \in Resources : fetch[r] # None => TokenOf(fetch[r].token, u)
DataOwned(u) ==
  \A r \in Resources : saving[r] \subseteq {u} /\ shown[r] \in {None, u} /\ cached[r] \in {None, u}
LoginOwned(u) == login # None => login.user = u /\ TokenOf(login.token, u)

LEMMA OwnedParts ==
  ASSUME NEW u
  PROVE  /\ OwnedBy(u) <=> TokensOwned(u) /\ FetchOwned(u) /\ DataOwned(u) /\ LoginOwned(u)
         /\ OwnedBy(u)' <=> TokensOwned(u)' /\ FetchOwned(u)' /\ DataOwned(u)' /\ LoginOwned(u)'
  BY DEF OwnedBy, TokensOwned, FetchOwned, DataOwned, LoginOwned

LEMMA NobodysTokens ==
  ASSUME NEW u
  PROVE  TokenOf(None, u) /\ TokenOf(NoPair.access, u) /\ TokenOf(NoPair.refresh, u)
  BY DEF TokenOf, NoPair, Pair

LEMMA JoinOwned ==
  ASSUME TypeInv, NEW u, OwnedBy(u), NEW S, NEW owner, Join(S, owner)
  PROVE  FetchOwned(u)'
<1>1. ASSUME NEW q \in Resources, fetch'[q] # None PROVE TokenOf(fetch'[q].token, u)
  BY <1>1, JoinType DEF OwnedBy
<1> QED
  BY <1>1 DEF FetchOwned, TokenOf

LEMMA WriteOwned ==
  ASSUME TypeInv, NEW u, OwnedBy(u), NEW t, TokenOf(t, u), SaveAccess(t) \/ SaveRefresh(t)
  PROVE  TokenOf(disk'.access, u) /\ TokenOf(disk'.refresh, u)
<1>1. disk \in Tokens
  BY DEF TypeInv, TypeOK
<1>2. disk'.access \in {t, disk.access} /\ disk'.refresh \in {t, disk.refresh}
  BY <1>1 DEF SaveAccess, SaveRefresh, Tokens
<1> QED
  BY <1>2 DEF OwnedBy

LEMMA RequestOwned ==
  ASSUME TypeInv, NEW u, OwnedBy(u), NEW r \in Resources, RequestStep(r)
  PROVE  OwnedBy(u)'
<1>1. /\ fetch[r] # None /\ TokenOf(fetch[r].token, u) /\ TokenOf(None, u)
      /\ TokensOwned(u) /\ FetchOwned(u)
  BY NobodysTokens, OwnedParts
     DEF RequestStep, ServeGet, OnDenied, FindSession, RotateSession, OnRotated,
         OnRejected, WriteAccess, WriteRefresh, Lose, At, OwnedBy
<1>2. fetch[r].token \in Token \cup {None} /\ mem \in Tokens
      /\ mem.access \in Token \cup {None} /\ mem.refresh \in Token \cup {None}
  BY <1>1 DEF TypeInv, TypeOK, Fetch, Tokens
<1>3. ASSUME NEW t, TokenOf(t, u), \A q \in Resources \ {r} : fetch'[q] = fetch[q],
             fetch'[r].token = t
      PROVE  FetchOwned(u)'
  <2>1. \A q \in Resources : fetch'[q] # None => TokenOf(fetch'[q].token, u)
    BY <1>1, <1>3 DEF FetchOwned
  <2> QED
    BY <2>1 DEF FetchOwned, TokenOf
<1>4. ASSUME NEW stage \in Stages, NEW t \in Token \cup {None}, TokenOf(t, u), Move(r, stage, t)
      PROVE  FetchOwned(u)'
  <2>1. fetch \in [Resources -> Fetch \cup {None}] /\ fetch[r] \in Fetch
    BY <1>1 DEF TypeInv, TypeOK
  <2>2. fetch'[r].token = t /\ \A q \in Resources \ {r} : fetch'[q] = fetch[q]
    BY <1>4, <2>1 DEF Move, Fetch
  <2> QED
    BY <1>3, <1>4, <2>2
<1>5. {"ok", "denied", "failed", "rejected", "refresh", "found", "rotated", "saveAccess",
       "saveRefresh", "removeAccess", "removeRefresh", "sent"} \subseteq Stages
  BY DEF Stages
<1>6. Fail(r) => FetchOwned(u)'
  BY <1>1, <1>4, <1>5 DEF Fail
<1>7. FetchOwned(u)'
  <2>1. CASE ServeGet(r)
    BY <1>1, <1>2, <1>4, <1>5, <2>1 DEF ServeGet
  <2>2. CASE OnDenied(r)
    BY <1>1, <1>2, <1>4, <1>5, <1>6, <2>2 DEF OnDenied, TokensOwned
  <2>3. CASE FindSession(r)
    BY <1>1, <1>2, <1>4, <1>5, <2>3 DEF FindSession
  <2>4. CASE RotateSession(r)
    <3> DEFINE t == [fetch[r].token EXCEPT !.no = issued + 1]
    <3>1. t \in Token /\ t.user = fetch[r].token.user /\ fetch[r].token # None
      BY <2>4, RotatedToken DEF RotateSession, At, TypeInv, Tokened
    <3>2. Move(r, "rotated", t)
      BY <2>4 DEF RotateSession
    <3>3. TokenOf(t, u)
      BY <1>1, <3>1 DEF TokenOf
    <3> HIDE DEF t
    <3> QED
      BY <1>4, <1>5, <3>1, <3>2, <3>3
  <2>5. CASE OnRotated(r) \/ OnRejected(r) \/ WriteAccess(r)
    BY <1>1, <1>2, <1>4, <1>5, <2>5 DEF OnRotated, OnRejected, WriteAccess
  <2>6. CASE WriteRefresh(r)
    <3>1. CASE fetch' = [fetch EXCEPT ![r] = [stage |-> "sent", token |-> mem.access, again |-> TRUE]]
      <4>1. fetch'[r].token = mem.access /\ \A q \in Resources \ {r} : fetch'[q] = fetch[q]
        BY <3>1 DEF TypeInv, TypeOK
      <4> QED
        BY <1>1, <1>3, <4>1 DEF TokensOwned
    <3> QED
      BY <1>1, <1>4, <1>5, <2>6, <3>1 DEF WriteRefresh
  <2>7. CASE Lose(r)
    BY <1>1, <1>2, <1>4, <1>5, <1>6, <2>7 DEF Lose, TokensOwned
  <2> QED
    BY <2>1, <2>2, <2>3, <2>4, <2>5, <2>6, <2>7 DEF RequestStep
<1>8. TokensOwned(u)'
  <2>1. CASE UNCHANGED tokens
    BY <1>1, <2>1 DEF tokens, TokensOwned, TokenOf
  <2>2. CASE OnRotated(r)
    BY <1>1, <1>2, <2>2, PairType DEF OnRotated, SetTokens, TokensOwned, TokenOf
  <2>3. CASE OnRejected(r)
    BY <1>1, <2>3, NobodysTokens DEF OnRejected, TokensOwned, TokenOf
  <2>4. CASE WriteAccess(r) \/ WriteRefresh(r)
    <3>1. TokenOf(disk'.access, u) /\ TokenOf(disk'.refresh, u) /\ mem' = mem
      BY <1>1, <2>4, WriteOwned DEF WriteAccess, WriteRefresh
    <3> QED
      BY <1>1, <3>1 DEF TokensOwned, TokenOf
  <2> QED
    BY <2>1, <2>2, <2>3, <2>4 DEF RequestStep, ServeGet, OnDenied, FindSession, RotateSession, Lose
<1>9. DataOwned(u)' /\ LoginOwned(u)'
  BY RequestType, OwnedParts DEF flows, DataOwned, LoginOwned, TokenOf
<1> QED
  BY <1>7, <1>8, <1>9, OwnedParts

LEMMA AnswerOwned ==
  ASSUME TypeInv, NEW u, OwnedBy(u), NEW r \in Resources, Complete(r) \/ Save(r)
  PROVE  OwnedBy(u)'
<1>1. TokensOwned(u) /\ FetchOwned(u) /\ DataOwned(u) /\ LoginOwned(u)
  BY OwnedParts
<1>2. TokensOwned(u)' /\ LoginOwned(u)'
  BY <1>1 DEF Complete, Save, tokens, flows, TokensOwned, LoginOwned, TokenOf
<1>3. CASE Complete(r)
  <2>1. FetchOwned(u)'
    <3>1. \A q \in Resources : fetch'[q] # None => fetch'[q] = fetch[q]
      BY <1>3, ReleaseType DEF Complete
    <3> QED
      BY <1>1, <3>1 DEF FetchOwned, TokenOf
  <2>2. At(r, "ok") => fetch[r].token # None /\ fetch[r].token.user = u
    BY <1>1 DEF At, TypeInv, Tokened, FetchOwned, TokenOf
  <2>3. DataOwned(u)'
    BY <1>1, <1>3, <2>2 DEF Complete, DataOwned, TypeInv, TypeOK
  <2> QED
    BY <1>2, <2>1, <2>3, OwnedParts
<1>4. CASE Save(r)
  <2>1. FetchOwned(u)'
    BY <1>1, <1>4 DEF Save, FetchOwned, TokenOf
  <2>2. DataOwned(u)'
    BY <1>1, <1>4 DEF Save, DataOwned, TypeInv, TypeOK
  <2> QED
    BY <1>2, <2>1, <2>2, OwnedParts
<1> QED
  BY <1>3, <1>4

LEMMA GateOwned ==
  ASSUME TypeInv, NEW u, OwnedBy(u), Gate
  PROVE  OwnedBy(u)'
<1>1. TokensOwned(u) /\ FetchOwned(u) /\ DataOwned(u) /\ LoginOwned(u)
  BY OwnedParts
<1>2. LoginOwned(u)'
  BY <1>1 DEF Gate, Boot, Restore, RestoreDashboard, RestoreEnd, RestoreFail, RestoreWrite,
              RestoreClear, LoginOwned, TokenOf
<1>3. FetchOwned(u)'
  <2>1. UNCHANGED fetch => FetchOwned(u)'
    BY <1>1 DEF FetchOwned, TokenOf
  <2>2. ASSUME NEW s, Show(s) PROVE FetchOwned(u)'
    BY <2>1, <2>2, JoinOwned DEF Show
  <2>3. CASE Boot \/ RestoreWrite
    BY <2>1, <2>3 DEF Boot, RestoreWrite
  <2>4. CASE Restore
    BY <2>1, <2>4, JoinOwned DEF Restore
  <2>5. CASE RestoreDashboard \/ RestoreEnd \/ RestoreFail \/ RestoreClear
    BY <2>1, <2>2, <2>5, JoinOwned DEF RestoreDashboard, RestoreEnd, RestoreFail, RestoreClear
  <2> QED
    BY <2>3, <2>4, <2>5 DEF Gate
<1>4. TokensOwned(u)'
  <2>1. CASE UNCHANGED tokens
    BY <1>1, <2>1 DEF tokens, TokensOwned, TokenOf
  <2>2. CASE Boot
    BY <1>1, <2>2 DEF Boot, TokensOwned, TokenOf
  <2>3. CASE RestoreFail
    BY <1>1, <2>3, NobodysTokens DEF RestoreFail, TokensOwned, TokenOf
  <2>4. CASE RestoreWrite
    <3>1. TokenOf(disk'.access, u) /\ TokenOf(disk'.refresh, u) /\ mem' = mem
      BY <2>4, WriteOwned, NobodysTokens DEF RestoreWrite
    <3> QED
      BY <1>1, <3>1 DEF TokensOwned, TokenOf
  <2> QED
    BY <2>1, <2>2, <2>3, <2>4 DEF Gate, Restore, RestoreDashboard, RestoreEnd, RestoreClear
<1>5. DataOwned(u)'
  <2>1. CASE UNCHANGED data
    BY <1>1, <2>1 DEF data, DataOwned
  <2>2. CASE Restore
    BY <1>1, <2>2 DEF Restore, DataOwned
  <2>3. CASE RestoreClear
    BY <1>1, <2>3, ClearType DEF RestoreClear, DataOwned
  <2> QED
    BY <2>1, <2>2, <2>3 DEF Gate, Boot, RestoreDashboard, RestoreEnd, RestoreFail, RestoreWrite, data
<1> QED
  BY <1>2, <1>3, <1>4, <1>5, OwnedParts

LEMMA AccountOwned ==
  ASSUME TypeInv, NEW u, OwnedBy(u),
         Account \/ LoginFail \/ Refresh \/ OpenQr \/ Logout \/ Expire \/ Crash \/ UNCHANGED vars
  PROVE  OwnedBy(u)'
<1>1. TokensOwned(u) /\ FetchOwned(u) /\ DataOwned(u) /\ LoginOwned(u)
  BY OwnedParts
<1>2. FetchOwned(u)'
  <2>1. UNCHANGED fetch => FetchOwned(u)'
    BY <1>1 DEF FetchOwned, TokenOf
  <2>2. CASE LoginEnd \/ Sync \/ Refresh \/ OpenQr
    BY <2>1, <2>2, JoinOwned DEF LoginEnd, Sync, Refresh, OpenQr
  <2>3. CASE Crash
    BY <2>3 DEF Crash, FetchOwned, NoData
  <2> QED
    BY <2>1, <2>2, <2>3 DEF Account, ServeLogin, OnLogin, LoginWriteAccess, LogoutWrite,
       LogoutForget, LogoutEnd, LoginFail, Logout, Expire, vars
<1>3. LoginOwned(u)'
  <2>1. CASE login' = login \/ login' = None
    BY <1>1, <2>1 DEF LoginOwned, TokenOf
  <2>2. CASE ServeLogin
    <3> DEFINE t == [user |-> login.user, sess |-> issued + 1, no |-> issued + 1]
    <3>1. t \in Token /\ t.user = login.user
      BY <2>2, NewToken
    <3>2. login # None /\ login' = [login EXCEPT !.stage = "answered", !.token = t]
      BY <2>2 DEF ServeLogin
    <3> HIDE DEF t
    <3>3. login'.token = t /\ login'.user = login.user
      BY <3>1, <3>2, LoginStage
    <3> QED
      BY <1>1, <3>1, <3>2, <3>3 DEF LoginOwned, TokenOf
  <2>3. CASE OnLogin \/ LoginWriteAccess
    BY <1>1, <2>3, LoginGoesOn DEF OnLogin, LoginWriteAccess, LoginOwned, TokenOf
  <2> QED
    BY <2>1, <2>2, <2>3 DEF Account, LoginEnd, Sync, LogoutWrite, LogoutForget, LogoutEnd,
       LoginFail, Refresh, OpenQr, Logout, Expire, Crash, flows, vars
<1>4. TokensOwned(u)'
  <2>1. CASE UNCHANGED tokens
    BY <1>1, <2>1 DEF tokens, TokensOwned, TokenOf
  <2>2. CASE OnLogin
    BY <1>1, <2>2, LoginGoesOn, PairType DEF OnLogin, SetTokens, LoginOwned, TokensOwned, TokenOf
  <2>3. CASE LoginWriteAccess \/ LoginEnd
    <3>1. TokenOf(login.token, u)
      BY <1>1, <2>3 DEF LoginWriteAccess, LoginEnd, LoginOwned
    <3>2. TokenOf(disk'.access, u) /\ TokenOf(disk'.refresh, u) /\ mem' = mem
      BY <2>3, <3>1, WriteOwned DEF LoginWriteAccess, LoginEnd
    <3> QED
      BY <1>1, <3>2 DEF TokensOwned, TokenOf
  <2>4. CASE LogoutWrite
    <3>1. TokenOf(disk'.access, u) /\ TokenOf(disk'.refresh, u) /\ mem' = mem
      BY <2>4, WriteOwned, NobodysTokens DEF LogoutWrite
    <3> QED
      BY <1>1, <3>1 DEF TokensOwned, TokenOf
  <2>5. CASE Logout \/ Crash
    BY <1>1, <2>5, NobodysTokens DEF Logout, Crash, TokensOwned, TokenOf
  <2> QED
    BY <2>1, <2>2, <2>3, <2>4, <2>5 DEF Account, ServeLogin, Sync, LogoutForget, LogoutEnd,
       LoginFail, Refresh, OpenQr, Expire, vars
<1>5. DataOwned(u)'
  <2>1. CASE UNCHANGED <<saving, shown, cached>>
    BY <1>1, <2>1 DEF DataOwned
  <2>2. CASE LogoutForget \/ Crash
    BY <1>1, <2>2, NoDataType DEF LogoutForget, ForgetData, Crash, DataOwned
  <2>3. CASE LogoutEnd
    BY <1>1, <2>3, ClearType DEF LogoutEnd, DataOwned
  <2> QED
    BY <2>1, <2>2, <2>3 DEF Account, ServeLogin, OnLogin, LoginWriteAccess, LoginEnd, Sync, LogoutWrite,
       LoginFail, Refresh, OpenQr, Logout, Expire, data, vars
<1> QED
  BY <1>2, <1>3, <1>4, <1>5, OwnedParts

(* A login finds nothing of anybody's. *)
LEMMA LoginOwner ==
  ASSUME TypeInv, PhoneInv, NEW v \in Users, Login(v)
  PROVE  OwnedBy(v)'
<1>1. Quiet /\ shown = NoData /\ cached = NoData /\ mem = NoPair /\ disk = NoPair
  BY DEF Login, PhoneInv, Awake, AsleepInv, LoginInv
<1>2. UNCHANGED <<tokens, fetch, data>> /\ login' = [stage |-> "sent", user |-> v, token |-> None]
  BY DEF Login
<1> QED
  BY <1>1, <1>2, NobodysTokens, NoDataType DEF OwnedBy, TokenOf, Quiet, tokens, data

LEMMA CalmBefore == [Next]_vars /\ calm' => calm
  BY DEF Next, Request, Gate, Account, ServeGet, OnDenied, FindSession, RotateSession, OnRotated,
     OnRejected, WriteAccess, WriteRefresh, Lose, Complete, Save, Boot, Restore, RestoreDashboard,
     RestoreEnd, RestoreFail, RestoreWrite, RestoreClear, RestoreTimeout, ServeLogin, OnLogin,
     LoginWriteAccess, LoginEnd, Sync, LogoutWrite, LogoutForget, LogoutEnd, Login, LoginFail,
     Refresh, OpenQr, Logout, Expire, Crash, Trouble, vars

LEMMA NextOwned ==
  ASSUME TypeInv, CalmInv, [Next]_vars, calm'
  PROVE  \E u \in Users \cup {None} : OwnedBy(u)'
<1>1. PhoneInv /\ \E u \in Users \cup {None} : OwnedBy(u)
  BY CalmBefore DEF CalmInv
<1>2. PICK u \in Users \cup {None} : OwnedBy(u)
  BY <1>1
<1>3. ASSUME NEW r \in Resources, Request(r) \/ Save(r) \/ Lose(r) PROVE OwnedBy(u)'
  BY <1>2, <1>3, RequestOwned, AnswerOwned DEF Request, RequestStep
<1>4. CASE Gate \/ Account \/ LoginFail \/ Refresh \/ OpenQr \/ Logout \/ Expire \/ Crash
           \/ UNCHANGED vars
  BY <1>2, <1>4, GateOwned, AccountOwned
<1>5. ASSUME NEW v \in Users, Login(v) PROVE OwnedBy(v)'
  BY <1>1, <1>5, LoginOwner
<1>6. ~RestoreTimeout
  BY DEF RestoreTimeout, Trouble
<1> QED
  BY <1>2, <1>3, <1>4, <1>5, <1>6 DEF Next

-----------------------------------------------------------------------------
(* While the app is in use. *)

(* Whoever is busy is awake. *)
LEMMA BusyIsAwake ==
  ASSUME PhoneInv, ~Quiet
  PROVE  Awake /\ AwakeInv
  BY DEF PhoneInv, AsleepInv

LEMMA AwakeStep ==
  ASSUME Awake, AwakeInv', screen' \in {"restoring", "shell"}, UNCHANGED <<login, logout>>
  PROVE  PhoneInv'
  BY DEF Awake, PhoneInv

(* A request that only moves, and no rotation begins beside another. *)
LEMMA MoveStep ==
  ASSUME AwakeInv, NEW r \in Resources, \A q \in Resources \ {r} : fetch'[q] = fetch[q],
         UNCHANGED <<mem, disk, row, saving, shown, cached, restore>>,
         FetchInv(r)', Rot(r) => Rot(r)', Rot(r)' => Rot(r) \/ \A q \in Resources : ~Rot(q),
         Deep(r) => Deep(r)'
  PROVE  AwakeInv'
<1>1. \A q \in Resources \ {r} : (Rot(q)' <=> Rot(q)) /\ (Deep(q)' <=> Deep(q))
  BY DEF Rot, Deep
<1>2. \A q \in Resources : FetchInv(q)'
  <2>1. ASSUME NEW q \in Resources \ {r} PROVE FetchInv(q)'
    BY <1>1 DEF AwakeInv, FetchInv, Valid
  <2> QED
    BY <2>1
<1>3. \A q \in Resources : CacheInv(q)'
  BY DEF AwakeInv, CacheInv
<1>4. (\A q \in Resources : ~Rot(q)') => mem' = disk'
  BY <1>1 DEF AwakeInv
<1>5. (\A q \in Resources : ~Deep(q)') /\ disk'.refresh # None => Valid(disk.refresh)'
  BY <1>1 DEF AwakeInv, Valid
<1>6. \A p, q \in Resources : Rot(p)' /\ Rot(q)' => p = q
  BY <1>1 DEF AwakeInv
<1> QED
  BY <1>2, <1>3, <1>4, <1>5, <1>6 DEF AwakeInv

(* The steps of a request up to the answer of the server. *)
LEMMA AskAwake ==
  ASSUME TypeInv, AwakeInv, calm', NEW r \in Resources,
         ServeGet(r) \/ OnDenied(r) \/ FindSession(r) \/ Lose(r)
  PROVE  AwakeInv'
<1>1. /\ fetch[r] # None /\ fetch[r] \in Fetch /\ FetchInv(r)
      /\ UNCHANGED <<mem, disk, row, saving, shown, cached, restore>>
      /\ mem.refresh \in Token \cup {None} /\ mem.access \in Token \cup {None}
  BY DEF ServeGet, OnDenied, FindSession, Lose, At, server, tokens, data, flows, AwakeInv,
         TypeInv, TypeOK, Tokens
<1>2. fetch[r].token \in Token \cup {None}
  BY <1>1 DEF Fetch
<1>3. {"ok", "denied", "failed", "rejected", "refresh", "found", "sent"} \subseteq Stages
      /\ {"ok", "denied", "failed", "sent"} = PlainStages
      /\ {"ok", "denied", "failed", "sent", "rejected"} \cap {"rotated", "saveAccess", "saveRefresh"} = {}
  BY DEF Stages, PlainStages
<1>4. ASSUME NEW stage \in {"ok", "denied", "failed", "sent"}, NEW t \in Token \cup {None},
             stage \in Tokened => t # None, Move(r, stage, t), fetch[r].stage \in PlainStages
      PROVE  AwakeInv'
  <2>1. /\ \A q \in Resources \ {r} : fetch'[q] = fetch[q]
        /\ fetch'[r] # None /\ fetch'[r].stage = stage /\ fetch'[r].again = fetch[r].again
    BY <1>1, <1>3, <1>4, MoveType
  <2>2. FetchInv(r)'
    BY <1>1, <2>1 DEF FetchInv, Deep
  <2>3. ~Rot(r)' /\ ~Rot(r) /\ ~Deep(r)
    BY <1>3, <1>4, <2>1 DEF Rot, Deep
  <2> QED
    BY <1>1, <2>1, <2>2, <2>3, MoveStep
<1>5. CASE ServeGet(r)
  <2>1. At(r, "sent") /\ \E stage \in {"ok", "denied"} :
          Move(r, stage, fetch[r].token) /\ (stage = "ok" => fetch[r].token # None)
    BY <1>5 DEF ServeGet
  <2> QED
    BY <1>2, <1>3, <1>4, <2>1 DEF At, Tokened
<1>6. CASE OnDenied(r)
  <2>1. \A q \in Resources \ {r} : fetch[q] = None
    BY <1>6 DEF OnDenied, Trouble
  <2>2. fetch[r].stage = "denied" /\ \A q \in Resources : ~Rot(q) /\ ~Deep(q)
    BY <1>1, <1>3, <1>6, <2>1 DEF OnDenied, At, Rot, Deep
  <2>3. mem = disk
    BY <2>2 DEF AwakeInv
  <2>4. CASE mem.refresh = None
    <3>1. ~fetch[r].again
      BY <1>1, <2>4 DEF FetchInv
    <3>2. Move(r, "failed", None)
      BY <1>6, <2>4, <3>1 DEF OnDenied, Fail
    <3> QED
      BY <1>3, <1>4, <2>2, <3>2 DEF Tokened
  <2>5. CASE mem.refresh # None
    <3>1. /\ \A q \in Resources \ {r} : fetch'[q] = fetch[q]
          /\ fetch'[r] # None /\ fetch'[r].stage = "refresh" /\ fetch'[r].token = mem.refresh
      BY <1>1, <1>3, <1>6, <2>5, MoveType DEF OnDenied
    <3>2. FetchInv(r)'
      BY <1>1, <2>3, <2>5, <3>1 DEF FetchInv, Deep
    <3> QED
      BY <1>1, <2>2, <3>1, <3>2, MoveStep
  <2> QED
    BY <2>4, <2>5
<1>7. CASE FindSession(r)
  <2>1. fetch[r].stage = "refresh" /\ fetch[r].token = mem.refresh /\ mem = disk
        /\ fetch[r].token # None
    BY <1>1, <1>7 DEF FindSession, At, FetchInv, TypeInv, Tokened
  <2>2. \A q \in Resources : ~Deep(q)
    <3>1. Rot(r) /\ ~Deep(r)
      BY <1>1, <2>1 DEF Rot, Deep, PlainStages
    <3>2. \A q \in Resources : Deep(q) => Rot(q)
      BY DEF Deep, Rot, PlainStages
    <3> QED
      BY <3>1, <3>2 DEF AwakeInv
  <2>3. Valid(fetch[r].token)
    BY <2>1, <2>2 DEF AwakeInv
  <2>4. Move(r, "found", fetch[r].token)
    BY <1>7, <2>3 DEF FindSession, Valid
  <2>5. /\ \A q \in Resources \ {r} : fetch'[q] = fetch[q]
        /\ fetch'[r] # None /\ fetch'[r].stage = "found" /\ fetch'[r].token = fetch[r].token
        /\ fetch'[r].again = fetch[r].again
    BY <1>1, <1>2, <1>3, <2>1, <2>4, MoveType
  <2>6. FetchInv(r)'
    BY <1>1, <2>1, <2>5 DEF FetchInv, Deep
  <2>7. Rot(r) /\ Rot(r)'
    BY <1>1, <2>1, <2>5 DEF Rot, PlainStages
  <2> QED
    BY <1>1, <2>2, <2>5, <2>6, <2>7, MoveStep
<1>8. CASE Lose(r)
  <2>1. fetch[r].stage = "sent" /\ ~fetch[r].again
    BY <1>8 DEF Lose, Trouble, At
  <2>2. Move(r, "failed", None) \/ Move(r, "sent", mem.access)
    BY <1>8, <2>1 DEF Lose, Fail, At
  <2> QED
    BY <1>1, <1>3, <1>4, <2>1, <2>2 DEF Tokened
<1> QED
  BY <1>5, <1>6, <1>7, <1>8

(* The steps of a rotation that is the only one. *)
LEMMA OnlyRotation ==
  ASSUME AwakeInv, NEW r \in Resources, Rot(r)
  PROVE  \A q \in Resources \ {r} : ~Rot(q) /\ ~Deep(q)
<1>1. \A q \in Resources : Deep(q) => Rot(q)
  BY DEF Deep, Rot, PlainStages
<1> QED
  BY <1>1 DEF AwakeInv

(* What others in flight need of a step of the rotation. *)
LEMMA BesideRotation ==
  ASSUME AwakeInv, NEW r \in Resources, Rot(r), mem'.refresh # None,
         \A q \in Resources \ {r} : fetch'[q] = fetch[q]
  PROVE  \A q \in Resources \ {r} : FetchInv(q)' /\ ~Rot(q)' /\ ~Deep(q)'
<1>1. ASSUME NEW q \in Resources \ {r} PROVE FetchInv(q)' /\ ~Rot(q)' /\ ~Deep(q)'
  <2>1. ~Rot(q) /\ ~Deep(q) /\ FetchInv(q) /\ fetch'[q] = fetch[q]
    BY OnlyRotation DEF AwakeInv
  <2>2. ~Rot(q)' /\ ~Deep(q)'
    BY <2>1 DEF Rot, Deep
  <2>3. fetch'[q] # None => fetch'[q].stage \in PlainStages
    BY <2>1 DEF Rot
  <2> QED
    BY <2>2, <2>3 DEF FetchInv, PlainStages
<1> QED
  BY <1>1

LEMMA RotateAwake ==
  ASSUME TypeInv, AwakeInv, NEW r \in Resources,
         RotateSession(r) \/ OnRotated(r) \/ OnRejected(r) \/ WriteAccess(r) \/ WriteRefresh(r)
  PROVE  AwakeInv'
<1>1. /\ fetch[r] # None /\ fetch[r] \in Fetch /\ FetchInv(r)
      /\ UNCHANGED <<saving, shown, cached, restore>>
      /\ fetch[r].stage \in {"found", "rotated", "saveAccess", "saveRefresh"}
      /\ Rot(r) /\ fetch[r].token \in Token /\ fetch[r].token # None
  <2>1. fetch[r] # None /\ fetch[r] \in Fetch /\ FetchInv(r) /\ UNCHANGED <<saving, shown, cached, restore>>
    BY DEF RotateSession, OnRotated, OnRejected, WriteAccess, WriteRefresh, At, data, flows,
           AwakeInv, TypeInv, TypeOK
  <2>2. fetch[r].stage \in {"found", "rotated", "saveAccess", "saveRefresh"}
    BY <2>1 DEF RotateSession, OnRotated, OnRejected, WriteAccess, WriteRefresh, At, FetchInv
  <2>3. fetch[r].token # None /\ Rot(r)
    BY <2>1, <2>2 DEF TypeInv, Tokened, Rot, PlainStages
  <2> QED
    BY <2>1, <2>2, <2>3 DEF Fetch
<1>2. /\ mem \in Tokens /\ disk \in Tokens /\ mem.access # None /\ disk.access # None
      /\ {"rotated", "saveAccess", "saveRefresh"} \subseteq Stages
  BY DEF TypeInv, TypeOK, AwakeInv, Stages
<1>3. ASSUME \A q \in Resources \ {r} : fetch'[q] = fetch[q], mem'.refresh # None,
             mem'.access # None, disk'.access # None, FetchInv(r)',
             \/ Deep(r)'
             \/ ~Rot(r)' /\ ~Deep(r)' /\ mem' = disk' /\ Valid(disk.refresh)'
      PROVE  AwakeInv'
  <2>1. \A q \in Resources \ {r} : FetchInv(q)' /\ ~Rot(q)' /\ ~Deep(q)'
    BY <1>1, <1>3, BesideRotation
  <2>2. Deep(r)' => Rot(r)'
    BY DEF Deep, Rot, PlainStages
  <2>3. \A q \in Resources : CacheInv(q)'
    BY <1>1 DEF AwakeInv, CacheInv
  <2>4. (\A q \in Resources : ~Rot(q)') => mem' = disk'
    BY <1>3, <2>2
  <2>5. (\A q \in Resources : ~Deep(q)') => Valid(disk.refresh)'
    BY <1>3
  <2>6. \A p, q \in Resources : Rot(p)' /\ Rot(q)' => p = q
    BY <2>1
  <2>7. \A q \in Resources : FetchInv(q)' /\ CacheInv(q)'
    BY <1>3, <2>1, <2>3
  <2> QED
    BY <1>1, <1>3, <2>4, <2>5, <2>6, <2>7 DEF AwakeInv
<1>4. CASE RotateSession(r)
  <2> DEFINE t == [fetch[r].token EXCEPT !.no = issued + 1]
  <2>1. t \in Token /\ t # None /\ t.no = issued + 1 /\ t.sess \in 1..MaxIssued
    BY <1>4, RotatedToken
  <2>2. Move(r, "rotated", t) /\ row' = [row EXCEPT ![t.sess] = t.no] /\ UNCHANGED <<mem, disk>>
        /\ fetch[r].stage = "found"
    BY <1>4 DEF RotateSession, tokens, At
  <2> HIDE DEF t
  <2>3. /\ \A q \in Resources \ {r} : fetch'[q] = fetch[q]
        /\ fetch'[r] # None /\ fetch'[r].stage = "rotated" /\ fetch'[r].token = t
        /\ fetch'[r].again = fetch[r].again
    BY <1>1, <1>2, <2>1, <2>2, MoveType
  <2>4. row'[t.sess] = t.no
    BY <2>1, <2>2 DEF TypeInv, TypeOK
  <2>5. mem.refresh = fetch[r].token
    BY <1>1, <2>2 DEF FetchInv
  <2>6. FetchInv(r)' /\ Deep(r)'
    BY <1>1, <2>2, <2>3, <2>4, <2>5 DEF FetchInv, Deep, Valid
  <2> QED
    BY <1>1, <1>2, <1>3, <2>2, <2>3, <2>5, <2>6
<1>5. CASE OnRotated(r)
  <2>1. /\ mem' = Pair(fetch[r].token) /\ UNCHANGED <<disk, row>> /\ fetch[r].stage = "rotated"
        /\ Move(r, "saveAccess", fetch[r].token)
    BY <1>5 DEF OnRotated, SetTokens, At, server
  <2>2. /\ \A q \in Resources \ {r} : fetch'[q] = fetch[q]
        /\ fetch'[r] # None /\ fetch'[r].stage = "saveAccess" /\ fetch'[r].token = fetch[r].token
    BY <1>1, <1>2, <2>1, MoveType
  <2>3. mem'.access # None /\ mem'.refresh # None
    BY <1>1, <2>1, PairType
  <2>4. Valid(fetch[r].token)
    BY <1>1, <2>1 DEF FetchInv, Deep
  <2>5. FetchInv(r)' /\ Deep(r)'
    BY <2>1, <2>2, <2>3, <2>4 DEF FetchInv, Deep, Valid
  <2> QED
    BY <1>2, <1>3, <2>1, <2>2, <2>3, <2>5
<1>6. CASE WriteAccess(r)
  <2>1. /\ disk' = [disk EXCEPT !.access = fetch[r].token] /\ UNCHANGED <<mem, row>>
        /\ fetch[r].stage = "saveAccess" /\ Move(r, "saveRefresh", fetch[r].token)
    BY <1>1, <1>6 DEF WriteAccess, SaveAccess, At, server
  <2>2. /\ \A q \in Resources \ {r} : fetch'[q] = fetch[q]
        /\ fetch'[r] # None /\ fetch'[r].stage = "saveRefresh" /\ fetch'[r].token = fetch[r].token
    BY <1>1, <1>2, <2>1, MoveType
  <2>3. mem = Pair(fetch[r].token) /\ Valid(fetch[r].token)
    BY <1>1, <2>1 DEF FetchInv, Deep
  <2>4. mem'.access # None /\ mem'.refresh # None /\ disk'.access = fetch[r].token
    BY <1>1, <1>2, <2>1, <2>3, PairType DEF Tokens
  <2>5. FetchInv(r)' /\ Deep(r)'
    BY <2>1, <2>2, <2>3, <2>4 DEF FetchInv, Deep, Valid
  <2> QED
    BY <1>1, <1>3, <2>2, <2>4, <2>5
<1>7. CASE WriteRefresh(r)
  <2> DEFINE x == [stage |-> "sent", token |-> mem.access, again |-> TRUE]
  <2>1. /\ disk' = [disk EXCEPT !.refresh = fetch[r].token] /\ UNCHANGED <<mem, row>>
        /\ fetch[r].stage = "saveRefresh" /\ fetch' = [fetch EXCEPT ![r] = x]
    BY <1>1, <1>7 DEF WriteRefresh, SaveRefresh, At, server
  <2>2. x \in Fetch /\ x.stage = "sent"
    BY <1>2 DEF Fetch, Tokens
  <2>3. x # None
    BY <2>2, NoneAssumption
  <2> HIDE DEF x
  <2>4. \A q \in Resources \ {r} : fetch'[q] = fetch[q]
    BY <2>1 DEF TypeInv, TypeOK
  <2>5. fetch'[r] = x
    BY <2>1 DEF TypeInv, TypeOK
  <2>6. mem = Pair(fetch[r].token) /\ Valid(fetch[r].token) /\ disk.access = fetch[r].token
    BY <1>1, <2>1 DEF FetchInv, Deep
  <2>7. disk' = Pair(fetch[r].token)
    BY <1>2, <2>1, <2>6 DEF Pair, Tokens
  <2>8. /\ mem'.access # None /\ mem'.refresh # None /\ mem' = disk' /\ disk'.access # None
        /\ disk'.refresh = fetch[r].token
    BY <1>1, <2>1, <2>6, <2>7, PairType
  <2>9. ~Rot(r)' /\ ~Deep(r)'
    BY <2>2, <2>5 DEF Rot, Deep, PlainStages
  <2>10. FetchInv(r)'
    BY <2>2, <2>5, <2>8, <2>9 DEF FetchInv
  <2>11. Valid(disk.refresh)'
    BY <2>1, <2>6, <2>8 DEF Valid
  <2> QED
    BY <1>3, <2>4, <2>8, <2>9, <2>10, <2>11
<1>8. ~OnRejected(r)
  BY <1>1 DEF OnRejected, At
<1> QED
  BY <1>4, <1>5, <1>6, <1>7, <1>8

(* Answers, and what they leave in memory and on disk. *)
LEMMA CompleteAwake ==
  ASSUME TypeInv, AwakeInv, NEW r \in Resources, Complete(r)
  PROVE  AwakeInv'
<1> DEFINE ok == At(r, "ok")
<1>1. /\ shown' = IF ok THEN [shown EXCEPT ![r] = fetch[r].token.user] ELSE shown
      /\ saving' = IF ok THEN [saving EXCEPT ![r] = @ \cup {fetch[r].token.user}] ELSE saving
      /\ restore' = [restore EXCEPT !.at = Continue(@, r, ok)]
      /\ UNCHANGED <<mem, disk, row, cached>>
      /\ fetch'[r] = None /\ \A q \in Resources \ {r} : fetch'[q] = fetch[q]
  BY ReleaseType DEF Complete, tokens, server
<1>2. /\ ok => fetch[r].token.user \in Users /\ fetch[r].token.user # None
      /\ ok \in BOOLEAN
      /\ ~Rot(r) /\ ~Deep(r)
  <2>1. ok => fetch[r].token \in Token
    BY DEF At, TypeInv, TypeOK, Tokened, Fetch
  <2>2. ok => fetch[r].token.user \in Users
    BY <2>1 DEF Token
  <2> QED
    BY <2>2, NoneAssumption DEF Complete, At, Rot, Deep, PlainStages
<1> HIDE DEF ok
<1>3. \A q \in Resources : CacheInv(q)'
  <2>1. ASSUME NEW q \in Resources PROVE CacheInv(q)'
    <3>1. CASE ok /\ q = r
      <4>1. saving'[q] # {} /\ shown'[q] # None
        BY <1>1, <1>2, <3>1 DEF TypeInv, TypeOK
      <4> QED
        BY <4>1 DEF CacheInv
    <3>2. CASE ~(ok /\ q = r)
      <4>1. saving'[q] = saving[q] /\ shown'[q] = shown[q]
        BY <1>1, <3>2 DEF TypeInv, TypeOK
      <4> QED
        BY <1>1, <4>1 DEF AwakeInv, CacheInv
    <3> QED
      BY <3>1, <3>2
  <2> QED
    BY <2>1
<1>4. shown["profile"] # None => shown'["profile"] # None
  BY <1>1, <1>2, ResourcesAssumption DEF TypeInv, TypeOK
<1>5. /\ restore'.at \in {"idle", "profile", "loaded", "failed", "dashboard"}
      /\ restore'.at \in {"loaded", "dashboard"} => shown'["profile"] # None
  <2>1. restore.at \in {"idle", "profile", "loaded", "failed", "dashboard"}
    BY DEF AwakeInv
  <2>2. restore'.at = Continue(restore.at, r, ok)
    BY <1>1 DEF TypeInv, TypeOK
  <2>3. ok /\ r = "profile" => shown'["profile"] # None
    BY <1>1, <1>2 DEF TypeInv, TypeOK
  <2>4. /\ restore'.at \in {restore.at, "failed", "loaded", "done"} /\ restore'.at # "done"
        /\ restore'.at = "loaded" => restore.at = "loaded" \/ (ok /\ r = "profile")
    BY <1>2, <2>1, <2>2, ContinueType DEF RestoreAts, Clears
  <2> QED
    BY <1>4, <2>1, <2>3, <2>4 DEF AwakeInv
<1>6. \A q \in Resources : (Rot(q)' <=> Rot(q)) /\ (Deep(q)' <=> Deep(q)) /\ FetchInv(q)'
  <2>1. ASSUME NEW q \in Resources PROVE (Rot(q)' <=> Rot(q)) /\ (Deep(q)' <=> Deep(q)) /\ FetchInv(q)'
    <3>1. CASE q = r
      BY <1>1, <1>2, <3>1 DEF Rot, Deep, FetchInv
    <3>2. CASE q # r
      <4>1. fetch'[q] = fetch[q] /\ FetchInv(q)
        BY <1>1, <3>2 DEF AwakeInv
      <4> QED
        BY <1>1, <4>1 DEF Rot, Deep, FetchInv, Valid
    <3> QED
      BY <3>1, <3>2
  <2> QED
    BY <2>1
<1>7. (\A q \in Resources : ~Deep(q)') /\ disk'.refresh # None => Valid(disk.refresh)'
  BY <1>1, <1>6 DEF AwakeInv, Valid
<1>8. /\ (\A q \in Resources : ~Rot(q)') => mem' = disk'
      /\ \A p, q \in Resources : Rot(p)' /\ Rot(q)' => p = q
      /\ mem'.access # None /\ disk'.access # None
  BY <1>1, <1>6 DEF AwakeInv
<1> QED
  BY <1>3, <1>5, <1>6, <1>7, <1>8 DEF AwakeInv

LEMMA SaveAwake ==
  ASSUME TypeInv, AwakeInv, NEW u, OwnedBy(u), NEW r \in Resources, Save(r)
  PROVE  AwakeInv'
<1>1. PICK v \in saving[r] : /\ cached' = [cached EXCEPT ![r] =
                                IF r = "history" THEN shown[r] ELSE v]
                             /\ saving' = [saving EXCEPT ![r] = @ \ {v}]
  BY DEF Save
<1>2. v = u /\ shown[r] = u /\ saving[r] = {u}
  BY <1>1 DEF OwnedBy, AwakeInv, CacheInv
<1>3. saving'[r] = {} /\ cached'[r] = shown[r]
      /\ \A q \in Resources \ {r} : saving'[q] = saving[q] /\ cached'[q] = cached[q]
  BY <1>1, <1>2 DEF TypeInv, TypeOK
<1>4. UNCHANGED <<mem, disk, row, fetch, shown, restore>>
  BY DEF Save, tokens, server, flows
<1>5. \A q \in Resources : CacheInv(q)'
  BY <1>3, <1>4 DEF AwakeInv, CacheInv
<1>6. \A q \in Resources : FetchInv(q)' /\ (Rot(q)' <=> Rot(q)) /\ (Deep(q)' <=> Deep(q))
  BY <1>4 DEF AwakeInv, FetchInv, Rot, Deep, Valid
<1>7. (\A q \in Resources : ~Deep(q)') /\ disk'.refresh # None => Valid(disk.refresh)'
  BY <1>4, <1>6 DEF AwakeInv, Valid
<1> QED
  BY <1>4, <1>5, <1>6, <1>7 DEF AwakeInv

(* New requests are plain ones. *)
LEMMA JoinAwake ==
  ASSUME TypeInv, AwakeInv, \/ UNCHANGED fetch
                            \/ \E S, owner : Join(S, owner),
         UNCHANGED <<mem, disk, row, saving, shown, cached>>,
         restore'.at \in {"idle", "profile", "loaded", "failed", "dashboard"},
         restore'.at \in {"loaded", "dashboard"} => shown["profile"] # None
  PROVE  AwakeInv'
<1>1. \A q \in Resources : FetchInv(q)' /\ (Rot(q)' <=> Rot(q)) /\ (Deep(q)' <=> Deep(q))
  <2>1. ASSUME NEW q \in Resources
        PROVE  FetchInv(q)' /\ (Rot(q)' <=> Rot(q)) /\ (Deep(q)' <=> Deep(q))
    <3>1. CASE fetch'[q] = fetch[q]
      BY <3>1 DEF AwakeInv, FetchInv, Rot, Deep, Valid
    <3>2. CASE /\ fetch[q] = None /\ fetch'[q] # None
               /\ fetch'[q].stage = "sent" /\ fetch'[q].again = FALSE
      BY <3>2 DEF FetchInv, Rot, Deep, PlainStages
    <3>3. CASE UNCHANGED fetch
      BY <3>1, <3>3
    <3>4. CASE \E S, owner : Join(S, owner)
      BY <3>1, <3>2, <3>4, JoinType
    <3> QED
      BY <3>3, <3>4
  <2> QED
    BY <2>1
<1>2. \A q \in Resources : CacheInv(q)'
  BY DEF AwakeInv, CacheInv
<1>3. (\A q \in Resources : ~Deep(q)') /\ disk'.refresh # None => Valid(disk.refresh)'
  BY <1>1 DEF AwakeInv, Valid
<1> QED
  BY <1>1, <1>2, <1>3 DEF AwakeInv

LEMMA ShowAwake ==
  ASSUME Awake, Show("shell")
  PROVE  /\ UNCHANGED fetch \/ \E S, owner : Join(S, owner)
         /\ screen' \in {"restoring", "shell"}
  BY DEF Show, Awake

(* The restore, from its profile on. *)
LEMMA RestoreAwake ==
  ASSUME TypeInv, PhoneInv, calm',
         RestoreDashboard \/ RestoreEnd \/ RestoreFail \/ RestoreWrite \/ RestoreClear
  PROVE  PhoneInv'
<1>1. Awake /\ AwakeInv
  BY BusyIsAwake, ClearStages DEF Quiet, RestoreDashboard, RestoreEnd, RestoreFail, RestoreWrite,
     RestoreClear, Clear, Clears
<1>2. CASE RestoreDashboard
  <2>1. /\ UNCHANGED <<mem, disk, row, saving, shown, cached, screen, login, logout>>
        /\ Join(Dashboard, shown["profile"]) /\ restore'.at = "dashboard"
        /\ restore.at = "loaded"
    BY <1>2 DEF RestoreDashboard, tokens, server, data, TypeInv, TypeOK
  <2>2. AwakeInv'
    BY <1>1, <2>1, JoinAwake DEF AwakeInv
  <2> QED
    BY <1>1, <2>1, <2>2, AwakeStep DEF Awake
<1>3. CASE RestoreEnd
  <2>1. /\ UNCHANGED <<mem, disk, row, saving, shown, cached, login, logout>>
        /\ restore'.at = "idle" /\ restore.at = "dashboard"
        /\ UNCHANGED <<screen, fetch>>
           \/ Show(IF shown["profile"] # None THEN "shell" ELSE "login")
    BY <1>3 DEF RestoreEnd, tokens, server, data
  <2>2. UNCHANGED <<screen, fetch>> \/ Show("shell")
    BY <1>1, <2>1 DEF AwakeInv
  <2>3. /\ UNCHANGED fetch \/ \E S, owner : Join(S, owner)
        /\ screen' \in {"restoring", "shell"}
    BY <1>1, <2>2, ShowAwake DEF Awake
  <2>4. AwakeInv'
    BY <1>1, <2>1, <2>3, JoinAwake
  <2> QED
    BY <1>1, <2>1, <2>3, <2>4, AwakeStep
<1>4. CASE RestoreFail
  <2>1. /\ UNCHANGED <<mem, disk, row, saving, shown, cached, login, logout>>
        /\ restore'.at = "idle" /\ Show("shell")
    <3>1. ~(restore.awaited /\ ~HasData(shown))
      BY <1>4 DEF RestoreFail, Trouble
    <3>2. /\ restore' = [at |-> "idle", awaited |-> FALSE] /\ Show("shell")
          /\ UNCHANGED <<server, mem, disk, data, login, logout>>
      BY <1>4, <3>1 DEF RestoreFail
    <3> QED
      BY <3>2 DEF server, data
  <2>2. /\ UNCHANGED fetch \/ \E S, owner : Join(S, owner)
        /\ screen' \in {"restoring", "shell"}
    BY <1>1, <2>1, ShowAwake
  <2>3. AwakeInv'
    BY <1>1, <2>1, <2>2, JoinAwake
  <2> QED
    BY <1>1, <2>1, <2>2, <2>3, AwakeStep
<1>5. ~RestoreWrite /\ ~RestoreClear
  BY <1>1, ClearStages DEF AwakeInv, RestoreWrite, RestoreClear, Clear, Clears
<1> QED
  BY <1>2, <1>3, <1>4, <1>5

LEMMA UseAwake ==
  ASSUME TypeInv, PhoneInv, Sync \/ Refresh \/ OpenQr
  PROVE  PhoneInv'
<1>1. Awake /\ AwakeInv
  <2>1. CASE Sync
    BY <2>1, BusyIsAwake DEF Sync, Quiet
  <2>2. CASE Refresh \/ OpenQr
    BY <2>2 DEF Refresh, OpenQr, PhoneInv, AsleepInv, LogoutInv
  <2> QED
    BY <2>1, <2>2
<1>2. /\ UNCHANGED <<mem, disk, row, saving, shown, cached, restore, screen, login, logout>>
      /\ UNCHANGED fetch \/ \E S, owner : Join(S, owner)
  BY DEF Sync, Refresh, OpenQr, server, tokens, data, flows
<1>3. AwakeInv'
  BY <1>1, <1>2, JoinAwake DEF AwakeInv
<1> QED
  BY <1>1, <1>2, <1>3, AwakeStep DEF Awake

LEMMA RequestAwake ==
  ASSUME TypeInv, PhoneInv, NEW u, OwnedBy(u), calm', NEW r \in Resources,
         Request(r) \/ Save(r) \/ Lose(r)
  PROVE  PhoneInv'
<1>1. ~Quiet
  <2>1. CASE Save(r)
    BY <2>1 DEF Save, Quiet
  <2>2. CASE Request(r) \/ Lose(r)
    <3>1. fetch[r] # None
      BY <2>2 DEF Request, ServeGet, OnDenied, FindSession, RotateSession, OnRotated, OnRejected,
                  WriteAccess, WriteRefresh, Complete, Lose, At
    <3> QED
      BY <3>1, NoDataType DEF Quiet
  <2> QED
    BY <2>1, <2>2
<1>2. Awake /\ AwakeInv
  BY <1>1, BusyIsAwake
<1>3. AwakeInv'
  BY <1>2, AskAwake, RotateAwake, CompleteAwake, SaveAwake DEF Request
<1>4. UNCHANGED <<screen, login, logout>>
  BY DEF Request, ServeGet, OnDenied, FindSession, RotateSession, OnRotated, OnRejected,
         WriteAccess, WriteRefresh, Complete, Lose, Save, flows
<1> QED
  BY <1>2, <1>3, <1>4, AwakeStep DEF Awake

-----------------------------------------------------------------------------
(* While it is not: start-up, login, logout. *)

(* Requests that start from none at all. *)
LEMMA FirstRequests ==
  ASSUME TypeInv, fetch = NoData, \/ UNCHANGED fetch
                                  \/ \E S, owner : Join(S, owner)
  PROVE  \A q \in Resources : FetchInv(q)' /\ ~Rot(q)' /\ ~Deep(q)'
<1>1. ASSUME NEW q \in Resources PROVE FetchInv(q)' /\ ~Rot(q)' /\ ~Deep(q)'
  <2>1. fetch[q] = None
    BY NoDataType
  <2>2. fetch'[q] # None => fetch'[q].stage = "sent" /\ fetch'[q].again = FALSE
    BY <2>1, JoinType
  <2> QED
    BY <2>2 DEF FetchInv, Rot, Deep, PlainStages
<1> QED
  BY <1>1

LEMMA BootPhone ==
  ASSUME TypeInv, PhoneInv, Boot
  PROVE  PhoneInv'
<1>1. ~Awake /\ Quiet /\ StartInv
  BY DEF Boot, Awake, PhoneInv, AsleepInv
<1>2. /\ UNCHANGED <<disk, row, fetch, saving, shown, cached, hydrated, restore, sync, login, logout>>
      /\ mem' = disk /\ screen' = "init"
  BY DEF Boot, server, data
<1>3. Quiet' /\ StartInv'
  BY <1>1, <1>2 DEF Quiet, StartInv, Valid
<1> QED
  BY <1>2, <1>3 DEF PhoneInv, Awake, AsleepInv

LEMMA RestorePhone ==
  ASSUME TypeInv, PhoneInv, Restore
  PROVE  PhoneInv'
<1>1. ~Awake /\ Quiet /\ StartInv /\ mem = disk
  BY DEF Restore, Awake, PhoneInv, AsleepInv, StartInv
<1>2. /\ UNCHANGED <<mem, disk, row, saving, cached, sync, login, logout>>
      /\ shown' = [r \in Resources |-> IF ~hydrated /\ cached[r] # None THEN cached[r] ELSE shown[r]]
  BY DEF Restore, server, tokens
<1>3. \A r \in Resources : shown'[r] = cached[r]
  BY <1>1, <1>2, NoDataType DEF StartInv
<1>4. CASE mem.access = None
  <2>1. disk = NoPair /\ mem = NoPair /\ cached = NoData
    BY <1>1, <1>4 DEF StartInv
  <2>2. shown' = NoData
    BY <1>2, <1>3, <2>1 DEF NoData
  <2>3. screen' = "login" /\ UNCHANGED <<fetch, restore>>
    BY <1>4 DEF Restore
  <2>4. Quiet' /\ LoginInv'
    BY <1>1, <1>2, <2>1, <2>2, <2>3 DEF Quiet, LoginInv, StartInv
  <2> QED
    BY <2>3, <2>4 DEF PhoneInv, Awake, AsleepInv
<1>5. CASE mem.access # None
  <2>1. /\ screen' \in {"shell", "restoring"} /\ restore'.at = "profile"
        /\ \E S, owner : Join(S, owner)
    <3>1. restore' = [at |-> "profile", awaited |-> ~HasData(shown')]
      BY <1>5 DEF Restore
    <3>2. screen' \in {"shell", "restoring"}
      BY <1>5 DEF Restore
    <3>3. \E S, owner : Join(S, owner)
      BY <1>5 DEF Restore
    <3> QED
      BY <3>1, <3>2, <3>3
  <2>2. \A q \in Resources : FetchInv(q)' /\ ~Rot(q)' /\ ~Deep(q)'
    BY <1>1, <2>1, FirstRequests DEF Quiet
  <2>3. \A q \in Resources : CacheInv(q)'
    BY <1>1, <1>2, <1>3 DEF CacheInv, Quiet
  <2>4. disk'.refresh # None => Valid(disk.refresh)'
    BY <1>1, <1>2 DEF StartInv, Valid
  <2>5. AwakeInv'
    BY <1>1, <1>2, <1>5, <2>1, <2>2, <2>3, <2>4 DEF AwakeInv
  <2> QED
    BY <1>1, <1>2, <2>1, <2>5 DEF PhoneInv, Awake, StartInv
<1> QED
  BY <1>4, <1>5

(* A login is at the login screen, where nothing is left. *)
LEMMA LoginPhone ==
  ASSUME TypeInv, PhoneInv,
         ServeLogin \/ OnLogin \/ LoginWriteAccess \/ LoginFail \/ \E u \in Users : Login(u)
  PROVE  PhoneInv'
<1>1. screen = "login" /\ Quiet /\ LoginInv
  <2>1. CASE login # None
    BY <2>1 DEF PhoneInv, Awake, AsleepInv, StartInv, LogoutInv, TypeInv, TypeOK
  <2>2. CASE \E u \in Users : Login(u)
    BY <2>2 DEF Login, PhoneInv, Awake, AsleepInv
  <2> QED
    BY <2>1, <2>2 DEF ServeLogin, OnLogin, LoginWriteAccess, LoginFail
<1>2. UNCHANGED <<fetch, saving, shown, cached, restore, sync, logout, screen>>
  BY DEF ServeLogin, OnLogin, LoginWriteAccess, LoginFail, Login, data, flows
<1>3. Quiet'
  BY <1>1, <1>2 DEF Quiet
<1>4. LoginInv'
  <2>1. CASE LoginFail \/ \E u \in Users : Login(u)
    <3>1. UNCHANGED <<mem, disk>> /\ (login' = None \/ (login' # None /\ login'.stage = "sent"))
          /\ (login = None \/ login.stage = "sent")
      <4>1. CASE LoginFail
        BY <4>1 DEF LoginFail, tokens
      <4>2. ASSUME NEW u \in Users, Login(u)
            PROVE  UNCHANGED <<mem, disk>> /\ login' # None /\ login'.stage = "sent" /\ login = None
        <5>1. login' \in LoginCall /\ login'.stage = "sent"
          BY <4>2 DEF Login, LoginCall
        <5> QED
          BY <4>2, <5>1, NoneAssumption DEF Login, tokens
      <4> QED
        BY <2>1, <4>1, <4>2
    <3> QED
      BY <1>1, <1>2, <3>1 DEF LoginInv
  <2>2. CASE ServeLogin
    <3> DEFINE t == [user |-> login.user, sess |-> issued + 1, no |-> issued + 1]
    <3>1. t \in Token /\ t.sess \in 1..MaxIssued /\ t.sess = issued + 1 /\ t.no = issued + 1
      BY <2>2, NewToken
    <3>2. /\ login # None /\ login.stage = "sent" /\ UNCHANGED <<mem, disk>>
          /\ login' = [login EXCEPT !.stage = "answered", !.token = t]
          /\ row' = [row EXCEPT ![t.sess] = t.no]
      BY <2>2 DEF ServeLogin, tokens
    <3> HIDE DEF t
    <3>3. login'.token = t /\ login'.stage = "answered"
      BY <3>1, <3>2, LoginStage
    <3>4. row'[t.sess] = t.no
      BY <3>1, <3>2 DEF TypeInv, TypeOK
    <3> QED
      BY <1>1, <1>2, <3>2, <3>3, <3>4 DEF LoginInv, Valid
  <2>3. CASE OnLogin
    <3>1. /\ login.stage = "answered" /\ mem' = Pair(login.token) /\ UNCHANGED <<disk, row>>
          /\ login'.stage = "saveAccess" /\ login'.token = login.token /\ login # None
          /\ login' # None
      BY <2>3, LoginGoesOn DEF OnLogin, SetTokens, server
    <3>2. /\ logout = "idle" /\ shown = NoData /\ cached = NoData /\ disk = NoPair
          /\ Valid(login.token)
      BY <1>1, <3>1 DEF LoginInv
    <3> QED
      BY <1>2, <3>1, <3>2 DEF LoginInv, Valid
  <2>4. CASE LoginWriteAccess
    <3>1. /\ login.stage = "saveAccess" /\ disk' = [disk EXCEPT !.access = login.token]
          /\ UNCHANGED <<mem, row>> /\ login # None
          /\ login'.stage = "saveRefresh" /\ login'.token = login.token /\ login' # None
      BY <2>4, LoginGoesOn DEF LoginWriteAccess, SaveAccess, server
    <3>2. /\ logout = "idle" /\ shown = NoData /\ cached = NoData /\ disk = NoPair
          /\ mem = Pair(login.token) /\ Valid(login.token)
      BY <1>1, <3>1 DEF LoginInv
    <3>3. disk' = [NoPair EXCEPT !.access = login'.token] /\ mem' = Pair(login'.token)
      BY <3>1, <3>2
    <3> QED
      BY <1>2, <3>1, <3>2, <3>3 DEF LoginInv, Valid
  <2> QED
    BY <2>1, <2>2, <2>3, <2>4
<1> QED
  BY <1>1, <1>2, <1>3, <1>4 DEF PhoneInv, Awake, AsleepInv

(* A login ends: memory and disk hold the token that the server has stored. *)
LEMMA LoginEndPhone ==
  ASSUME TypeInv, PhoneInv, LoginEnd
  PROVE  PhoneInv'
<1>1. login # None /\ login.stage = "saveRefresh" /\ login.token # None
  BY DEF LoginEnd, TypeInv
<1>2. Quiet /\ LoginInv
  BY <1>1 DEF PhoneInv, Awake, AsleepInv, StartInv, LogoutInv, TypeInv, TypeOK
<1>3. /\ logout = "idle" /\ shown = NoData /\ cached = NoData /\ Valid(login.token)
      /\ mem = Pair(login.token) /\ disk = [NoPair EXCEPT !.access = login.token]
  BY <1>1, <1>2 DEF LoginInv
<1>4. /\ UNCHANGED <<mem, row, saving, shown, cached, restore, logout>>
      /\ disk' = [disk EXCEPT !.refresh = login.token]
      /\ login' = None /\ screen' = "shell" /\ \E S, owner : Join(S, owner)
  BY DEF LoginEnd, SaveRefresh, server, data
<1>5. disk' = Pair(login.token)
  BY <1>3, <1>4 DEF NoPair, Pair
<1>6. /\ mem' = disk' /\ mem'.access # None /\ disk'.access # None
      /\ disk'.refresh = login.token
  BY <1>1, <1>3, <1>4, <1>5 DEF Pair
<1>7. Valid(disk.refresh)'
  BY <1>3, <1>4, <1>6 DEF Valid
<1>8. \A q \in Resources : FetchInv(q)' /\ ~Rot(q)' /\ ~Deep(q)'
  BY <1>2, <1>4, FirstRequests DEF Quiet
<1>9. \A q \in Resources : CacheInv(q)'
  BY <1>2, <1>3, <1>4 DEF CacheInv, Quiet
<1>10. AwakeInv'
  BY <1>2, <1>4, <1>6, <1>7, <1>8, <1>9 DEF AwakeInv, Quiet
<1> QED
  BY <1>3, <1>4, <1>10 DEF PhoneInv, Awake

LEMMA LogoutPhone ==
  ASSUME TypeInv, PhoneInv, calm', Logout
  PROVE  PhoneInv'
<1>1. Idle /\ screen = "shell"
  BY DEF Logout, Trouble
<1>2. /\ UNCHANGED <<fetch, saving, restore, sync, login, screen>>
      /\ mem' = NoPair /\ logout' = "removeAccess"
  BY DEF Logout, data
<1>3. Quiet' /\ LogoutInv'
  BY <1>1, <1>2 DEF Idle, Quiet, LogoutInv, Clears, Cleared
<1> QED
  BY <1>1, <1>2, <1>3 DEF PhoneInv, Awake, AsleepInv

LEMMA LogoutEndsPhone ==
  ASSUME TypeInv, PhoneInv, LogoutWrite \/ LogoutForget \/ LogoutEnd
  PROVE  PhoneInv'
<1>1. Quiet /\ LogoutInv /\ screen = "shell"
  <2>1. logout # "idle"
    BY ClearStages DEF LogoutWrite, LogoutForget, LogoutEnd, Clear, Clears
  <2> QED
    BY <2>1 DEF PhoneInv, Awake, AsleepInv, StartInv, LoginInv, TypeInv, TypeOK
<1>2. Quiet' /\ UNCHANGED <<login, mem>>
  BY <1>1 DEF LogoutWrite, LogoutForget, LogoutEnd, Quiet, data, tokens
<1>3. CASE LogoutWrite
  <2>1. disk \in Tokens
    BY DEF TypeInv, TypeOK
  <2>2. \/ logout' = "removeRefresh" /\ disk' = [disk EXCEPT !.access = None]
        \/ logout' = "forget" /\ disk' = [disk EXCEPT !.refresh = None] /\ disk.access = None
    BY <1>1, <1>3 DEF LogoutWrite, LogoutInv, SaveAccess, SaveRefresh
  <2>3. \/ logout' = "removeRefresh" /\ disk'.access = None
        \/ logout' = "forget" /\ disk' = NoPair
    BY <2>1, <2>2 DEF Tokens, NoPair, Pair
  <2>4. LogoutInv' /\ screen' = "shell"
    BY <1>1, <1>2, <1>3, <2>3 DEF LogoutWrite, LogoutInv, Clears, Cleared
  <2> QED
    BY <1>2, <2>4 DEF PhoneInv, Awake, AsleepInv, LogoutInv
<1>4. CASE LogoutForget
  <2>1. LogoutInv' /\ screen' = "shell"
    BY <1>1, <1>2, <1>4 DEF LogoutForget, ForgetData, LogoutInv, Clears, Cleared, tokens
  <2> QED
    BY <1>2, <2>1 DEF PhoneInv, Awake, AsleepInv, LogoutInv
<1>5. CASE LogoutEnd
  <2>1. /\ logout \in Clears /\ shown' = NoData /\ disk' = NoPair /\ login' = None
        /\ logout' = AfterClear[logout]
        /\ screen' = IF logout' = "idle" THEN "boot" ELSE screen
    BY <1>1, <1>2, <1>5, ClearType DEF LogoutEnd, tokens, LogoutInv
  <2>2. cached' = [r \in Resources |-> IF r = Clearing[logout] THEN None ELSE cached[r]]
    BY <1>5 DEF LogoutEnd, Clear
  <2>3. \A r \in Resources : r \in Cleared(logout) \/ r = Clearing[logout] => cached'[r] = None
    BY <1>1, <2>2 DEF LogoutInv
  <2>4. CASE logout' = "idle"
    <3>1. logout = "clearQr"
      BY <2>1, <2>4 DEF Clears, AfterClear
    <3>2. \A r \in Resources : r \in Cleared(logout) \/ r = Clearing[logout]
      BY <3>1, ResourcesAssumption DEF Cleared, Clearing
    <3>3. cached' = NoData
      BY <2>2, <2>3, <3>2 DEF NoData
    <3>4. disk'.refresh = None
      BY <2>1 DEF NoPair, Pair
    <3>5. StartInv'
      BY <2>1, <2>4, <3>3, <3>4 DEF StartInv
    <3> QED
      BY <1>2, <2>1, <2>4, <3>5 DEF PhoneInv, Awake, AsleepInv
  <2>5. CASE logout' # "idle"
    <3>1. logout' \in Clears /\ \A r \in Cleared(logout') : r \in Cleared(logout) \/ r = Clearing[logout]
      BY <2>1, <2>5 DEF Clears, AfterClear, Cleared, Clearing
    <3>2. \A r \in Resources \cap Cleared(logout') : cached'[r] = None
      BY <2>3, <3>1
    <3>3. LogoutInv' /\ screen' = "shell"
      BY <1>1, <1>2, <2>1, <2>5, <3>1, <3>2 DEF LogoutInv, Clears
    <3> QED
      BY <1>2, <2>5, <3>3 DEF PhoneInv, Awake, AsleepInv
  <2> QED
    BY <2>4, <2>5
<1> QED
  BY <1>3, <1>4, <1>5

(* Nothing of the phone changes. *)
LEMMA SamePhone ==
  ASSUME PhoneInv, UNCHANGED <<row, mem, disk, fetch, saving, shown, cached, hydrated, screen,
                               restore, sync, login, logout>>
  PROVE  PhoneInv'
<1>1. Awake' <=> Awake
  BY DEF Awake
<1>2. AwakeInv => AwakeInv'
  BY DEF AwakeInv, FetchInv, CacheInv, Rot, Deep, Valid
<1>3. AsleepInv => AsleepInv'
  BY DEF AsleepInv, Quiet, StartInv, LoginInv, LogoutInv, Valid
<1> QED
  BY <1>1, <1>2, <1>3 DEF PhoneInv

(* A kill: what the disk holds is a whole session, or none. *)
LEMMA CrashPhone ==
  ASSUME TypeInv, PhoneInv, calm', Crash
  PROVE  PhoneInv'
<1>1. logout = "idle" /\ \A r \in Resources : ~Rot(r) /\ ~Deep(r)
  <2>1. logout = "idle" /\ \A r \in Resources : ~Rot(r)
    BY DEF Crash, Trouble, Rot
  <2> QED
    BY <2>1 DEF Rot, Deep, PlainStages
<1>2. /\ UNCHANGED <<row, disk, cached>>
      /\ screen' = "boot" /\ login' = None /\ logout' = "idle" /\ shown' = NoData
      /\ hydrated' = FALSE /\ Quiet'
  BY DEF Crash, server, Quiet
<1>3. /\ disk.access = None => disk = NoPair /\ cached = NoData
      /\ disk.refresh # None => Valid(disk.refresh)
  <2>1. CASE Awake
    BY <1>1, <2>1 DEF PhoneInv, AwakeInv
  <2>2. CASE ~Awake /\ screen \in {"boot", "init"}
    BY <2>2 DEF PhoneInv, AsleepInv, StartInv
  <2>3. CASE ~Awake /\ screen = "login"
    <3>1. LoginInv
      BY <2>3 DEF PhoneInv, AsleepInv
    <3>2. cached = NoData /\ (disk = NoPair \/ (login # None /\ login.stage = "saveRefresh"
                              /\ disk = [NoPair EXCEPT !.access = login.token]))
      BY <3>1 DEF LoginInv, TypeInv, TypeOK, LoginCall
    <3> QED
      BY <3>2 DEF TypeInv, NoPair, Pair
  <2>4. CASE ~Awake /\ screen = "shell"
    BY <1>1, <2>4 DEF PhoneInv, AsleepInv, LogoutInv
  <2> QED
    BY <2>1, <2>2, <2>3, <2>4 DEF TypeInv, TypeOK, Awake, PhoneInv, AsleepInv
<1>4. StartInv'
  BY <1>2, <1>3 DEF StartInv, Valid
<1> QED
  BY <1>2, <1>4 DEF PhoneInv, Awake, AsleepInv

-----------------------------------------------------------------------------
(* The theorems. *)

LEMMA InitCalm == Init => CalmInv
<1> SUFFICES ASSUME Init PROVE CalmInv
  OBVIOUS
<1>1. PhoneInv
  <2>1. /\ Quiet /\ screen = "boot" /\ login = None /\ logout = "idle" /\ shown = NoData
        /\ cached = NoData /\ disk = NoPair /\ disk.refresh = None
    BY DEF Init, Quiet, NoPair, Pair
  <2> QED
    BY <2>1 DEF PhoneInv, Awake, AsleepInv, StartInv
<1>2. OwnedBy(None)
  BY NoDataType, NobodysTokens DEF Init, OwnedBy
<1> QED
  BY <1>1, <1>2 DEF CalmInv

LEMMA NextCalm == TypeInv /\ CalmInv /\ [Next]_vars => CalmInv'
<1> SUFFICES ASSUME TypeInv, CalmInv, [Next]_vars, calm'
             PROVE  PhoneInv' /\ \E u \in Users \cup {None} : OwnedBy(u)'
  BY DEF CalmInv
<1>1. PhoneInv /\ \E u \in Users \cup {None} : OwnedBy(u)
  BY CalmBefore DEF CalmInv
<1>2. PICK u \in Users \cup {None} : OwnedBy(u)
  BY <1>1
<1>3. ASSUME NEW r \in Resources, Request(r) \/ Save(r) \/ Lose(r) PROVE PhoneInv'
  BY <1>1, <1>2, <1>3, RequestAwake
<1>4. ASSUME Gate PROVE PhoneInv'
  BY <1>1, <1>4, BootPhone, RestorePhone, RestoreAwake DEF Gate
<1>5. ASSUME Account \/ LoginFail \/ \E v \in Users : Login(v) PROVE PhoneInv'
  BY <1>1, <1>5, LoginPhone, LoginEndPhone, UseAwake, LogoutEndsPhone DEF Account
<1>6. ASSUME Refresh \/ OpenQr \/ Logout \/ Crash PROVE PhoneInv'
  BY <1>1, <1>6, UseAwake, LogoutPhone, CrashPhone
<1>7. ASSUME Expire \/ UNCHANGED vars PROVE PhoneInv'
  BY <1>1, <1>7, SamePhone DEF Expire, server, tokens, data, flows, vars
<1>8. ~RestoreTimeout
  BY DEF RestoreTimeout, Trouble
<1>9. PhoneInv'
  BY <1>3, <1>4, <1>5, <1>6, <1>7, <1>8 DEF Next
<1> QED
  BY <1>9, NextOwned

LEMMA SessionInv == Spec => [](TypeInv /\ CalmInv)
<1>1. Init => TypeInv /\ CalmInv
  BY InitType, InitCalm
<1>2. TypeInv /\ CalmInv /\ [Next]_vars => (TypeInv /\ CalmInv)'
  BY NextType, NextCalm
<1> QED
  BY <1>1, <1>2, PTL DEF Spec

(* The state of the app and of the sessions keeps its shape. *)
THEOREM ClientTypeCorrect == Spec => []TypeOK
<1>1. TypeInv /\ CalmInv => TypeOK
  BY DEF TypeInv
<1> QED
  BY <1>1, SessionInv, PTL

(* In calm, what WalletStore shows is the data of the user who is logged in: *)
(* nothing of the user before survives a logout, in memory, on the way to   *)
(* the disk or in an answer that is still to come.                          *)
THEOREM CalmOwner == Spec => []CalmShowsOwnData
<1>1. TypeInv /\ CalmInv => CalmShowsOwnData
  BY DEF CalmInv, OwnedBy, TokenOf, CalmShowsOwnData, OwnData
<1> QED
  BY <1>1, SessionInv, PTL

(* In calm, ApiClient never loses the session of a user in MainShell: every *)
(* rotation meets the token that the server has stored.                     *)
THEOREM CalmSession == Spec => []CalmStaysLoggedIn
<1>1. TypeInv /\ CalmInv => CalmStaysLoggedIn
  <2> SUFFICES ASSUME CalmInv, calm, LoggedIn PROVE mem.access # None
    BY DEF CalmStaysLoggedIn
  <2>1. PhoneInv /\ screen = "shell" /\ logout = "idle"
    BY DEF CalmInv, LoggedIn
  <2> QED
    BY <2>1 DEF PhoneInv, Awake, AwakeInv, AsleepInv, LogoutInv
<1> QED
  BY <1>1, SessionInv, PTL

(* In calm, the login screen comes up with every trace of a session gone    *)
(* from memory and from the disk.                                           *)
THEOREM CalmLogout == Spec => []CalmLogoutIsFinal
<1>1. TypeInv /\ CalmInv => CalmLogoutIsFinal
  BY DEF CalmInv, PhoneInv, Awake, AsleepInv, LoginInv, CalmLogoutIsFinal
<1> QED
  BY <1>1, SessionInv, PTL

(* In calm, once nothing is under way, a restart finds on the disk the      *)
(* session and the data that memory holds.                                  *)
THEOREM CalmRestart == Spec => []CalmDiskIsMemory
<1>1. TypeInv /\ CalmInv => CalmDiskIsMemory
  <2> SUFFICES ASSUME CalmInv, calm, Idle, LoggedIn
               PROVE  disk = mem /\ \A r \in Resources : cached[r] = shown[r]
    BY DEF CalmDiskIsMemory
  <2>1. Awake /\ PhoneInv
    BY DEF CalmInv, LoggedIn, Idle, Awake
  <2>2. AwakeInv
    BY <2>1 DEF PhoneInv
  <2>3. \A r \in Resources : ~Rot(r) /\ saving[r] = {}
    BY NoDataType DEF Idle, Rot
  <2> QED
    BY <2>2, <2>3 DEF AwakeInv, CacheInv
<1> QED
  BY <1>1, SessionInv, PTL


=============================================================================
