--------------------------- MODULE DiscoveryProofs ---------------------------
(***************************************************************************)
(* Proofs about Discovery, for any ports, servers, resolutions and number  *)
(* of retries.                                                             *)
(***************************************************************************)
EXTENDS Discovery, FiniteSetTheorems, TLAPS

-----------------------------------------------------------------------------
(* The shape of resolutions: what is off is empty, what tests a URL is not *)
(* in _resolveFuture, and what has probed knows a URL.                     *)

RaceInv ==
  /\ \A i \in Resolutions :
       /\ race[i].stage = "off" => race[i] = NoRace
       /\ race[i].stage \notin {"off", "init"} => race[i].url \in Ports
       /\ race[i].test => race[i].stage # "init" /\ inFlight # i
  /\ inFlight # None => race[inFlight].stage # "off"

UrlInv == Pending => request.url \in Ports

FormInv == TypeOK /\ RaceInv /\ UrlInv

LEMMA Constant ==
  /\ Ports \subseteq Nat /\ Base \in Ports /\ LastPort \in Ports
  /\ ApiPorts \subseteq Ports /\ StopPorts \subseteq Ports
  /\ Own \in Resolutions /\ Own \notin Callers
  /\ \A n \in Nat : n < Attempts => Base + n \in Ports
  BY PortsAssumption, BoundsAssumption DEF Ports, LastPort, Resolutions

LEMMA EmptyTypes == NoRequest \in Request /\ NoRace \in Race
  BY BoundsAssumption DEF NoRequest, Request, NoRace, Race

LEMMA InitFormInv == Init => FormInv
<1> SUFFICES ASSUME Init PROVE FormInv
  OBVIOUS
<1> USE DEF Init
<1>1. NoRequest \in Request /\ NoRace \in Race /\ ~Pending
  BY EmptyTypes DEF NoRequest, Pending
<1>2. TypeOK
  BY <1>1, PortsAssumption, ForeignAssumption, BoundsAssumption DEF TypeOK, Boot
<1>3. RaceInv /\ UrlInv
  BY <1>1, ForeignAssumption DEF RaceInv, UrlInv, NoRace
<1> QED
  BY <1>2, <1>3 DEF FormInv

(* The server's steps, and those of the world. *)
LEMMA ServerForm ==
  ASSUME FormInv,
         \/ \E s \in Servers : Start(s) \/ ServerStep(s)
         \/ \E p \in Ports : Die(p) \/ KillOnPort(p)
         \/ Stop
  PROVE  FormInv'
<1> USE Constant DEF FormInv, TypeOK, Event
<1>1. /\ UNCHANGED <<platform, inFlight, base, race>>
      /\ request' = request \/ request' = [request EXCEPT !.steady = FALSE]
      /\ used' \in 0..MaxEvents
  BY BoundsAssumption DEF Start, ServerStep, Check, Listen, Die, KillOnPort, Stop, Unsettled
<1>2. /\ request' \in Request /\ request'.stage = request.stage
      /\ request'.url = request.url
  BY <1>1 DEF Request
<1> DEFINE Shaped == /\ holder' \in [Ports -> Servers \cup Others \cup {None}]
                     /\ boot' \in [Servers -> Boot] /\ stopping' \subseteq Ports
<1>3. Shaped
  <2>0. \A stage \in {"off", "check", "listen", "up", "exit", "failed"} :
          [stage |-> stage, attempt |-> 0] \in Boot
    BY PortsAssumption DEF Boot
  <2>1. ASSUME NEW s \in Servers, Start(s) \/ Check(s)
        PROVE  Shaped
    BY <2>0, <2>1 DEF Start, Check, BootTo
  <2>2. ASSUME NEW s \in Servers, Listen(s)
        PROVE  Shaped
    <3>1. boot[s].attempt \in 0..Attempts
      BY DEF Boot
    <3> QED
      BY <2>2, <3>1, PortsAssumption DEF Listen, NextAttempt, BootTo, Boot
  <2>3. ASSUME NEW p \in Ports, Die(p) \/ KillOnPort(p)
        PROVE  Shaped
    <3>1. stopping' \subseteq Ports
      BY <2>3 DEF Die, KillOnPort
    <3>2. holder' \in [Ports -> Servers \cup Others \cup {None}]
      BY <2>3 DEF Die, KillOnPort, Free
    <3>3. boot' \in [Servers -> Boot]
      BY <2>0, <2>3 DEF Die, KillOnPort, Killed
    <3> QED
      BY <3>1, <3>2, <3>3
  <2>4. CASE Stop
    BY <2>4 DEF Stop
  <2> QED
    BY <2>1, <2>2, <2>3, <2>4 DEF ServerStep
<1>4. TypeOK'
  BY <1>1, <1>2, <1>3
<1>5. RaceInv' /\ UrlInv'
  BY <1>1, <1>2 DEF RaceInv, UrlInv, Pending
<1> QED
  BY <1>4, <1>5

(* A resolution that is begun, and one that ends. *)
LEMMA BeginForm ==
  ASSUME FormInv, NEW i \in Resolutions, Begin(i),
         UNCHANGED <<world, base>>, request' \in Request, UrlInv', used' \in 0..MaxEvents
  PROVE  FormInv'
<1> USE Constant, ForeignAssumption DEF FormInv, TypeOK, Begin, world
<1>1. race[i] = NoRace /\ race'[i] = [NoRace EXCEPT !.stage = "init"] /\ inFlight' = i
  BY DEF RaceInv
<1>2. race'[i] \in Race /\ race'[i].stage = "init" /\ ~race'[i].test
  BY <1>1 DEF NoRace, Race
<1>3. \A j \in Resolutions \ {i} : race'[j] = race[j]
  OBVIOUS
<1>4. race' \in [Resolutions -> Race]
  BY <1>2
<1>5. TypeOK'
  BY <1>1, <1>4
<1>6. RaceInv'
  <2>1. ASSUME NEW j \in Resolutions
        PROVE  /\ race'[j].stage = "off" => race'[j] = NoRace
               /\ race'[j].stage \notin {"off", "init"} => race'[j].url \in Ports
               /\ race'[j].test => race'[j].stage # "init" /\ inFlight' # j
    BY <1>1, <1>2, <1>3 DEF RaceInv
  <2> QED
    BY <1>1, <1>2, <2>1 DEF RaceInv
<1> QED
  BY <1>5, <1>6

LEMMA EndRaceForm ==
  ASSUME FormInv, NEW i \in Resolutions, NEW found \in BOOLEAN, NEW calm \in BOOLEAN,
         EndRace(i, found, calm), race[i].stage # "off",
         UNCHANGED <<world, base>>, used' \in 0..MaxEvents
  PROVE  FormInv'
<1> USE Constant, ForeignAssumption DEF FormInv, TypeOK, EndRace, ClearInFlight, world
<1>1. race'[i] = NoRace /\ NoRace \in Race /\ NoRace.stage = "off" /\ ~NoRace.test
  BY DEF NoRace, Race
<1>2. \A j \in Resolutions \ {i} : race'[j] = race[j]
  OBVIOUS
<1>3. request' \in Request /\ request'.stage = request.stage /\ request'.url = request.url
  BY DEF Request
<1>4. IF race[i].test THEN inFlight' = inFlight ELSE inFlight' = None
  OBVIOUS
<1>5. TypeOK'
  BY <1>1, <1>3, <1>4
<1>6. inFlight' # None => inFlight' # i
  BY <1>4 DEF RaceInv
<1>7. RaceInv'
  <2>1. ASSUME NEW j \in Resolutions
        PROVE  /\ race'[j].stage = "off" => race'[j] = NoRace
               /\ race'[j].stage \notin {"off", "init"} => race'[j].url \in Ports
               /\ race'[j].test => race'[j].stage # "init" /\ inFlight' # j
    BY <1>1, <1>2, <1>4 DEF RaceInv
  <2>2. inFlight' # None => race'[inFlight'].stage # "off"
    BY <1>2, <1>4, <1>6 DEF RaceInv
  <2> QED
    BY <2>1, <2>2 DEF RaceInv
<1>8. UrlInv'
  BY <1>3 DEF UrlInv, Pending
<1> QED
  BY <1>5, <1>7, <1>8

(* A resolution that goes on keeps its place in _resolveFuture. *)
LEMMA GoOnForm ==
  ASSUME FormInv, NEW i \in Resolutions, NEW r \in Race, race' = [race EXCEPT ![i] = r],
         r.stage \notin {"off", "init"}, r.url \in Ports,
         r.test => race[i].test \/ race[i].stage = "off",
         UNCHANGED <<world, inFlight, request>>, base' \in Ports, used' \in 0..MaxEvents
  PROVE  FormInv'
<1> USE DEF FormInv, TypeOK, world
<1>1. TypeOK'
  OBVIOUS
<1>2. RaceInv'
  BY ForeignAssumption DEF RaceInv, Resolutions
<1>3. UrlInv'
  BY DEF UrlInv, Pending
<1> QED
  BY <1>1, <1>2, <1>3

LEMMA RaceStepForm ==
  ASSUME FormInv, NEW i \in Resolutions, RaceStep(i)
  PROVE  FormInv'
<1>1. race[i] \in Race /\ base \in Ports /\ used \in 0..MaxEvents /\ race \in [Resolutions -> Race]
      /\ (race[i].stage \notin {"off", "init"} => race[i].url \in Ports)
  BY DEF FormInv, TypeOK, RaceInv
<1>2. CASE StartRace(i)
  <2> DEFINE r == [race[i] EXCEPT !.stage = "probing", !.url = base]
  <2>1. r \in Race /\ r.stage = "probing" /\ r.url = base /\ r.test = race[i].test
    BY <1>1 DEF Race
  <2>2. race' = [race EXCEPT ![i] = r]
    BY <1>1, <1>2 DEF StartRace
  <2> HIDE DEF r
  <2> QED
    BY <1>1, <1>2, <2>1, <2>2, GoOnForm DEF StartRace
<1>3. CASE Win(i)
  <2>1. PICK p \in Candidates(i) : race' = [race EXCEPT ![i].stage = "won", ![i].url = p]
    BY <1>3 DEF Win
  <2> DEFINE r == [race[i] EXCEPT !.stage = "won", !.url = p]
  <2>2. p \in Ports
    BY <1>1, <1>3, Constant DEF Win, Candidates, Listed
  <2>3. r \in Race /\ r.stage = "won" /\ r.url = p /\ r.test = race[i].test
    BY <1>1, <2>2 DEF Race
  <2>4. race' = [race EXCEPT ![i] = r]
    BY <1>1, <2>1
  <2> HIDE DEF r
  <2> QED
    BY <1>1, <1>3, <2>2, <2>3, <2>4, GoOnForm DEF Win
<1>4. CASE NoneWins(i) \/ Saved(i)
  <2>1. used' \in 0..MaxEvents
    <3>1. used' = used \/ Event
      BY <1>4 DEF NoneWins, Saved
    <3> QED
      BY <1>1, <3>1, BoundsAssumption DEF Event
  <2> QED
    BY <1>4, <2>1, EndRaceForm DEF NoneWins, Saved
<1>5. CASE Apply(i)
  <2> DEFINE r == [race[i] EXCEPT !.stage = "save"]
  <2>1. r \in Race /\ r.stage = "save" /\ r.url = race[i].url /\ r.test = race[i].test
    BY <1>1 DEF Race
  <2>2. race' = [race EXCEPT ![i] = r] /\ race[i].url \in Ports
    BY <1>1, <1>5 DEF Apply
  <2> HIDE DEF r
  <2> QED
    BY <1>1, <1>5, <2>1, <2>2, GoOnForm DEF Apply
<1> QED
  BY <1>2, <1>3, <1>4, <1>5 DEF RaceStep

LEMMA CallerForm ==
  ASSUME FormInv, NEW i \in Callers, ResolveUrl(i) \/ ForceResolve(i) \/ TestUrl(i)
  PROVE  FormInv'
<1>1. i \in Resolutions /\ used \in 0..MaxEvents /\ race \in [Resolutions -> Race]
      /\ request \in Request /\ base \in Ports /\ UrlInv
  BY DEF FormInv, TypeOK, Resolutions
<1>2. used' \in 0..MaxEvents
  BY <1>1, BoundsAssumption DEF ResolveUrl, ForceResolve, TestUrl, Event
<1>3. CASE ResolveUrl(i) \/ ForceResolve(i)
  <2>1. Begin(i) /\ UNCHANGED <<world, base, request>>
    BY <1>3 DEF ResolveUrl, ForceResolve
  <2>2. UrlInv'
    BY <1>1, <2>1 DEF UrlInv, Pending
  <2> QED
    BY <1>1, <1>2, <2>1, <2>2, BeginForm
<1>4. CASE TestUrl(i)
  <2>1. PICK p \in Ports : race' = [race EXCEPT ![i] = [stage |-> "probing", test |-> TRUE, url |-> p]]
    BY <1>4 DEF TestUrl
  <2> DEFINE r == [stage |-> "probing", test |-> TRUE, url |-> p]
  <2>2. r \in Race /\ r.stage = "probing" /\ r.url = p
    BY DEF Race
  <2> QED
    BY <1>1, <1>2, <1>4, <2>1, <2>2, GoOnForm DEF TestUrl
<1> QED
  BY <1>3, <1>4

(* The steps of the request. *)
LEMMA EndRequestForm ==
  ASSUME FormInv, NEW r \in Request, NEW stage \in {"ok", "failed", "error"},
         EndRequest(r, stage), UNCHANGED <<world, inFlight, base, race>>,
         used' \in 0..MaxEvents
  PROVE  FormInv'
<1> USE DEF FormInv, TypeOK, world
<1>1. request' \in Request /\ request'.stage = stage
  <2>1. r.steady \in BOOLEAN
    BY DEF Request
  <2> QED
    BY <2>1, EmptyTypes DEF EndRequest, Request
<1>2. RaceInv' /\ UrlInv'
  BY <1>1 DEF RaceInv, UrlInv, Pending
<1> QED
  BY <1>1, <1>2

LEMMA RecoverForm ==
  ASSUME FormInv, NEW r \in Request, r.url \in Ports, NEW stage \in {"resend", "retry"},
         Recover(r, stage), UNCHANGED <<world, base>>, used' \in 0..MaxEvents
  PROVE  FormInv'
<1>1. request' \in Request /\ UrlInv'
  BY DEF Recover, Request, UrlInv
<1> QED
  BY <1>1, Constant, BeginForm DEF Recover

LEMMA RetryForm ==
  ASSUME FormInv, NEW r \in Request, r.url \in Ports, Retry(r),
         UNCHANGED <<world, base>>, used' \in 0..MaxEvents
  PROVE  FormInv'
<1>1. CASE MayRetry(r) /\ Recover(CountTry(r), "retry")
  <2>1. CountTry(r) \in Request /\ CountTry(r).url = r.url
    BY <1>1, BoundsAssumption DEF MayRetry, CountTry, Request
  <2> QED
    BY <1>1, <2>1, RecoverForm
<1>2. CASE EndRequest(r, "failed") /\ UNCHANGED <<inFlight, race>>
  BY <1>2, EndRequestForm
<1> QED
  BY <1>1, <1>2 DEF Retry

LEMMA RequestForm ==
  ASSUME FormInv, Send \/ RequestStep
  PROVE  FormInv'
<1>1. /\ request \in Request /\ used \in 0..MaxEvents /\ base \in Ports
      /\ Pending => request.url \in Ports
  BY DEF FormInv, TypeOK, UrlInv
<1>2. used' = used \/ Event => used' \in 0..MaxEvents
  BY <1>1, BoundsAssumption DEF Event
<1>3. CASE Send
  <2>1. request' \in Request /\ request'.url = base
    <3>1. Settled \in BOOLEAN
      BY DEF Settled
    <3> QED
      BY <1>1, <1>3, <3>1, EmptyTypes DEF Send, Request
  <2>2. /\ RaceInv' /\ UrlInv'
        /\ UNCHANGED <<world, inFlight, base, race>>
    BY <1>1, <1>3, <2>1 DEF Send, FormInv, RaceInv, UrlInv
  <2> QED
    BY <1>2, <1>3, <2>1, <2>2 DEF Send, FormInv, TypeOK, world
<1>4. CASE Answered
  BY <1>1, <1>2, <1>4, EndRequestForm DEF Answered
<1>5. CASE NetworkError
  <2>1. PICK r \in {request, [request EXCEPT !.steady = FALSE]} :
          /\ IF r = request THEN ~Answers(request.url) /\ UNCHANGED used ELSE Event
          /\ IF r.again THEN Retry(r) ELSE Recover(r, "resend")
    BY <1>5 DEF NetworkError
  <2>2. r \in Request /\ r.url = request.url /\ request.url \in Ports
    BY <1>1, <1>5 DEF NetworkError, Pending, Request
  <2>3. used' \in 0..MaxEvents
    BY <1>2, <2>1
  <2> QED
    BY <1>5, <2>1, <2>2, <2>3, RetryForm, RecoverForm DEF NetworkError
<1>6. CASE Resume
  <2>1. Pending /\ UNCHANGED <<world, base, used>>
    BY <1>6 DEF Resume, Pending
  <2>2. CASE Retry(request)
    BY <1>1, <2>1, <2>2, RetryForm
  <2>3. CASE /\ request' = [request EXCEPT !.stage = "sent", !.url = base, !.found = FALSE,
                                      !.again = (request.stage = "resend")]
             /\ UNCHANGED <<inFlight, race>>
    <3>1. request' \in Request /\ request'.url = base
      BY <1>1, <2>3, Constant DEF Request
    <3>2. RaceInv' /\ UrlInv'
      BY <1>1, <2>1, <2>3, <3>1 DEF FormInv, RaceInv, UrlInv
    <3> QED
      BY <2>1, <2>3, <3>1, <3>2 DEF FormInv, TypeOK, world
  <2> QED
    BY <1>6, <2>2, <2>3 DEF Resume
<1> QED
  BY <1>3, <1>4, <1>5, <1>6 DEF RequestStep

LEMMA NextFormInv == FormInv /\ [Next]_vars => FormInv'
<1> SUFFICES ASSUME FormInv, [Next]_vars PROVE FormInv'
  OBVIOUS
<1>1. CASE UNCHANGED vars
  BY <1>1 DEF vars, world, FormInv, TypeOK, RaceInv, UrlInv, Pending
<1> QED
  BY <1>1, ServerForm, RaceStepForm, CallerForm, RequestForm DEF Next

-----------------------------------------------------------------------------
(* The server, the resolutions and the request keep the shape of the code, *)
(* for every number of ports, servers and callers; the counter of          *)
(* _withRetry never passes maxRetries.                                     *)
THEOREM DiscoveryTypeCorrect == Spec => []TypeOK
<1>1. FormInv => TypeOK
  BY DEF FormInv
<1> QED
  BY <1>1, InitFormInv, NextFormInv, PTL DEF Spec

(* _resolveFuture never holds a resolution that has ended, in whatever     *)
(* order forced resolutions overlap and tests of a typed URL end: who      *)
(* joins it is answered.                                                   *)
THEOREM JoinedResolutionRuns == Spec => []JoinsWhatRuns
<1>1. FormInv => JoinsWhatRuns
  BY DEF FormInv, RaceInv, JoinsWhatRuns
<1> QED
  BY <1>1, InitFormInv, NextFormInv, PTL DEF Spec

-----------------------------------------------------------------------------
(* Why a steady request finds the server.  Nothing that listens goes away  *)
(* while it runs, so a resolution that wins from now on names a port that  *)
(* answers; what can lead it astray is a caller that had won before with   *)
(* an answer that is stale, and each of them applies its URL once.  A      *)
(* failed attempt costs one of them, the first excepted, and there are two *)
(* for each attempt of _withRetry: its own and that of the interceptor.    *)

Stale == {i \in Callers : race[i].stage = "won" /\ ~Answers(race[i].url)}

Spent(n) == Cardinality(Stale) + n <= Cardinality(Callers)

OwnInv(n) ==
  /\ Spent(n)
  /\ race[Own].stage = "won" => Answers(race[Own].url)
  /\ race[Own].stage \in {"save", "off"} => Answers(base) \/ Spent(n + 1)
  /\ race[Own].stage = "off" => request.found

BudgetInv ==
  Pending /\ request.steady =>
    /\ Settled
    /\ request.stage = "sent" =>
         Answers(request.url) \/ Spent(2 * request.tries + (IF request.again THEN 1 ELSE 0))
    /\ request.stage = "resend" => OwnInv(2 * request.tries)
    /\ request.stage = "retry" => request.tries > 0 /\ OwnInv(2 * request.tries - 1)

FindInv == FormInv /\ ~race[Own].test /\ RequestFindsServer /\ BudgetInv

FewCallers == IsFiniteSet(Callers) /\ Cardinality(Callers) <= 2 * MaxRetries

LEMMA SpentNothing == ASSUME FewCallers PROVE Spent(0)
  BY FS_Subset, FS_CardinalityType DEF FewCallers, Spent, Stale

LEMMA SpentKept ==
  ASSUME FewCallers, Stale' \subseteq Stale
  PROVE  \A n \in Int : Spent(n) => Spent(n)'
<1>1. IsFiniteSet(Stale)
  BY FS_Subset DEF FewCallers, Stale
<1>2. Cardinality(Stale') <= Cardinality(Stale) /\ Cardinality(Stale) \in Nat
      /\ Cardinality(Stale') \in Nat /\ Cardinality(Callers) \in Nat
  BY <1>1, FS_Subset, FS_CardinalityType DEF FewCallers
<1> QED
  BY <1>2 DEF Spent

LEMMA SpentOne ==
  ASSUME FewCallers, NEW i \in Stale, Stale' \subseteq Stale \ {i}
  PROVE  \A n \in Int : Spent(n) => Spent(n + 1)'
<1>1. IsFiniteSet(Stale)
  BY FS_Subset DEF FewCallers, Stale
<1>2. IsFiniteSet(Stale \ {i}) /\ Cardinality(Stale \ {i}) = Cardinality(Stale) - 1
  BY <1>1, FS_RemoveElement
<1>3. Cardinality(Stale') <= Cardinality(Stale) - 1 /\ Cardinality(Stale) \in Nat
      /\ Cardinality(Stale') \in Nat /\ Cardinality(Callers) \in Nat
  BY <1>1, <1>2, FS_Subset, FS_CardinalityType DEF FewCallers
<1> QED
  BY <1>3 DEF Spent

(* Nothing that listens goes away while a request is steady. *)
LEMMA ServerStays ==
  ASSUME FormInv, Settled, request'.steady,
         \/ \E s \in Servers : Start(s) \/ ServerStep(s)
         \/ \E p \in Ports : Die(p) \/ KillOnPort(p)
         \/ Stop
  PROVE  /\ Settled' /\ UNCHANGED <<base, race, request>>
         /\ \A p \in Ports : Answers(p) => Answers(p)'
<1> USE DEF FormInv, TypeOK
<1>1. request \in Request
  OBVIOUS
<1>2. ASSUME NEW p \in Ports, Die(p) PROVE FALSE
  BY <1>1, <1>2 DEF Die, Unsettled, Request
<1>3. ASSUME NEW p \in Ports, KillOnPort(p) PROVE FALSE
  BY <1>3 DEF KillOnPort, Settled
<1>4. ASSUME Stop PROVE FALSE
  BY <1>1, <1>4 DEF Stop, Unsettled, Request
<1>5. ASSUME NEW s \in Servers, Start(s) \/ Check(s)
      PROVE  UNCHANGED <<platform, holder, stopping, base, race, request>>
  BY <1>5 DEF Start, Check
<1>6. ASSUME NEW s \in Servers, Listen(s)
      PROVE  /\ UNCHANGED <<platform, stopping, base, race, request>>
             /\ \/ holder' = holder
                \/ \E p \in Ports : holder[p] = None /\ holder' = [holder EXCEPT ![p] = s]
  <2>1. boot[s].attempt \in Nat
    BY DEF Boot
  <2> QED
    BY <1>6, <2>1, Constant DEF Listen
<1>7. CASE UNCHANGED <<platform, holder, stopping, base, race, request>>
  BY <1>7 DEF Settled, Listed, Answers
<1>8. ASSUME NEW s \in Servers, NEW p \in Ports, holder[p] = None,
             holder' = [holder EXCEPT ![p] = s], UNCHANGED <<platform, stopping>>
      PROVE  Settled' /\ \A q \in Ports : Answers(q) => Answers(q)'
  BY <1>8, Constant, ForeignAssumption DEF Settled, Listed, Answers, Others
<1> QED
  BY <1>2, <1>3, <1>4, <1>5, <1>6, <1>7, <1>8 DEF ServerStep

(* A resolution wins with a port that answers at that moment. *)
LEMMA WinnerAnswers ==
  ASSUME FormInv, NEW i \in Resolutions, race'[i].stage = "won", race'[i] # race[i],
         \/ Send \/ RequestStep
         \/ \E j \in Callers : ResolveUrl(j) \/ ForceResolve(j) \/ TestUrl(j)
         \/ \E j \in Resolutions : RaceStep(j)
  PROVE  Answers(race'[i].url)
<1>1. race \in [Resolutions -> Race]
  BY DEF FormInv, TypeOK
<1>2. ASSUME NEW j \in Resolutions, Begin(j) PROVE FALSE
  BY <1>1, <1>2 DEF Begin, Race
<1>3. ASSUME NEW j \in Resolutions, TestUrl(j) PROVE FALSE
  BY <1>1, <1>3 DEF TestUrl, Race
<1>4. ASSUME NEW j \in Resolutions, StartRace(j) \/ Apply(j) PROVE FALSE
  BY <1>1, <1>4 DEF StartRace, Apply, Race
<1>5. ASSUME NEW j \in Resolutions, NoneWins(j) \/ Saved(j) PROVE FALSE
  <2>1. race' = [race EXCEPT ![j] = NoRace]
    BY <1>5 DEF NoneWins, Saved, EndRace
  <2> QED
    BY <1>1, <2>1 DEF NoRace
<1>6. ASSUME NEW j \in Resolutions, Win(j) PROVE Answers(race'[i].url)
  <2>1. PICK p \in Candidates(j) : /\ Answers(p)
                                   /\ race' = [race EXCEPT ![j].stage = "won", ![j].url = p]
    BY <1>6 DEF Win
  <2>2. i = j /\ race'[i].url = p
    BY <1>1, <2>1 DEF Race
  <2> QED
    BY <2>1, <2>2
<1>7. ASSUME Send \/ RequestStep PROVE UNCHANGED race \/ Begin(Own)
  BY <1>7 DEF Send, RequestStep, Answered, NetworkError, Resume, Retry, Recover
<1>8. \A j \in Callers : j \in Resolutions
  BY DEF Resolutions
<1> QED
  BY <1>2, <1>3, <1>4, <1>5, <1>6, <1>7, <1>8, Constant DEF ResolveUrl, ForceResolve, RaceStep

(* No step of a steady request makes an answer stale, or lets a port that  *)
(* answers fall silent.                                                    *)
LEMMA SteadyStep ==
  ASSUME FormInv, [Next]_vars, ~Send, request.steady, Settled, request'.steady
  PROVE  /\ Settled' /\ Stale' \subseteq Stale
         /\ \A p \in Ports : Answers(p) => Answers(p)'
<1>1. CASE \/ \E s \in Servers : Start(s) \/ ServerStep(s)
           \/ \E p \in Ports : Die(p) \/ KillOnPort(p)
           \/ Stop
  <2>1. /\ Settled' /\ UNCHANGED race
        /\ \A p \in Ports : Answers(p) => Answers(p)'
    BY <1>1, ServerStays
  <2>2. \A i \in Callers : race[i].stage = "won" => race[i].url \in Ports
    BY DEF FormInv, RaceInv, Resolutions
  <2> QED
    BY <2>1, <2>2 DEF Stale
<1>2. CASE \/ RequestStep
           \/ \E j \in Callers : ResolveUrl(j) \/ ForceResolve(j) \/ TestUrl(j)
           \/ \E j \in Resolutions : RaceStep(j)
  <2>1. UNCHANGED world
    BY <1>2 DEF RequestStep, Answered, NetworkError, Resume, ResolveUrl, ForceResolve,
                TestUrl, RaceStep, StartRace, Win, NoneWins, Apply, Saved
  <2>2. Settled' /\ \A p : Answers(p)' = Answers(p)
    BY <2>1 DEF world, Settled, Listed, Answers
  <2>3. ASSUME NEW i \in Callers, race'[i].stage = "won", ~Answers(race'[i].url)
        PROVE  i \in Stale
    BY <1>2, <2>3, WinnerAnswers DEF Stale, Resolutions
  <2>4. Stale' = {i \in Callers : race'[i].stage = "won" /\ ~Answers(race'[i].url)}
    BY <2>1 DEF Stale, Answers, world
  <2> QED
    BY <2>2, <2>3, <2>4
<1>3. CASE UNCHANGED vars
  BY <1>3 DEF vars, world, Settled, Listed, Answers, Stale
<1> QED
  BY <1>1, <1>2, <1>3 DEF Next

(* The resolution that a request waits for cannot fail: it probes a port   *)
(* that answers.                                                           *)
LEMMA SettledAnswers ==
  ASSUME FormInv, Settled, ~race[Own].test
  PROVE  \E p \in Candidates(Own) : Answers(p)
  BY PortsAssumption DEF Settled, Candidates, Answers

(* What a step that is not the request's own leaves of it.                 *)
Waits ==
  /\ request'.stage = request.stage /\ request'.url = request.url
  /\ request'.tries = request.tries /\ request'.again = request.again
  /\ request'.steady => request.steady

LEMMA OthersWait ==
  ASSUME FormInv, [Next]_vars, ~Send, ~RequestStep
  PROVE  Waits
<1> USE DEF FormInv, TypeOK
<1>1. request \in Request
  OBVIOUS
<1>2. CASE request' = request \/ request' = [request EXCEPT !.steady = FALSE]
  BY <1>1, <1>2 DEF Waits, Request
<1>3. ASSUME NEW i \in Resolutions, NEW found \in BOOLEAN, NEW calm \in BOOLEAN,
             EndRace(i, found, calm)
      PROVE  Waits
  BY <1>1, <1>3 DEF EndRace, Waits, Request
<1>4. CASE \E s \in Servers : Start(s) \/ ServerStep(s)
  BY <1>2, <1>4 DEF Start, ServerStep, Check, Listen
<1>5. CASE (\E p \in Ports : Die(p) \/ KillOnPort(p)) \/ Stop
  BY <1>2, <1>5 DEF Die, KillOnPort, Stop, Unsettled
<1>6. CASE \E i \in Callers : ResolveUrl(i) \/ ForceResolve(i) \/ TestUrl(i)
  BY <1>2, <1>6 DEF ResolveUrl, ForceResolve, TestUrl
<1>7. CASE \E i \in Resolutions : RaceStep(i)
  BY <1>2, <1>3, <1>7 DEF RaceStep, StartRace, Win, NoneWins, Apply, Saved
<1>8. CASE UNCHANGED vars
  BY <1>2, <1>8 DEF vars
<1> QED
  BY <1>4, <1>5, <1>6, <1>7, <1>8 DEF Next

(* A step of others that leaves alone what a request waits for. *)
LEMMA OwnInvFrame ==
  ASSUME FewCallers, FormInv, Stale' \subseteq Stale,
         \A p \in Ports : Answers(p) => Answers(p)',
         UNCHANGED <<base, race[Own], request.found>>, NEW n \in Int, OwnInv(n)
  PROVE  OwnInv(n)'
<1>1. base \in Ports /\ (race[Own].stage = "won" => race[Own].url \in Ports)
  BY Constant DEF FormInv, TypeOK, RaceInv
<1>2. Spent(n)' /\ (Spent(n + 1) => Spent(n + 1)')
  BY SpentKept DEF OwnInv
<1>3. Answers(base) => Answers(base)'
  BY <1>1 DEF Answers
<1>4. race[Own].stage = "won" => Answers(race[Own].url)'
  BY <1>1 DEF OwnInv, Answers
<1> QED
  BY <1>2, <1>3, <1>4 DEF OwnInv

LEMMA OwnInvKept ==
  ASSUME FewCallers, FormInv, ~race[Own].test, [Next]_vars, ~Send, ~RequestStep,
         request.steady, Settled, request'.steady, NEW n \in Int, OwnInv(n)
  PROVE  OwnInv(n)'
<1>1. /\ Stale' \subseteq Stale /\ Settled'
      /\ \A p \in Ports : Answers(p) => Answers(p)'
  BY SteadyStep
<1>2. /\ request \in Request /\ race \in [Resolutions -> Race] /\ base \in Ports
      /\ (race[Own].stage \notin {"off", "init"} => race[Own].url \in Ports)
  BY Constant DEF FormInv, TypeOK, RaceInv
<1>3. Spent(n)' /\ (Spent(n + 1) => Spent(n + 1)')
  BY <1>1, SpentKept DEF OwnInv
<1>4. CASE UNCHANGED <<base, race[Own], request.found>>
  BY <1>1, <1>4, OwnInvFrame
<1>5. ASSUME NEW i \in Callers, Apply(i) PROVE OwnInv(n)'
  <2>1. /\ base' = race[i].url /\ race[i].stage = "won" /\ UNCHANGED <<world, request>>
        /\ race'[i].stage = "save" /\ race'[Own] = race[Own] /\ i \in Resolutions
    BY <1>2, <1>5, Constant DEF Apply, Resolutions, Race
  <2>2. CASE Answers(race[i].url)
    <3>1. Answers(base)'
      BY <2>1, <2>2 DEF Answers, world
    <3>2. race[Own].stage = "won" => Answers(race[Own].url)'
      BY <1>1, <1>2, <2>1 DEF OwnInv, Answers, world
    <3> QED
      BY <1>3, <2>1, <3>1, <3>2 DEF OwnInv
  <2>3. CASE ~Answers(race[i].url)
    <3>1. i \in Stale /\ i \notin Stale'
      BY <2>1, <2>3 DEF Stale
    <3>2. Spent(n + 1)'
      BY <1>1, <3>1, SpentOne DEF OwnInv
    <3>3. race[Own].stage = "won" => Answers(race[Own].url)'
      BY <1>1, <1>2, <2>1 DEF OwnInv, Answers, world
    <3> QED
      BY <1>3, <2>1, <3>2, <3>3 DEF OwnInv
  <2> QED
    BY <2>2, <2>3
<1>6. CASE RaceStep(Own)
  <2>1. CASE StartRace(Own)
    BY <1>2, <1>3, <2>1, Constant DEF StartRace, OwnInv, Race
  <2>2. CASE Win(Own)
    <3>1. PICK p \in Candidates(Own) :
            /\ Answers(p)
            /\ race' = [race EXCEPT ![Own].stage = "won", ![Own].url = p]
      BY <2>2 DEF Win
    <3>2. race'[Own].stage = "won" /\ race'[Own].url = p /\ UNCHANGED world
      BY <1>2, <2>2, <3>1, Constant DEF Win, Race
    <3>3. Answers(race[Own].url)'
      BY <3>1, <3>2 DEF Answers, world
    <3> QED
      BY <1>3, <3>2, <3>3 DEF OwnInv
  <2>3. CASE NoneWins(Own)
    <3>1. ~EndRace(Own, FALSE, FALSE)
      BY <1>2 DEF EndRace, Request
    <3> QED
      BY <2>3, <3>1, SettledAnswers DEF NoneWins
  <2>4. CASE Apply(Own)
    <3>1. /\ race'[Own].stage = "save" /\ base' = race[Own].url /\ UNCHANGED world
          /\ race[Own].stage = "won"
      BY <1>2, <2>4, Constant DEF Apply, Race
    <3>2. Answers(base)'
      BY <3>1 DEF OwnInv, Answers, world
    <3> QED
      BY <1>3, <3>1, <3>2 DEF OwnInv
  <2>5. CASE Saved(Own)
    <3>1. /\ race[Own].stage = "save" /\ UNCHANGED <<world, base>>
          /\ race'[Own].stage = "off" /\ request'.found
      BY <1>2, <2>5, Constant DEF Saved, EndRace, NoRace, Request
    <3>2. Answers(base) => Answers(base)'
      BY <3>1 DEF Answers, world
    <3> QED
      BY <1>3, <3>1, <3>2 DEF OwnInv
  <2> QED
    BY <1>6, <2>1, <2>2, <2>3, <2>4, <2>5 DEF RaceStep
<1>7. ASSUME NEW i \in Callers, \/ ResolveUrl(i) \/ ForceResolve(i) \/ TestUrl(i)
                                \/ StartRace(i) \/ Win(i)
      PROVE  UNCHANGED <<base, race[Own], request.found>>
  BY <1>2, <1>7, Constant DEF ResolveUrl, ForceResolve, TestUrl, Begin, StartRace, Win
<1>8. ASSUME NEW i \in Callers, NoneWins(i) \/ Saved(i)
      PROVE  UNCHANGED <<base, race[Own], request.found>>
  BY <1>2, <1>8, Constant DEF NoneWins, Saved, EndRace, Request
<1>9. CASE \/ \E s \in Servers : Start(s) \/ ServerStep(s)
           \/ \E p \in Ports : Die(p) \/ KillOnPort(p)
           \/ Stop
  BY <1>4, <1>9, ServerStays
<1>10. CASE UNCHANGED vars
  BY <1>4, <1>10 DEF vars
<1> QED
  BY <1>4, <1>5, <1>6, <1>7, <1>8, <1>9, <1>10 DEF Next, RaceStep, Resolutions

LEMMA NextOwnTest == FormInv /\ ~race[Own].test /\ [Next]_vars => ~race'[Own].test
<1> SUFFICES ASSUME FormInv, ~race[Own].test, [Next]_vars PROVE ~race'[Own].test
  OBVIOUS
<1>1. race \in [Resolutions -> Race]
  BY DEF FormInv, TypeOK
<1>2. ASSUME NEW i \in Resolutions, Begin(i) \/ StartRace(i) \/ Win(i) \/ Apply(i)
      PROVE  ~race'[Own].test
  BY <1>1, <1>2, Constant DEF Begin, StartRace, Win, Apply, Race
<1>3. ASSUME NEW i \in Resolutions, NoneWins(i) \/ Saved(i)
      PROVE  ~race'[Own].test
  <2>1. race' = [race EXCEPT ![i] = NoRace]
    BY <1>3 DEF NoneWins, Saved, EndRace
  <2> QED
    BY <1>1, <2>1, Constant DEF NoRace
<1>4. ASSUME NEW i \in Callers, TestUrl(i) PROVE ~race'[Own].test
  BY <1>1, <1>4, Constant DEF TestUrl
<1>5. CASE UNCHANGED race
  BY <1>5
<1>6. Send \/ RequestStep => UNCHANGED race \/ Begin(Own)
  BY DEF Send, RequestStep, Answered, NetworkError, Resume, Retry, Recover
<1>7. (\E s \in Servers : Start(s) \/ ServerStep(s)) \/ Stop => UNCHANGED race
  BY DEF Start, ServerStep, Check, Listen, Stop
<1>8. (\E p \in Ports : Die(p) \/ KillOnPort(p)) => UNCHANGED race
  BY DEF Die, KillOnPort
<1>9. CASE \E i \in Resolutions : RaceStep(i)
  BY <1>2, <1>3, <1>9 DEF RaceStep
<1>10. CASE \E i \in Callers : ResolveUrl(i) \/ ForceResolve(i) \/ TestUrl(i)
  BY <1>2, <1>4, <1>10 DEF ResolveUrl, ForceResolve, Resolutions
<1>11. CASE Send \/ RequestStep
  BY <1>2, <1>5, <1>6, <1>11, Constant
<1>12. CASE UNCHANGED vars
  BY <1>5, <1>12 DEF vars
<1> QED
  BY <1>5, <1>7, <1>8, <1>9, <1>10, <1>11, <1>12 DEF Next

(* The steps of a steady request. *)
LEMMA RequestBudget ==
  ASSUME FewCallers, FindInv, [Next]_vars, RequestStep, request'.steady
  PROVE  /\ request'.stage \notin {"failed", "error"}
         /\ BudgetInv'
<1>1. /\ FormInv /\ request \in Request /\ race \in [Resolutions -> Race] /\ Pending
      /\ request.url \in Ports /\ base \in Ports /\ request.tries \in 0..MaxRetries
      /\ ~Send
  BY DEF FindInv, FormInv, TypeOK, UrlInv, RequestStep, Answered, NetworkError, Resume,
         Pending, Send, Request
<1>2. request.steady /\ Settled
  <2>1. CASE Answered
    BY <1>1, <2>1 DEF Answered, EndRequest, NoRequest, FindInv, BudgetInv, Request
  <2>2. CASE NetworkError
    BY <1>1, <2>2 DEF NetworkError, Retry, Recover, EndRequest, NoRequest, CountTry,
                      FindInv, BudgetInv, Request
  <2>3. CASE Resume
    BY <1>1, <2>3 DEF Resume, Retry, Recover, EndRequest, NoRequest, CountTry,
                      FindInv, BudgetInv, Request
  <2> QED
    BY <2>1, <2>2, <2>3 DEF RequestStep
<1>3. /\ Settled' /\ Stale' \subseteq Stale
      /\ \A p \in Ports : Answers(p) => Answers(p)'
  BY <1>1, <1>2, SteadyStep
<1>4. \A n \in Int : Spent(n) => Spent(n)'
  BY <1>3, SpentKept
<1>5. /\ request.stage = "sent" =>
           Answers(request.url) \/ Spent(2 * request.tries + (IF request.again THEN 1 ELSE 0))
      /\ request.stage = "resend" => OwnInv(2 * request.tries)
      /\ request.stage = "retry" => request.tries > 0 /\ OwnInv(2 * request.tries - 1)
  BY <1>1, <1>2 DEF FindInv, BudgetInv
<1>6. ASSUME NEW r \in Request, NEW stage \in {"resend", "retry"}, Recover(r, stage)
      PROVE  /\ request'.stage = stage /\ request'.tries = r.tries
             /\ \A n \in Int : Spent(n) => OwnInv(n)'
  <2>1. race'[Own].stage = "init"
    BY <1>1, <1>6, Constant DEF Recover, Begin, Race
  <2> QED
    BY <1>4, <1>6, <2>1 DEF Recover, OwnInv, Request
<1>7. CASE Answered
  <2>1. holder[request.url] \in Servers
    BY <1>2, <1>1, <1>7 DEF Answered, Settled, Answers
  <2>2. request'.stage = "ok"
    BY <1>7, <2>1 DEF Answered, EndRequest, NoRequest
  <2> QED
    BY <2>2 DEF BudgetInv, Pending
<1>8. CASE NetworkError
  <2>1. PICK r \in {request, [request EXCEPT !.steady = FALSE]} :
          /\ IF r = request THEN ~Answers(request.url) /\ UNCHANGED used ELSE Event
          /\ IF r.again THEN Retry(r) ELSE Recover(r, "resend")
    BY <1>8 DEF NetworkError
  <2>2. r \in Request /\ (r = request \/ ~r.steady)
    BY <1>1, <2>1 DEF Request
  <2>3. r = request
    BY <2>1, <2>2 DEF Retry, Recover, EndRequest, NoRequest, CountTry, Request
  <2>4. ~Answers(request.url) /\ request.stage = "sent"
    BY <1>8, <2>1, <2>3 DEF NetworkError
  <2>5. CASE ~request.again
    <3>0. 2 * request.tries + 0 = 2 * request.tries
      BY <1>1, BoundsAssumption
    <3>1. Recover(request, "resend") /\ Spent(2 * request.tries)
      BY <1>5, <2>1, <2>3, <2>4, <2>5, <3>0
    <3>2. request'.stage = "resend" /\ OwnInv(2 * request.tries)' /\ request'.tries = request.tries
      BY <1>1, <1>6, <3>1
    <3> QED
      BY <1>3, <3>2 DEF BudgetInv
  <2>6. CASE request.again
    <3>1. Retry(request) /\ Spent(2 * request.tries + 1)
      BY <1>5, <2>1, <2>3, <2>4, <2>6
    <3>2. MayRetry(request)
      <4>1. Cardinality(Stale) \in Nat /\ Cardinality(Callers) \in Nat
        BY FS_Subset, FS_CardinalityType DEF FewCallers, Stale
      <4>2. 2 * request.tries + 1 <= 2 * MaxRetries
        BY <1>1, <3>1, <4>1, BoundsAssumption DEF FewCallers, Spent
      <4> QED
        BY <1>1, <4>2, BoundsAssumption DEF MayRetry
    <3>3. /\ CountTry(request) \in Request /\ CountTry(request).tries = request.tries + 1
          /\ Recover(CountTry(request), "retry")
      BY <1>1, <3>1, <3>2, BoundsAssumption DEF Retry, MayRetry, CountTry, Request
    <3>4. PICK n \in Int : n = 2 * request.tries + 1
      BY <1>1, BoundsAssumption
    <3>5. /\ request'.stage = "retry" /\ request'.tries = request.tries + 1
          /\ OwnInv(n)'
      BY <1>6, <3>1, <3>3, <3>4
    <3>6. n = 2 * request'.tries - 1 /\ request'.tries > 0
      BY <1>1, <3>4, <3>5, BoundsAssumption
    <3>7. OwnInv(2 * request.tries - 1)'
      BY <3>5, <3>6
    <3> QED
      BY <1>3, <3>5, <3>6, <3>7 DEF BudgetInv
  <2> QED
    BY <2>5, <2>6
<1>9. CASE Resume
  <2>1. race[Own].stage = "off" /\ request.stage \in {"resend", "retry"} /\ UNCHANGED <<world, base>>
    BY <1>9 DEF Resume
  <2>2. request.found
    BY <1>5, <2>1 DEF OwnInv
  <2>3. request' = [request EXCEPT !.stage = "sent", !.url = base, !.found = FALSE,
                                   !.again = (request.stage = "resend")]
    BY <1>9, <2>2 DEF Resume
  <2>4. /\ request'.stage = "sent" /\ request'.url = base
        /\ request'.tries = request.tries /\ request'.again = (request.stage = "resend")
    BY <1>1, <2>3 DEF Request
  <2>5. Answers(base) \/ Spent(2 * request.tries + (IF request'.again THEN 1 ELSE 0))
    <3>1. CASE request.stage = "resend"
      BY <1>5, <2>1, <2>4, <3>1 DEF OwnInv
    <3>2. CASE request.stage = "retry"
      <4>1. (2 * request.tries - 1) + 1 = 2 * request.tries + 0
        BY <1>1, BoundsAssumption
      <4> QED
        BY <1>5, <2>1, <2>4, <3>2, <4>1 DEF OwnInv
    <3> QED
      BY <2>1, <3>1, <3>2
  <2>6. Answers(base) => Answers(request.url)'
    BY <2>1, <2>4 DEF Answers, world
  <2>7. 2 * request.tries + (IF request'.again THEN 1 ELSE 0) \in Int
    BY <1>1, BoundsAssumption
  <2>8. Answers(request.url)' \/ Spent(2 * request.tries + (IF request.again THEN 1 ELSE 0))'
    BY <1>4, <2>4, <2>5, <2>6, <2>7
  <2> QED
    BY <1>3, <2>4, <2>8 DEF BudgetInv
<1> QED
  BY <1>7, <1>8, <1>9 DEF RequestStep

LEMMA NextFindInv == ASSUME FewCallers, FindInv, [Next]_vars PROVE FindInv'
<1>1. FormInv' /\ ~race'[Own].test
  BY NextFormInv, NextOwnTest DEF FindInv
<1> SUFFICES /\ request'.steady => request'.stage \notin {"failed", "error"}
             /\ BudgetInv'
  BY <1>1 DEF FindInv, RequestFindsServer
<1>2. /\ FormInv /\ request \in Request /\ request'.steady \in BOOLEAN
      /\ request.tries \in Nat
  BY <1>1, BoundsAssumption DEF FindInv, FormInv, TypeOK, Request
<1>3. CASE ~request'.steady
  BY <1>3 DEF BudgetInv
<1>4. CASE Send
  <2>1. /\ UNCHANGED <<world, race>> /\ request'.steady = Settled
        /\ request'.stage = "sent" /\ request'.tries = 0 /\ request'.again = FALSE
    BY <1>4, EmptyTypes DEF Send, NoRequest, Request
  <2>2. Stale' \subseteq Stale
    BY <2>1 DEF Stale, Answers, world
  <2>3. Spent(0)'
    BY <2>2, SpentKept, SpentNothing
  <2>4. 2 * request'.tries + (IF request'.again THEN 1 ELSE 0) = 0
    BY <2>1
  <2>5. Spent(2 * request.tries + (IF request.again THEN 1 ELSE 0))'
    BY <2>3, <2>4
  <2>6. Settled' = Settled
    BY <2>1 DEF Settled, Listed, world
  <2> QED
    BY <2>1, <2>5, <2>6 DEF BudgetInv
<1>5. CASE RequestStep /\ request'.steady
  BY <1>5, RequestBudget
<1>6. CASE ~Send /\ ~RequestStep /\ request'.steady
  <2>1. Waits
    BY <1>2, <1>6, OthersWait
  <2>2. request.steady /\ request'.stage \notin {"failed", "error"}
    BY <1>6, <2>1 DEF Waits, FindInv, RequestFindsServer
  <2>3. CASE ~Pending
    BY <2>1, <2>2, <2>3 DEF Waits, BudgetInv, Pending
  <2>4. CASE Pending
    <3>1. Settled /\ request.url \in Ports
      BY <1>2, <2>2, <2>4 DEF FindInv, BudgetInv, FormInv, UrlInv
    <3>2. /\ Settled' /\ Stale' \subseteq Stale
          /\ \A p \in Ports : Answers(p) => Answers(p)'
      BY <1>2, <1>6, <2>2, <3>1, SteadyStep
    <3>3. PICK n \in Int : n = 2 * request.tries + (IF request.again THEN 1 ELSE 0)
      BY <1>2
    <3>4. PICK m \in Int : m = 2 * request.tries
      BY <1>2
    <3>5. PICK k \in Int : k = 2 * request.tries - 1
      BY <1>2
    <3>6. CASE request.stage = "sent"
      <4>1. Answers(request.url) \/ Spent(n)
        BY <2>2, <2>4, <3>3, <3>6 DEF FindInv, BudgetInv
      <4>2. Answers(request.url)' \/ Spent(n)'
        BY <2>1, <3>1, <3>2, <4>1, SpentKept DEF Waits, Answers
      <4>3. n = 2 * request'.tries + (IF request'.again THEN 1 ELSE 0)
        BY <2>1, <3>3 DEF Waits
      <4>4. Answers(request.url)' \/ Spent(2 * request.tries + (IF request.again THEN 1 ELSE 0))'
        BY <4>2, <4>3
      <4> QED
        BY <2>1, <2>2, <3>2, <3>6, <4>4 DEF Waits, BudgetInv
    <3>7. CASE request.stage = "resend"
      <4>1. OwnInv(m)'
        BY <1>2, <1>6, <2>2, <2>4, <3>1, <3>4, <3>7, OwnInvKept DEF FindInv, BudgetInv
      <4>2. m = 2 * request'.tries
        BY <2>1, <3>4 DEF Waits
      <4>3. OwnInv(2 * request.tries)'
        BY <4>1, <4>2
      <4> QED
        BY <2>1, <2>2, <3>2, <3>7, <4>3 DEF Waits, BudgetInv
    <3>8. CASE request.stage = "retry"
      <4>1. OwnInv(k)' /\ request.tries > 0
        BY <1>2, <1>6, <2>2, <2>4, <3>1, <3>5, <3>8, OwnInvKept DEF FindInv, BudgetInv
      <4>2. k = 2 * request'.tries - 1 /\ request'.tries > 0
        BY <2>1, <3>5, <4>1 DEF Waits
      <4>3. OwnInv(2 * request.tries - 1)'
        BY <4>1, <4>2
      <4> QED
        BY <2>1, <2>2, <3>2, <3>8, <4>2, <4>3 DEF Waits, BudgetInv
    <3> QED
      BY <2>4, <3>6, <3>7, <3>8 DEF Pending
  <2> QED
    BY <2>2, <2>3, <2>4
<1> QED
  BY <1>2, <1>3, <1>4, <1>5, <1>6

(* While no more than twice maxRetries other resolutions are in flight, a  *)
(* request finds a server that is up on a port listed for its platform, in *)
(* spite of whatever stale URL each of them applies: the interceptor and   *)
(* _withRetry have that many attempts to spare.                            *)
THEOREM RequestsFindServers ==
  ASSUME FewCallers
  PROVE  Spec => []RequestFindsServer
<1>1. Init => FindInv
  <2> SUFFICES ASSUME Init PROVE FindInv
    OBVIOUS
  <2>1. FormInv
    BY InitFormInv
  <2>2. ~race[Own].test /\ request.stage = "ok"
    BY Constant DEF Init, NoRace, NoRequest
  <2> QED
    BY <2>1, <2>2 DEF FindInv, RequestFindsServer, BudgetInv, Pending
<1>2. FindInv /\ [Next]_vars => FindInv'
  BY NextFindInv
<1>3. FindInv => RequestFindsServer
  BY DEF FindInv
<1> QED
  BY <1>1, <1>2, <1>3, PTL DEF Spec

-----------------------------------------------------------------------------
(* What of BootEnds and RequestEnds holds without fairness: nothing stands *)
(* in the way of the next step, and every step brings the end nearer.      *)

(* How many steps bootstrap has left at most. *)
BootLeft(s) ==
  CASE boot[s].stage = "check" -> Attempts + 2
    [] boot[s].stage = "listen" -> Attempts + 1 - boot[s].attempt
    [] OTHER -> 0

BootPending(s) == boot[s].stage \in {"check", "listen"}

LEMMA BootShortens ==
  ASSUME FormInv, [Next]_vars, NEW s \in Servers, BootPending(s)
  PROVE  BootLeft(s) \in 1..(Attempts + 2) /\ (boot'[s] = boot[s] \/ BootLeft(s)' < BootLeft(s))
<1>1. /\ boot[s].stage \in {"check", "listen"} /\ boot[s].attempt \in 0..Attempts
      /\ Attempts \in Nat \ {0} /\ boot \in [Servers -> Boot]
  BY PortsAssumption DEF BootPending, FormInv, TypeOK, Boot
<1>2. BootLeft(s) \in 1..(Attempts + 2)
  BY <1>1 DEF BootLeft
<1>3. ASSUME boot'[s].stage \in {"up", "exit", "failed"} PROVE BootLeft(s)' < BootLeft(s)
  BY <1>2, <1>3 DEF BootLeft
<1>4. CASE Check(s)
  <2>1. boot'[s].stage \in {"exit", "failed"} \/ boot'[s] = [stage |-> "listen", attempt |-> 0]
    BY <1>1, <1>4 DEF Check, BootTo
  <2> QED
    BY <1>1, <1>3, <1>4, <2>1 DEF Check, BootLeft
<1>5. CASE Listen(s)
  <2>1. \/ boot'[s].stage \in {"up", "failed"}
        \/ /\ boot[s].attempt < Attempts
           /\ boot'[s] = [stage |-> "listen", attempt |-> boot[s].attempt + 1]
    BY <1>1, <1>5 DEF Listen, BootTo, NextAttempt
  <2> QED
    BY <1>1, <1>3, <1>5, <2>1 DEF Listen, BootLeft
<1>6. ASSUME NEW p \in Ports, Die(p) \/ KillOnPort(p)
      PROVE  boot'[s] = boot[s] \/ boot'[s].stage = "exit"
  BY <1>6 DEF Die, KillOnPort, Killed
<1>7. ASSUME NEW t \in Servers, t # s, Start(t) \/ ServerStep(t)
      PROVE  boot'[s] = boot[s]
  BY <1>1, <1>7 DEF Start, ServerStep, Check, Listen, BootTo
<1>8. ~Start(s)
  BY <1>1 DEF Start
<1>9. \/ boot' = boot
      \/ \E t \in Servers : Start(t) \/ ServerStep(t)
      \/ \E p \in Ports : Die(p) \/ KillOnPort(p)
  BY DEF Next, Stop, Send, RequestStep, Answered, NetworkError, Resume, ResolveUrl,
         ForceResolve, TestUrl, RaceStep, StartRace, Win, NoneWins, Apply, Saved, world, vars
<1> QED
  BY <1>2, <1>3, <1>4, <1>5, <1>6, <1>7, <1>8, <1>9 DEF ServerStep

(* A server that starts checks once and tries each port once, whatever     *)
(* comes up, dies or is stopped around it: it takes at most Attempts + 2   *)
(* steps before it listens, exits or fails.                                *)
THEOREM BootsRunOut ==
  Spec => [][\A s \in Servers : BootPending(s) =>
               /\ BootLeft(s) \in 1..(Attempts + 2)
               /\ boot'[s] = boot[s] \/ BootLeft(s)' < BootLeft(s)]_vars
<1>1. FormInv /\ [Next]_vars =>
        [\A s \in Servers : BootPending(s) =>
           /\ BootLeft(s) \in 1..(Attempts + 2)
           /\ boot'[s] = boot[s] \/ BootLeft(s)' < BootLeft(s)]_vars
  BY BootShortens
<1> QED
  BY <1>1, InitFormInv, NextFormInv, PTL DEF Spec

(* How many steps of its own a request has left at most: four for each     *)
(* attempt of _withRetry.                                                  *)
RequestLeft ==
  4 * (MaxRetries - request.tries) +
    CASE request.stage = "retry" -> 4
      [] request.stage = "sent" /\ ~request.again -> 3
      [] request.stage = "resend" -> 2
      [] OTHER -> 1

(* The request's own resolution runs only while the request waits for it,  *)
(* so that it can always be started.                                       *)
OwnWaited == race[Own].stage # "off" => request.stage \in {"resend", "retry"}

(* What a step of the request amounts to. *)
SameRequest == /\ request'.stage = request.stage /\ request'.tries = request.tries
               /\ request'.again = request.again /\ request'.url = request.url

LEMMA RetryShortens ==
  ASSUME FormInv, NEW r \in Request, Retry(r), request.tries = r.tries,
         request.stage = "resend" \/ (request.stage = "sent" /\ request.again),
         race[Own].stage = "off"
  PROVE  OwnWaited' /\ (Pending' => RequestLeft' < RequestLeft)
<1>1. CASE MayRetry(r) /\ Recover(CountTry(r), "retry")
  <2>1. request'.stage = "retry" /\ request'.tries = r.tries + 1 /\ r.tries \in Nat
    BY <1>1, BoundsAssumption DEF Recover, CountTry, Request
  <2> QED
    BY <2>1, BoundsAssumption DEF RequestLeft, OwnWaited
<1>2. CASE EndRequest(r, "failed") /\ UNCHANGED <<inFlight, race>>
  BY <1>2 DEF EndRequest, NoRequest, Pending, OwnWaited
<1> QED
  BY <1>1, <1>2 DEF Retry

LEMMA RequestStepShortens ==
  ASSUME FormInv, OwnWaited, RequestStep
  PROVE  OwnWaited' /\ (Pending' => RequestLeft' < RequestLeft)
<1>1. request \in Request /\ request.tries \in Nat /\ request.again \in BOOLEAN
  BY BoundsAssumption DEF FormInv, TypeOK, Request
<1>2. CASE Answered
  <2>1. PICK stage \in {"ok", "error"} : EndRequest(request, stage)
    BY <1>2 DEF Answered
  <2>2. request'.stage = stage
    BY <2>1 DEF EndRequest, NoRequest
  <2>3. race' = race /\ request.stage = "sent"
    BY <1>2 DEF Answered
  <2> QED
    BY <2>2, <2>3 DEF Pending, OwnWaited
<1>3. CASE NetworkError
  <2>1. PICK r \in {request, [request EXCEPT !.steady = FALSE]} :
          IF r.again THEN Retry(r) ELSE Recover(r, "resend")
    BY <1>3 DEF NetworkError
  <2>2. /\ r \in Request /\ r.tries = request.tries /\ r.again = request.again
        /\ request.stage = "sent" /\ race[Own].stage = "off"
    BY <1>1, <1>3 DEF NetworkError, Request, OwnWaited
  <2>3. CASE r.again
    BY <2>1, <2>2, <2>3, RetryShortens
  <2>4. CASE ~r.again
    <3>1. request'.stage = "resend" /\ request'.tries = request.tries
      BY <2>1, <2>2, <2>4 DEF Recover, Request
    <3> QED
      BY <1>1, <2>2, <2>4, <3>1, BoundsAssumption DEF RequestLeft, OwnWaited
  <2> QED
    BY <2>3, <2>4
<1>4. CASE Resume
  <2>1. request.stage \in {"resend", "retry"} /\ race[Own].stage = "off"
    BY <1>4 DEF Resume
  <2>2. CASE request.stage = "resend" /\ Retry(request)
    BY <1>1, <2>1, <2>2, RetryShortens
  <2>3. CASE /\ request' = [request EXCEPT !.stage = "sent", !.url = base, !.found = FALSE,
                                      !.again = (request.stage = "resend")]
             /\ UNCHANGED <<inFlight, race>>
    <3>1. /\ request'.stage = "sent" /\ request'.tries = request.tries
          /\ request'.again = (request.stage = "resend")
      BY <1>1, <2>3 DEF Request
    <3>2. OwnWaited'
      BY <2>1, <2>3 DEF OwnWaited
    <3>3. CASE request.stage = "resend"
      <4>1. /\ RequestLeft = 4 * (MaxRetries - request.tries) + 2
            /\ RequestLeft' = 4 * (MaxRetries - request.tries) + 1
        BY <3>1, <3>3 DEF RequestLeft
      <4> QED
        BY <1>1, <3>2, <4>1, BoundsAssumption
    <3>4. CASE request.stage = "retry"
      BY <1>1, <3>1, <3>2, <3>4, BoundsAssumption DEF RequestLeft
    <3> QED
      BY <2>1, <3>2, <3>3, <3>4
  <2> QED
    BY <1>4, <2>2, <2>3 DEF Resume
<1> QED
  BY <1>2, <1>3, <1>4 DEF RequestStep

LEMMA RequestShortens ==
  ASSUME FormInv, OwnWaited, [Next]_vars
  PROVE  OwnWaited' /\ (Pending /\ Pending' => SameRequest \/ RequestLeft' < RequestLeft)
<1>1. CASE RequestStep
  BY <1>1, RequestStepShortens
<1>2. CASE Send
  BY <1>2 DEF Send, OwnWaited, Pending
<1>3. ASSUME UNCHANGED race, request' = request \/ Unsettled
      PROVE  OwnWaited' /\ SameRequest
  BY <1>3 DEF Unsettled, OwnWaited, SameRequest, FormInv, TypeOK, Request
<1>4. ASSUME NEW i \in Resolutions, RaceStep(i)
      PROVE  OwnWaited' /\ SameRequest
  <2>1. SameRequest
    BY <1>4 DEF RaceStep, StartRace, Win, NoneWins, Apply, Saved, EndRace,
                SameRequest, FormInv, TypeOK, Request
  <2>2. race[i].stage # "off"
    BY <1>4 DEF RaceStep, StartRace, Win, NoneWins, Apply, Saved
  <2>3. \A j \in Resolutions \ {i} : race'[j] = race[j]
    BY <1>4 DEF RaceStep, StartRace, Win, NoneWins, Apply, Saved, EndRace, FormInv, TypeOK
  <2> QED
    BY <2>1, <2>2, <2>3, Constant DEF OwnWaited, SameRequest
<1>5. ASSUME NEW i \in Callers, ResolveUrl(i) \/ ForceResolve(i) \/ TestUrl(i)
      PROVE  OwnWaited' /\ SameRequest
  <2>1. request' = request /\ race'[Own] = race[Own]
    BY <1>5, Constant DEF ResolveUrl, ForceResolve, TestUrl, Begin, FormInv, TypeOK, Resolutions
  <2> QED
    BY <2>1 DEF OwnWaited, SameRequest
<1>6. ASSUME \/ \E s \in Servers : Start(s) \/ ServerStep(s)
             \/ \E p \in Ports : Die(p) \/ KillOnPort(p)
             \/ Stop \/ UNCHANGED vars
      PROVE  UNCHANGED race /\ (request' = request \/ Unsettled)
  BY <1>6 DEF Start, ServerStep, Check, Listen, Die, KillOnPort, Stop, vars
<1> QED
  BY <1>1, <1>2, <1>3, <1>4, <1>5, <1>6 DEF Next

(* A request has at most four steps for each attempt of _withRetry, and    *)
(* each of them brings its end nearer: the recovery of the interceptor and *)
(* the retries never start each other over, whatever servers come and go,  *)
(* and whatever other resolutions run.  Nor is it ever held up by its own  *)
(* resolution, which runs only while the request waits for it.             *)
THEOREM RequestsRunOut ==
  Spec => /\ [](Pending => RequestLeft \in 1..(4 * MaxRetries + 4))
          /\ [][Pending /\ Pending' => SameRequest \/ RequestLeft' < RequestLeft]_vars
          /\ [](request.stage = "sent" => race[Own].stage = "off")
<1>1. Init => OwnWaited
  BY Constant DEF Init, OwnWaited, NoRace
<1>2. FormInv /\ OwnWaited /\ [Next]_vars =>
        /\ OwnWaited'
        /\ [Pending /\ Pending' => SameRequest \/ RequestLeft' < RequestLeft]_vars
  BY RequestShortens
<1>3. FormInv => (Pending => RequestLeft \in 1..(4 * MaxRetries + 4))
  <2> SUFFICES ASSUME FormInv, Pending PROVE RequestLeft \in 1..(4 * MaxRetries + 4)
    OBVIOUS
  <2>1. request.tries \in 0..MaxRetries /\ MaxRetries \in Nat
    BY BoundsAssumption DEF FormInv, TypeOK, Request
  <2> QED
    BY <2>1 DEF RequestLeft
<1>4. OwnWaited => (request.stage = "sent" => race[Own].stage = "off")
  BY DEF OwnWaited
<1> QED
  BY <1>1, <1>2, <1>3, <1>4, InitFormInv, NextFormInv, PTL DEF Spec
=============================================================================
