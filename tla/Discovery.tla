------------------------------ MODULE Discovery ------------------------------
(***************************************************************************)
(* How the app finds the server.  On one side bootstrap of main.ts with    *)
(* its fallback ports, and `npm run stop`; on the other ConnectionService, *)
(* which races probes of GET /health over the ports it knows, and the part *)
(* of ApiClient that resolves the URL again when the network fails.        *)
(*                                                                         *)
(* Everything runs on one host, so a URL is known by its port.  A step of  *)
(* the app is what happens between two awaits.                             *)
(***************************************************************************)
EXTENDS Integers

CONSTANTS
  Base,          \* PORT, 3001 by default
  Attempts,      \* FALLBACK_PORT_ATTEMPTS
  ApiPorts,      \* apiPorts of ApiConfig; Base is its default
  StopPorts,     \* the ports that stop-server.js frees
  Servers,       \* runs of the server program
  Foreign,       \* what other programs may hold at first: functions on Ports
  Callers,       \* resolutions in flight at a time, besides the request's own
  MaxRetries,    \* PerformanceConfig.maxRetries
  MaxEvents,     \* bound on what the world does: deaths, stops, errors, slow answers, requests
  None

LastPort == Base + Attempts - 1
Ports == (Base - 1)..LastPort

Own == "own"     \* the resolution of the request under way
Resolutions == Callers \cup {Own}

(* A program that is not ours holds its port, and may answer GET /health   *)
(* with a 200 of its own.                                                  *)
Others == {"mute", "healthy"}

ASSUME PortsAssumption ==
  /\ Base \in Nat \ {0} /\ Attempts \in Nat \ {0}
  /\ Base \in ApiPorts /\ ApiPorts \cup StopPorts \subseteq Ports
ASSUME ForeignAssumption ==
  /\ Foreign \subseteq [Ports -> Others \cup {None}]
  /\ Servers \cap Others = {} /\ None \notin Servers \cup Others
  /\ None \notin Ports /\ None \notin Resolutions
ASSUME BoundsAssumption == MaxRetries \in Nat /\ MaxEvents \in Nat /\ Own \notin Callers

VARIABLES
  platform,  \* "ios", or one whose ports candidateUrls lists; it never changes
  holder,    \* who listens on each port
  boot,      \* where each run of the server is in bootstrap
  stopping,  \* the ports that `npm run stop` still has to free
  inFlight,  \* _resolveFuture
  base,      \* the base URL of Dio; _resolvedUrl and the saved URL follow it
  race,      \* the resolutions
  request,   \* the request of ApiClient that is under way
  used       \* how much of MaxEvents is used

world == <<platform, holder, boot, stopping>>
vars == <<world, inFlight, base, race, request, used>>

Boot == [stage : {"off", "check", "listen", "up", "exit", "failed"}, attempt : 0..Attempts]

(* test: it is testManualUrl.  url: the URL that was typed, or saved, and  *)
(* then the one that answered first.                                       *)
Race == [stage : {"off", "init", "probing", "won", "save"},
         test : BOOLEAN, url : Ports \cup {None}]

(* tries: attempt of _withRetry; again: extra['url_recovered']; found:     *)
(* what its resolution returned; steady: history, see Unsettled.           *)
Request == [stage : {"sent", "resend", "retry", "ok", "failed", "error"},
            url : Ports \cup {None}, tries : 0..MaxRetries,
            again : BOOLEAN, found : BOOLEAN, steady : BOOLEAN]

NoRace == [stage |-> "off", test |-> FALSE, url |-> None]
NoRequest == [stage |-> "ok", url |-> None, tries |-> 0, again |-> FALSE,
              found |-> FALSE, steady |-> FALSE]

(* ApiClient.init takes the URL that an earlier life of the app saved.     *)
Init ==
  /\ platform \in {"ios", "other"}
  /\ holder \in Foreign
  /\ boot = [s \in Servers |-> [stage |-> "off", attempt |-> 0]]
  /\ stopping = {}
  /\ inFlight = None
  /\ base \in Ports
  /\ race = [i \in Resolutions |-> NoRace]
  /\ request = NoRequest
  /\ used = 0

Event == used < MaxEvents /\ used' = used + 1

-----------------------------------------------------------------------------
(* The server: bootstrap and listenWithFallback. *)

BootTo(s, stage, n) == boot' = [boot EXCEPT ![s] = [stage |-> stage, attempt |-> n]]

Start(s) ==
  /\ boot[s].stage = "off"
  /\ BootTo(s, "check", 0)
  /\ UNCHANGED <<platform, holder, stopping, inFlight, base, race, request, used>>

(* isOurApiRunning asks the base port only, tells our API from another by  *)
(* its service id, and gives up after two seconds.  NestFactory.create,    *)
(* which comes next, may fail.                                             *)
Check(s) ==
  /\ boot[s].stage = "check"
  /\ \/ holder[Base] \in Servers /\ BootTo(s, "exit", 0) /\ UNCHANGED used
     \/ holder[Base] \notin Servers /\ BootTo(s, "listen", 0) /\ UNCHANGED used
     \/ holder[Base] \in Servers /\ BootTo(s, "listen", 0) /\ Event
     \/ BootTo(s, "failed", 0) /\ Event
  /\ UNCHANGED <<platform, holder, stopping, inFlight, base, race, request>>

(* The attempt after one that found its port taken. *)
SameAttempt(n) == n
NextAttempt(n) == n + 1

(* One app.listen.  A port that is taken, or refused to the program        *)
(* (EACCES), leads to the next attempt; another error, or no attempt left, *)
(* ends the program.                                                       *)
Listen(s) ==
  LET n == boot[s].attempt IN
  /\ boot[s].stage = "listen"
  /\ \/ /\ BootTo(s, "failed", n) /\ UNCHANGED holder
        /\ IF n = Attempts THEN UNCHANGED used ELSE Event
     \/ /\ n < Attempts /\ holder[Base + n] = None
        /\ BootTo(s, "up", n) /\ holder' = [holder EXCEPT ![Base + n] = s]
        /\ UNCHANGED used
     \/ /\ n < Attempts
        /\ BootTo(s, "listen", NextAttempt(n)) /\ UNCHANGED holder
        /\ IF holder[Base + n] # None THEN UNCHANGED used ELSE Event
  /\ UNCHANGED <<platform, stopping, inFlight, base, race, request>>

(* Something happened that may spoil the request under way. *)
Unsettled == request' = [request EXCEPT !.steady = FALSE]

Free(p) == holder' = [holder EXCEPT ![p] = None]
Killed(p) ==
  boot' = [s \in Servers |-> IF holder[p] = s THEN [stage |-> "exit", attempt |-> 0] ELSE boot[s]]

(* A program ends, ours or another's. *)
Die(p) ==
  /\ holder[p] # None
  /\ Free(p) /\ Killed(p) /\ Unsettled
  /\ Event
  /\ UNCHANGED <<platform, stopping, inFlight, base, race>>

(* npm run stop: taskkill for whoever listens, port after port; where it   *)
(* fails, a warning is all.                                                *)
Stop ==
  /\ stopping = {}
  /\ stopping' = StopPorts
  /\ Unsettled
  /\ Event
  /\ UNCHANGED <<platform, holder, boot, inFlight, base, race>>

KillOnPort(p) ==
  /\ p \in stopping
  /\ stopping' = stopping \ {p}
  /\ \/ Free(p) /\ Killed(p) /\ UNCHANGED used
     \/ UNCHANGED <<holder, boot>> /\ Event
  /\ UNCHANGED <<platform, inFlight, base, race, request>>

-----------------------------------------------------------------------------
(* ConnectionService. *)

(* probe: any answer with status 200 will do. *)
Answers(p) == holder[p] \in Servers \cup {"healthy"}

(* The ports that candidateUrls adds to the saved URL: apiPorts on         *)
(* Android, on the desktop and on the web, and elsewhere, as on iOS,       *)
(* _platformDefault alone.                                                 *)
Listed == IF platform = "ios" THEN {Base} ELSE ApiPorts

(* What a resolution probes: every port it knows; or the saved URL alone.  *)
SavedOnly(i) == {race[i].url}
Candidates(i) == {race[i].url} \cup (IF race[i].test THEN {} ELSE Listed)

Begin(i) ==
  /\ race[i].stage = "off"
  /\ race' = [race EXCEPT ![i].stage = "init"]
  /\ inFlight' = i

(* resolveBestUrl from the login screen or AuthGate.  An answer of the last *)
(* connectionCacheTtl or a resolution in flight serves it without a step;  *)
(* that time may have passed at any moment, so neither _activeUrl nor      *)
(* _lastResolvedAt, which nothing else decides by, is kept here.           *)
ResolveUrl(i) ==
  /\ inFlight = None
  /\ Begin(i)
  /\ UNCHANGED <<world, base, request, used>>

(* With force: true. *)
ForceResolve(i) ==
  /\ Begin(i)
  /\ Event
  /\ UNCHANGED <<world, base, request>>

(* testManualUrl probes the URL that the user typed, and joins nothing.    *)
TestUrl(i) ==
  /\ race[i].stage = "off"
  /\ \E p \in Ports : race' = [race EXCEPT ![i] = [stage |-> "probing", test |-> TRUE, url |-> p]]
  /\ Event
  /\ UNCHANGED <<world, inFlight, base, request>>

(* What follows ApiConfig.init and loadSavedUrl. *)
StartRace(i) ==
  /\ race[i].stage = "init"
  /\ race' = [race EXCEPT ![i].stage = "probing", ![i].url = base]
  /\ UNCHANGED <<world, inFlight, base, request, used>>

(* The first probe that succeeds wins the race. *)
Win(i) ==
  /\ race[i].stage = "probing"
  /\ \E p \in Candidates(i) :
       /\ Answers(p)
       /\ race' = [race EXCEPT ![i].stage = "won", ![i].url = p]
  /\ UNCHANGED <<world, inFlight, base, request, used>>

(* whenComplete clears _resolveFuture, whosever it is by now; or an end    *)
(* that clears it only when a server was found.                            *)
ClearIfFound(found) == inFlight' = IF found THEN None ELSE inFlight
ClearInFlight(found) == inFlight' = None

(* A resolution ends.  The request learns what its own one found; calm is  *)
(* FALSE when answers that came too late ended it.                         *)
EndRace(i, found, calm) ==
  /\ race' = [race EXCEPT ![i] = NoRace]
  /\ IF race[i].test THEN UNCHANGED inFlight ELSE ClearInFlight(found)
  /\ request' = [request EXCEPT !.found = IF i = Own THEN found ELSE @, !.steady = @ /\ calm]

(* No probe succeeds: nothing answers, or the answers come too late.       *)
NoneWins(i) ==
  /\ race[i].stage = "probing"
  /\ \/ /\ \A p \in Candidates(i) : ~Answers(p)
        /\ EndRace(i, FALSE, TRUE) /\ UNCHANGED used
     \/ EndRace(i, FALSE, FALSE) /\ Event
  /\ UNCHANGED <<world, base>>

(* _applyResolved, and saveUrl up to its await. *)
Apply(i) ==
  /\ race[i].stage = "won"
  /\ base' = race[i].url
  /\ race' = [race EXCEPT ![i].stage = "save"]
  /\ UNCHANGED <<world, inFlight, request, used>>

(* The URL is saved. *)
Saved(i) ==
  /\ race[i].stage = "save"
  /\ EndRace(i, TRUE, TRUE)
  /\ UNCHANGED <<world, base, used>>

-----------------------------------------------------------------------------
(* A request of ApiClient: Dio, the interceptor and _withRetry. *)

Pending == request.stage \in {"sent", "resend", "retry"}

(* A server of ours is up on a port that the platform lists, and no        *)
(* stranger answers like it.                                               *)
Settled ==
  /\ \E p \in Listed : holder[p] \in Servers
  /\ \A p \in Ports : holder[p] # "healthy"
  /\ stopping = {}

Send ==
  /\ ~Pending
  /\ request' = [NoRequest EXCEPT !.stage = "sent", !.url = base, !.steady = Settled]
  /\ Event
  /\ UNCHANGED <<world, inFlight, base, race>>

EndRequest(r, stage) == request' = [NoRequest EXCEPT !.stage = stage, !.steady = r.steady]

(* Our server answers; a stranger does in its own way, which is no network *)
(* error and is not retried.                                               *)
Answered ==
  /\ request.stage = "sent" /\ Answers(request.url)
  /\ EndRequest(request, IF holder[request.url] \in Servers THEN "ok" ELSE "error")
  /\ UNCHANGED <<world, inFlight, base, race, used>>

(* _recoverConnection: resolveBestUrl(force: true). *)
Recover(r, stage) ==
  /\ Begin(Own)
  /\ request' = [r EXCEPT !.stage = stage]

(* attempt >= maxRetries ends _withRetry; or one attempt more.             *)
OneTooMany(r) == r.tries <= MaxRetries
MayRetry(r) == r.tries < MaxRetries

(* attempt++; or a loop that forgets it. *)
KeepTries(r) == r
CountTry(r) == [r EXCEPT !.tries = @ + 1]

(* What _withRetry does with a network error. *)
Retry(r) ==
  \/ MayRetry(r) /\ Recover(CountTry(r), "retry")
  \/ /\ ~MayRetry(r)
     /\ EndRequest(r, "failed")
     /\ UNCHANGED <<inFlight, race>>

(* The port does not answer, or not in time.  The interceptor has the      *)
(* first try at it, once for each attempt.                                 *)
NetworkError ==
  /\ request.stage = "sent"
  /\ \E r \in {request, [request EXCEPT !.steady = FALSE]} :
       /\ IF r = request THEN ~Answers(request.url) /\ UNCHANGED used ELSE Event
       /\ IF r.again THEN Retry(r) ELSE Recover(r, "resend")
  /\ UNCHANGED <<world, base>>

(* The resolution has ended.  The interceptor sends again if it found a    *)
(* server; _withRetry makes its next attempt in any case.                  *)
Resume ==
  /\ request.stage \in {"resend", "retry"} /\ race[Own].stage = "off"
  /\ \/ /\ request.found \/ request.stage = "retry"
        /\ request' = [request EXCEPT !.stage = "sent", !.url = base, !.found = FALSE,
                                      !.again = (request.stage = "resend")]
        /\ UNCHANGED <<inFlight, race>>
     \/ request.stage = "resend" /\ ~request.found /\ Retry(request)
  /\ UNCHANGED <<world, base, used>>

-----------------------------------------------------------------------------
ServerStep(s) == Check(s) \/ Listen(s)
RaceStep(i) == StartRace(i) \/ Win(i) \/ NoneWins(i) \/ Apply(i) \/ Saved(i)
RequestStep == Answered \/ NetworkError \/ Resume

Next ==
  \/ \E s \in Servers : Start(s) \/ ServerStep(s)
  \/ \E p \in Ports : Die(p) \/ KillOnPort(p)
  \/ Stop \/ Send \/ RequestStep
  \/ \E i \in Callers : ResolveUrl(i) \/ ForceResolve(i) \/ TestUrl(i)
  \/ \E i \in Resolutions : RaceStep(i)

Spec == Init /\ [][Next]_vars

(* Programs run, and probes, requests and the delays between them are      *)
(* bounded by timeouts.  Nobody has to start, stop or test anything.       *)
FairSpec ==
  /\ Spec
  /\ \A s \in Servers : WF_vars(ServerStep(s))
  /\ \A i \in Resolutions : WF_vars(RaceStep(i))
  /\ WF_vars(RequestStep)

-----------------------------------------------------------------------------
(* The types.  The counter of _withRetry stays within maxRetries.          *)
TypeOK ==
  /\ platform \in {"ios", "other"}
  /\ holder \in [Ports -> Servers \cup Others \cup {None}]
  /\ boot \in [Servers -> Boot]
  /\ stopping \subseteq Ports
  /\ base \in Ports
  /\ inFlight \in Resolutions \cup {None}
  /\ race \in [Resolutions -> Race]
  /\ request \in Request
  /\ used \in 0..MaxEvents

(* A request does not give up while a server of ours is up on a port that  *)
(* candidateUrls lists for the platform: whatever URL the app had saved,   *)
(* and whatever the other resolutions do to the URL, stale as their        *)
(* answers may be, the interceptor and _withRetry lead it there.  Not so   *)
(* when something stops or the network delays an answer meanwhile          *)
(* (steady), nor when a stranger answers GET /health.  A server that fell  *)
(* back to a port that is not listed, the last one, or on iOS any but the  *)
(* default, is outside its reach.                                          *)
RequestFindsServer == request.stage \in {"failed", "error"} => ~request.steady

(* A caller of resolveBestUrl joins a resolution that still runs: no order *)
(* in which forced resolutions overlap leaves one that has ended in        *)
(* _resolveFuture, where it would answer for the rest of the app's life.   *)
JoinsWhatRuns == inFlight # None => race[inFlight].stage # "off"

(* Every start of the server comes to an end: it listens, finds itself     *)
(* running already, or gives up when all its ports are taken.              *)
BootEnds ==
  \A s \in Servers : (boot[s].stage \in {"check", "listen"})
                       ~> (boot[s].stage \in {"up", "exit", "failed"})

(* Every request ends, whatever servers come and go: the recovery of the   *)
(* interceptor and the loop of _withRetry, which call each other's         *)
(* fetches, do not keep each other going.                                  *)
RequestEnds == Pending ~> ~Pending
=============================================================================
