# Verification of the Airtel Money platform

The repository holds a mobile payment platform: a NestJS server
(`backend/`, PostgreSQL through Prisma) and a Flutter app
(`airtel_money_app/`). `ARCHITECTURE.md` describes further services (USSD,
payment, reader) whose code is not in the repository. This directory holds TLA+
models of the parts that carry the program's own logic, the TLC runs that check
them on small instances, and theorems that TLAPS proves for every instance.

## 1. Inventory

### Server

| component | state | operations | correct when |
|---|---|---|---|
| **Transfers** `transactions.service.ts` | `transactions`, `transaction_logs` | `send` (15 awaited round trips), `history` (reads) | a key pays once; the books balance; nobody is overdrawn; no deadlock; an answer is what was committed |
| **Wallets** `wallets.service.ts` | `wallets` | `lockAndGet`, `debit`, `credit`, `getBalance` (reads) | only a transfer changes a balance, under its row lock |
| **Accounts** `auth.service.ts`, `users.service.ts` | `users`, `wallets` | `register` | one account per phone, each with its wallet |
| **Device sessions** `auth.service.ts`, `sessions.service.ts` | `user_sessions` | `login`, `refresh`, `revoke`, `revokeAll`, `listActive` (reads) | revoked stays revoked; new devices are reported; a session lives as long as its token; nobody writes to another's |
| **QR codes** `qr.service.ts` | `qr_codes`, logs | `getMyQr`, `resolve` | a user with a code gets no other; a scan leads to its owner; scans are audited |
| **Audit** `logs.service.ts` | `transaction_logs` | `record` | each stage leaves its log |
| **Start-up** `main.ts`, `stop-server.js` | who listens on each port | `isOurApiRunning`, `listenWithFallback`, `npm run stop` | a start ends: listening, finding itself running, or giving up |
| guards, filters, DTO validation, throttling | none of their own | per request | – |

### App

| component | state | operations | correct when |
|---|---|---|---|
| **Send screens** `send_money_flow.dart` | `_step`, `_data`, `_submitting`, `_idempotencyKey` | five steps, back, submit | a flow pays once; success means paid, and what it says |
| **HTTP client** `api_client.dart`, `airtel_api.dart` | the two tokens (memory, disk), base URL | `get`/`post`/`getList` with retries, token rotation on 401, URL recovery on network errors | a call ends; a session survives the expiry of its access token |
| **Wallet cache** `wallet_store.dart`, `local_data_store.dart`, `in_flight_guard.dart` | owner, balances, history (memory, disk), requests in flight | login, logout, refresh, restore, send | what is shown belongs to who is logged in |
| **Discovery** `connection_service.dart`, `api_config.dart` | active URL, resolution in flight | probe, resolve, manual URL | the server is found when it runs |
| **Scanner** `scan_pay_screen.dart` | `_handled`, `_resolving`, the routes above it | detect, manual entry, resolve, leave | a scan ends at the owner's payment or at a scanner that scans |
| **Notifications**, widgets, themes | lists, layout | synchronous | – |

### Interaction and what is hard about it

* The app calls the server over HTTP with timeouts and two layers of retries
  (the loop of `_withRetry` and the interceptor). A request that timed out may
  still be executed. The idempotency key is what makes this safe.
* The server handles requests concurrently: every `await` lets another request
  run. Atomicity comes from PostgreSQL only: `$transaction` at READ COMMITTED,
  unique indexes, row locks. What is read outside a transaction is stale inside
  it.
* A transaction may fail at any statement, time out (P2028), or lose its commit
  acknowledgement; the process may die with transactions open.
* In the app, callbacks resume after awaits in a world that changed: another
  screen, another step, another user.

`PROJECT.json` lists each hazard at its line with the properties that cover it.

## 2. Modules

| module | models | extends / instantiates |
|---|---|---|
| `Ledger` | the abstract promise about money: whole transfers, once per key, and the books it keeps | – |
| `LedgerProofs` | the theorems about `Ledger` | `Ledger`, `DataLemmas`, TLAPS |
| `Transfers` | `TransactionsService.send` with its wallet, log and Prisma calls | `L == INSTANCE Ledger` |
| `TransfersProofs` | the theorems about `Transfers` | `Transfers`, `DataLemmas`, TLAPS, `B == INSTANCE LedgerProofs` |
| `Auth` | register, login, refresh, revoke, revokeAll | – |
| `SendFlow` | send screens, client retries, network | `Server == INSTANCE Ledger WITH ...` |
| `ClientSession` | tokens, rotation, coalescing, caches, login, logout, start-up of the app | – |
| `QrCodes` | `getMyQr` and `resolve` with their logs, the scanner | – |
| `Discovery` | fallback ports, `npm run stop`, `ConnectionService`, URL recovery of a request | – |
| `AuthProofs`, `SendFlowProofs`, `ClientSessionProofs`, `QrCodesProofs`, `DiscoveryProofs` | the theorems about each | that module, TLAPS; `SendFlowProofs` also `B == INSTANCE LedgerProofs WITH ...` |
| `DataLemmas` | least naturals, induction over finite sets, the rules of sums over them | `Functions`, `FiniteSetTheorems`, `WellFoundedInduction`, TLAPS |
| `MC*` | small instances for TLC | the module they are named after |

`SendFlow` uses the `Ledger` as its server, and `Transfers` is shown to
implement the `Ledger`; so the two halves of a payment, the phone and the
server, are joined through one abstract specification.

### Transfers

A request is a process. `pc[r]` is the place in `send`, one place per awaited
round trip that can see or change something; the logs that are written between
two such places belong to the step they are next to. `balance`, `rows` and
`audit` are the committed tables. What a request has written and not committed
is `status[r]` (its row), `trail[r]` (its logs) and `pending[r]` (its
increments), which is PostgreSQL's visibility rule: others see the committed
value, the request sees its own on top. `lock[u]` is the row lock of u's wallet.

| action | code | |
|---|---|---|
| `Lookup` | 48-54 | outside the transaction; a known key is answered at once |
| `Validate` | 56-73 | own id, limit, unknown receiver; reads the wallets' ids |
| `Begin` | 77-78 | waits for a pool connection |
| `Insert` | 79-99 | waits for an uncommitted row with the same key, P2002 if it is committed |
| `LockFirst`, `LockSecond` | 101-104 | in the order of the wallet ids |
| `CheckBalance` | 106-134 | the refusal rolls back what it wrote |
| `Debit`, `Credit` | 136-138 | UPDATE ... SET balance = balance ± x |
| `Finish`, `Commit`, `Reply` | 140-161 | the commit may be done and not acknowledged |
| `FindDup` | 162-178 | the catch of P2002 |
| `Abort`, `Crash` | | a database error or timeout at any await; the death of the process |

Every user has exactly one wallet (`users.create` makes it and nothing else
does), so a wallet is named by its user. `WalletRank` is the order of the UUIDs
as strings. Amounts are integers: `Decimal(18, 2)` is exact, cents are the
unit; `MaxBalance` is its largest value.

A receiver is a text, and line 57 compares it with the id in the access token,
while the columns it is looked up in are of type uuid, for which capitals make
no difference. `@IsUUID` admits both, so `spelling` tells an id as the server
issues it from another way to write it (`OwnId`). A payer who writes the own id
in capitals is not stopped by "Impossible de se transférer à soi-même": a row
whose sender and receiver are one is committed, debit and credit cancel out, and
the books still balance. `Ledger.Execute` allows it, so that the refinement is
true of the code.

### Auth

A call is a process again. A refresh token is its JWT payload, user and second
of issue, because that is all that distinguishes two tokens the server signs
for a user: two tokens signed in one second are the same string. Argon2 keeps
equality. `sessions` is indexed by the call that created the row. The stages
between reads and writes are those of the code: find the phone, hash, insert in
a transaction; find the session, sign, compute the expiry, hash, write. The
clock (`Tick`) advances between any two steps.

`JWT_REFRESH_EXPIRES_IN` is read twice: jsonwebtoken makes the life of the token
of it, `durationToMs` that of the session. The two agree on a number followed by
s, m, h or d; of any other text ("2w", "30 days") `durationToMs` makes 7 days. A
`Setting` has the life jsonwebtoken reads and whether the text is `plain`.
`SessionServesItsTerm` promises the term as `durationToMs` reads it; with a plain
setting a session therefore outlives its token, and with another it may end days
before it.

New devices are what the server says: the app sends the one constant `deviceId`
of `api_config.dart:57` from every phone, so a second phone is never new to it.
Two first logins on one device that overlap are both told that it is new, which
`NewDeviceIsReported` allows; it forbids the reverse.

### SendFlow

`step`, `amount` and `sending` are `_step`, `_data.amount` and `_submitting` of
one opening of the flow. A submission is a sequence of fetches with one body:
the loop of `_withRetry` makes at most `maxRetries + 1` attempts and the
interceptor repeats each at most once, so `MaxFetches` is 6 in the code; the
runs use 2 and 3, the smallest values at which a retry, and a retry of a retry,
happen. `MaxSends[f]` bounds the fetches of flow f over all its submissions.
`net` holds requests that may be handled at any later time or never, `replies`
answers that may be too late. The sender may go back, edit the amount, resubmit,
or leave and open another flow at any moment.

A refusal ends a submission (`Finish`). After a payment `WalletStore.send` first
awaits `refreshDashboard`, whose requests, `MaxRefresh` at most, are answered,
retried or given up (`Refresh`); it catches every error, so the success is
reported in any case. `_submit` has no `finally` and `send` catches `ApiException`
only: an error of another kind (`Throw`), such as a plugin that fails while a URL
is saved or an answer without `created_at`, leaves `_submitting` set. The PIN
button of that flow then does nothing until the flow is left, which may hide a
payment that was made; nothing in the repository promises otherwise.

### ClientSession

The phone between calls. A piece of data is known by its owner, which is all
that the properties tell apart. `fetch[r]` is the GET of resource r that
`InFlightGuard` holds, with its place in the interceptor of `ApiClient`; `mem`
and `disk` are the two tokens; `shown` and `cached` the data of `WalletStore`
and `LocalDataStore`; `restore`, `sync`, `login` and `logout` the flows that
await. A step is what Dart does between two awaits, so an answer, an expiry or a
kill falls between any two of them.

| action | code |
|---|---|
| `Join`, `Release` | `InFlightGuard.run` |
| `OnDenied` ... `WriteRefresh`, `OnRejected` | the 401 branch of `onError`: rotate, save one key at a time, send again; a second try that fails is treated as a failed rotation |
| `ServeGet`, `FindSession`, `RotateSession` | the server: guard, `findValidSession`, `rotate` (see `Auth`) |
| `Lose` | the network gives up, or a retry is sent with the token of that moment |
| `Complete`, `Save` | fields first, disk later |
| `Boot`, `Restore` ... `RestoreClear`, `RestoreTimeout` | `AuthGate._bootstrap`, `restoreSession` |
| `Login` ... `LoginEnd`, `Sync` | `LoginScreen._submit`, `login`, `_syncAfterLogin` |
| `Refresh` | pull to refresh, on the dashboard or the history |
| `OpenQr` | `MyQrScreen`, which calls `fetchMyQr` |
| `Logout` ... `LogoutEnd` | `logout`, then `AuthGate` again |
| `Clear` | `LocalDataStore.clearAll`, one key at a time, of a logout or a restore |

Whenever `MainShell` appears it asks for the parts of the dashboard that are not
fresh; what is fresh is left open, except that what has no data never is.

The code does not survive every overlap, as the two violated runs show. The
variable `calm` remembers whether one it does not survive has happened (the list
is above `Trouble`), and the `Calm*` properties say what the code guarantees
otherwise. Each item of the list is needed: without it one of the four
properties fails. For instance, a restart on a cache that was only half written,
followed by a restore that fails and gives the session up, leaves the former
user's name in memory for the next login. What overlaps in that way is not
covered by these properties: a refresh that joins or outlives a logout, a restore
that goes on after its time-out, parallel rotations. `NotificationCenter`, which
no logout clears, is not in the model.

### QrCodes

A request is a process again, and its row of the database is named by its
`pay_id`: `code[p]` is the row with that identifier, so that the unique index is
the guard `PayIdIndex`. A signature is a function of the key and the
identifier, so a row keeps the number of the key it was signed with.

| action | code |
|---|---|
| `AskMyQr`, `FindMine`, `FindUser`, `CreateMine` | `getMyQr`: `findFirst` of the newest active code, the user's country, the insert |
| `Scan`, `Read`, `LogResolve` | `resolve`: the format, QR_SCAN, the lookup and its refusals, QR_RESOLVE and the answer |
| `Break`, `Redeploy` | a failed statement; a restart with another `QR_SECRET_KEY` |
| `OpenScan`, `Detect`, `OpenDialog`, `Typed`, `CloseDialog` | `_onDetect`, `_manualEntry` |
| `OnAnswer`, `Retry`, `Timeout`, `Leave` | the rest of `_resolve`, and the loop of `_withRetry` around it |

`country` is any nonempty string for `register.dto.ts:27`, while
`resolve-qr.dto.ts:8` wants two letters: the codes of a user outside `TwoLetter`
are refused as `badFormat`. While the dialog is open, an answer replaces the
dialog and not the scanner (`flowOverScan`); a user who comes back from that
flow finds a scanner that is still `handled` and has to leave it. A code signed
with a former key is refused for good and still handed out. The models have
these, and no property is about them: nothing in the repository promises
otherwise.

### Discovery

One host, so a URL is a port. `holder[p]` is who listens on it, `boot` where
each run of `main.ts` is, `platform` what the app runs on, `race[i]` the
resolutions that are under way, `inFlight` the one in `_resolveFuture`, and
`request` one request of `ApiClient`.

| action | code |
|---|---|
| `Start`, `Check`, `Listen` | `bootstrap`, `isOurApiRunning`, `NestFactory.create`, `listenWithFallback`; any of them may fail |
| `Stop`, `KillOnPort`, `Die` | `stop-server.js`, port by port, where `taskkill` may fail; the end of a program |
| `Listed`, `Candidates` | `candidateUrls`: all of `apiPorts` on Android, desktop and web, the default port elsewhere |
| `ResolveUrl`, `ForceResolve`, `TestUrl` | `resolveBestUrl`, with `force`, `testManualUrl` |
| `StartRace`, `Win`, `NoneWins`, `Apply`, `Saved` | `_resolve`: the probes, `_applyResolved`, `saveUrl`, `whenComplete` |
| `Send`, `Answered`, `NetworkError`, `Resume` | Dio, the network branch of the interceptor, `_withRetry` |

`steady` remembers whether, since the request was sent, a server was up on a port
the platform lists, no stranger answered like it, and nothing stopped or was slow.
Only the base port is checked before a start and `npm run stop` frees three
ports, so an older server may live on beside a new one; the app cannot tell the
two apart, and no property says that there is one. The last fallback port is on
no list, and on iOS only the default is: a server that fell back there is found
by an app that has its URL saved, and by no other.

## 3. Runs

| run | instance | checks |
|---|---|---|
| `transfers_safety` | 3 requests, 3 wallets in a ring, 2 currencies, 3 keys, 9 payloads | `TypeOK`, `NoOverdraft`, `LedgerMatchesRows`, `AnsweredAsSettled`, `NoWaitCycle`, and the refinement `LedgerSpec` |
| `transfers_live` | 3 requests, 2 wallets, 2 keys, pool of 2 | `EveryRequestEnds` |
| `transfers_audit` | as above | `RefusalIsAudited` is violated |
| `auth_safety` | 3 calls, 2 phones, 2 devices, 3 seconds, 2 settings | `TypeOK`, `OneAccountOneWallet`, `NewDeviceIsReported`, `SessionServesItsTerm`, `RevokedStaysRevoked`, `WritesOwnSessions` |
| `sendflow_safety` | 2 flows, 4 and 2 fetches in all, 2 in a submission, 1 in a refresh | `TypeOK`, `OnePaymentPerFlow`, `SuccessIsPaid`, `SubmissionEnds` |
| `sendflow_amount` | 1 flow, 2 amounts, 6 fetches, 3 in a submission, 2 in a refresh | `SuccessShowsThePayment` is violated |
| `client_calm` | 2 users, 4 resources, 2 logins, 4 events | `CalmShowsOwnData`, `CalmStaysLoggedIn`, `CalmLogoutIsFinal`, `CalmDiskIsMemory` |
| `client_live` | 1 user, 2 resources, 1 login, 1 event | `TypeOK`, `StartEnds`, `RequestsEnd` |
| `client_owner` | 2 users, 3 resources, 2 logins, 1 event | `OwnQr` is violated |
| `client_rotation` | 1 user, 1 login, 1 expiry | `SessionSurvivesExpiry` is violated |
| `qr` | 2 users, 2 identifiers, 3 requests, 2 scans, a change of key | `TypeOK`, `PaysWhoShowsIt`, `KeepsHisCode`, `ScansAreAudited`, `ScanEnds` |
| `discovery` | 2 platforms, 2 servers on 2 fallback ports, 1 caller, 1 retry, 2 events | `TypeOK`, `RequestFindsServer`, `JoinsWhatRuns`, `BootEnds`, `RequestEnds` |

**Bounds.** A ring of three payments is the smallest lock cycle that is longer
than a pair; the keys `k1` and `k3` are each carried by different bodies. Alice
can make either of her payments in USD and not both, a credit of her unspent
wallet exceeds `MaxBalance`, and she may pay herself in capitals. A third
request is enough for a duplicate, its original and a stranger to both to
overlap. In `Auth` three calls cover a login, a refresh and a revocation of it,
or three registrations; the life of a token is one or two seconds of three, so
it expires in the middle of things, before its session or after it. Requests,
calls, devices and flows are symmetric in the safety runs; the liveness runs use
no symmetry. In `ClientSession` an event is an expiry, a lost request, a failed
login, a kill, a pull to refresh or a look at the QR code. Four of them cover
two expiries each met by a pull to refresh, or a restart between two; two logins
cover a user and another one. `calm` never becomes true again, so the constraint
`OnlyCalm`, which stops where it becomes false, loses no calm state; this is
what makes that instance small. `client_live` explores all of `Spec`. In
`QrCodes` two identifiers for two users and three requests make a collision and
two first calls of one user overlap; one of the users has a country that is not
two letters. Two scans are a request and its retry, or two scans. In `Discovery`
two fallback ports stand for the five of the code: the app knows the first and
the port below, and not the last, as it knows 3000 to 3004 of 3000 to 3005. Two
servers race for a port, one caller overlaps the resolution of the request, and
two events stop a server and delay an answer, or have a step of either side
fail. One retry stands for the two of the code; one more retry, server, caller
or event does not end in five minutes, and the theorems of section 4 cover them.

**Deadlock.** All runs end by design (each request is made once), so
`CHECK_DEADLOCK FALSE`; that nobody waits forever is `NoWaitCycle` and
`EveryRequestEnds`.

**Fairness.** `Transfers!FairSpec` gives each request weak fairness of its own
steps: Node's event loop resumes a handler whose query returned, and PostgreSQL
grants a free lock. It does not owe a client a call, and nothing forces a
failure. Weak fairness of a waiting request is enough because transactions end
without help from it. `SendFlow!FairSpec` only assumes that a submission is given
an answer or a timeout of Dio for each request it awaits, and
`ClientSession!FairSpec` adds that Dart runs the callbacks that are ready; the
time-out of the restore is not counted on, nor is anything the user does.
`QrCodes!FairSpec` has the server work on what it was asked and the scanner
receive an answer or its last time-out. `Discovery!FairSpec` has programs run
and probes and requests end, as their time-outs make them; nobody has to start,
stop or test anything.

### What the violated properties show

* `transfers_audit`: the comment of `send` promises an audit at each stage, and
  the refusal for lack of funds writes FAILED and TRANSACTION_ERROR in the
  transaction that its own throw rolls back.
* `sendflow_amount`: the back button works while a submission runs. The sender
  submits amount 1, goes back to the amount, makes it 2 and continues to the PIN
  screen; the submission then ends in success, `_nextStep` moves on from that
  screen, and the success screen says 2 was sent. There is one submission and one
  payment, of 1.
* `client_owner`: alice opens `MyQrScreen` and logs out before the answer of
  `GET /qr/my` has come. The logout empties `_qrCache`, the answer fills it again,
  bob logs in and is shown alice's code, so that she is paid in his place. The
  answer of the wallet or of the history refills its field in the same way.
* `client_rotation`: after a login the profile and the wallet are asked for
  together, the access token expires, both are denied and both post the same
  refresh token. The first rotates, stores its new tokens and sends again; the
  second is rejected and clears them. At rest the shell is on screen with no
  session. (In other orders the winner's tokens are stored last and the session
  survives, which is why the property looks at the phone at rest.)

A known limit that `Auth` has and no run is about: `refresh` checks a token and
replaces it in two steps with no condition on the second, and tokens signed in
one second are equal, so a refresh token can be exchanged twice.

## 4. Proofs

For any finite or infinite sets of users, keys, phones, requests and so on, and
any limits and bounds that satisfy the named assumptions of each module:

| module | theorem | says |
|---|---|---|
| `TransfersProofs` | `TypeCorrect` | `Spec => []TypeOK` |
| | `NeverOverdrawn` | `Spec => []NoOverdraft` |
| | `ImplementsLedger` | `Spec => LedgerSpec`, transfers to oneself included |
| | `AnswersAreSettled` | `Spec => []AnsweredAsSettled` |
| | `BooksAreBalanced` | `Spec => []LedgerMatchesRows` |
| | `MoneyIsKept` | `Spec => []L!MoneyIsConserved`, for finitely many users |
| | `PaymentsAreFinal` | no step changes a committed row or its audit |
| | `DeadlockFree` | `Spec => []NoWaitCycle` |
| | `SomebodyGoesOn` | `Spec => []NeverStandsStill`: while a request runs, one can go on |
| | `RequestsRunOut` | each step lowers `Work`, for finitely many requests |
| `LedgerProofs` | `LedgerIsKept` | `Spec => []LedgerInv`, which has `BooksBalance` |
| | `LedgerConserves` | `Spec => []MoneyIsConserved`, for finitely many users |
| `AuthProofs` | `AuthTypeCorrect` | `Spec => []TypeOK` |
| | `AccountsAreUnique` | `Spec => []OneAccountOneWallet` |
| | `RevocationIsFinal` | `Spec => RevokedStaysRevoked` |
| | `SessionsServeTheirTerm` | `Spec => []SessionServesItsTerm`, for any settings |
| | `NewDevicesAreReported` | `Spec => []NewDeviceIsReported` |
| | `CallsWriteOwnSessions` | `Spec => WritesOwnSessions` |
| `SendFlowProofs` | `FlowTypeCorrect` | `Spec => []TypeOK` |
| | `FlowPaysOnce` | `Spec => []OnePaymentPerFlow` |
| | `SuccessMeansPaid` | `Spec => []SuccessIsPaid` |
| | `EachFlowPaysItsAmount` | `Spec => []PaymentsAddUp`: one payment of each flow that has paid, and no other |
| | `RetriesAreBounded` | a submission fetches at most `MaxFetches` times |
| | `SubmissionsRunOut` | what happens to a submission, its refresh included, lowers the requests it has left |
| `ClientSessionProofs` | `ClientTypeCorrect` | `Spec => []TypeOK` |
| | `CalmOwner` | `Spec => []CalmShowsOwnData` |
| | `CalmSession` | `Spec => []CalmStaysLoggedIn` |
| | `CalmLogout` | `Spec => []CalmLogoutIsFinal` |
| | `CalmRestart` | `Spec => []CalmDiskIsMemory` |
| `QrCodesProofs` | `QrTypeCorrect` | `Spec => []TypeOK` |
| | `ScanLeadsToOwner` | `Spec => []PaysWhoShowsIt` |
| | `CodesAreKept` | `Spec => []KeepsHisCode` |
| | `AuditIsComplete` | `Spec => []ScansAreAudited` |
| `DiscoveryProofs` | `DiscoveryTypeCorrect` | `Spec => []TypeOK` |
| | `JoinedResolutionRuns` | `Spec => []JoinsWhatRuns` |
| | `RequestsFindServers` | `Spec => []RequestFindsServer`, assuming `FewCallers` |
| | `BootsRunOut` | each step of a start lowers the steps it has left |
| | `RequestsRunOut` | each step of a request lowers the steps it has left; its resolution can always start |

*Money.* `NoOverdraft` is not inductive: a commit adds `pending`, so one must
know what `pending` can be. `MoneyInv` says, for each request, what its place
implies: the payload it carries and that it passed validation (`DtoInv`), its
row (`StatusInv`), that no other open request has its key and none has committed
it (`KeyInv`), which locks it holds (`LockInv`), what it has written
(`PendingInv`: nothing, the debit, or both halves) and that the funds it checked
are there (`FundsInv`). `FundsInv` survives the steps of others because only a
commit changes a balance, and by `PendingInv` and `LockInv` a commit only
changes wallets its request holds. `ImplementsLedger` follows: a commit is one
`Execute` and every other step a stutter.

*Books.* `LedgerMatchesRows` relates a balance to a sum over the rows of the
whole history. The sum is the fold of the community module `Functions`, and the
provers cannot instantiate an induction theorem over an operator; `DataLemmas`
therefore proves that a finite set has a sum from the set of all its parts that
have one, and derives the rules the books need: an element more, one moved from
a part to the other, an element that got smaller. `LedgerInv` adds to
`BooksBalance` that finitely many keys have been executed, which a behaviour
keeps true of itself, so that `Keys` need not be finite. `Execute` adds one key
to one payer's and one receiver's sum. What is proved of `Ledger` is true of
what implements it: `TransfersProofs` and `SendFlowProofs` instantiate
`LedgerProofs`, discharge its hypotheses (`LedgerConstants`) from their own
assumptions and cite that they implement it. So
`EachFlowPaysItsAmount` speaks of the phone and the ledger together: each flow
that has paid counts once in the recipient's balance.

*Answers.* `SettledInv` adds what is true of the tables: a row that is there is
SUCCESS with the full trail (`RowsInv`), an uncommitted trail is what its stage
has written (`TrailInv`), and every answer given names a committed row
(`AnswerInv`), which stays because rows are never rewritten.

*Deadlock.* `HolderInv` says where a holder of a lock can be. A request that
waits for its second wallet holds its first, one of lower rank; so among
requests waiting for each other the rank of the wallet waited for would grow
for ever, while ranks are bounded by `MaxRank`. The proof takes a member of the
set that waits for the highest rank, and cites the well-foundedness of the
natural numbers for it.

The same order proves that the handler never stands still. A request between its
`Begin` and its end is held up only by another that is; some transaction is
waiting for none (`NoCircle`), and a request outside a transaction only waits
for a connection, which is free when there is no transaction.

*Ends.* Liveness is out of the prover's reach, but a part of each liveness
property needs no fairness: that nobody can be kept from the next step for ever
and that there are finitely many steps. `SomebodyGoesOn` and the theorems named
`...RunOut` prove that part, each with a number that every step lowers: `Work`,
the sum of what each request has left in `Transfers`; the requests of a
submission, its refresh included; the steps of a start and of a request in
`Discovery`, four for each attempt of `_withRetry`. TLC checks the rest.

*Sessions.* The invariant of `Auth` says what each stage of a call knows: which
row it has read or holds the unique index of, and that a row once there is never
removed. A registration that commits is the one holder of its phone, and its
wallet comes with it. A rotation computes the expiry after the token was signed,
so whatever order rotations finish in, each writes an expiry that is a full term
after its own token. A login judges its device by a list that is older than its
row, so what it calls known was there before. `WritesOwnSessions` follows the
user through a call: the token it presents, the row that was found with it, the
token that is signed and answered are all one user's (`OwnTokens`, `OwnTarget`),
and the user of a row never changes, so the update by id writes to a row of that
user.

*A flow.* All requests of a flow carry its one key, so the ledger executes one
of them at most. A reply that says "ok" implies that the row is there, and rows
stay; the success screen is only reached by such a reply.

*The app's session.* `CalmInv` says two things of a calm phone. `OwnedBy(u)`:
every token, request, answer, pending write and datum is one user's, or
nobody's; only a login changes the user, and it starts where nothing is left.
`PhoneInv`: the app is either in use or not. In use (`AwakeInv`) there is a
session in memory and on disk, at most one rotation runs, and where it is says
which of server, memory and disk already has the new token; between rotations
all three agree, so that the next one is accepted, after a restart too. What is
cached is what is shown, except where a write is on its way (`CacheInv`). Not in
use (`AsleepInv`) nothing is in flight, and `StartInv`, `LoginInv` and
`LogoutInv` say what each screen finds on the disk: a whole session, or none.
The troubles that end the calm are the steps that would break this; section 3
shows what happens after two of them.

*Codes.* A row of `qr_codes` is written once, into an identifier that was free.
So what a call has read of it, what was shown to a user and what the scanner was
told all keep naming the same owner. A user who has a code has a newest one
because dates are numbers (`NewestExists`). The audit is proved by counting:
the calls past QR_SCAN are no more than the scans, the answered ones no more
than the resolves, and those between the two logs fit in the difference.

*Discovery.* A forced resolution overwrites `_resolveFuture` and any end clears
it, so it can lose a resolution that runs but never keep one that has ended. For
`RequestsFindServers`: while the request is steady there is a server on a port
listed for the platform, whichever it is, and nothing that listens goes away, so
each resolution that starts then finds a server. An attempt of the request can
only fail because a resolution that won earlier applied a stale URL. Each caller
has at most one such winner and applies it once; each failed fetch but the first
costs one; and two fetches are made per attempt. Hence the assumption
`FewCallers`: no more resolutions overlap than twice the retries, 4 in the code.
Start-up and the login screen stay below that; several requests that all recover
at once may exceed it, and nothing is claimed of those. The bound is needed:
with no retry, TLC finds one caller enough to make a request fail beside a
running server.

**Only model-checked.** The liveness properties: `EveryRequestEnds`,
`SubmissionEnds`, `StartEnds`, `RequestsEnd`, `ScanEnds`, `BootEnds` and
`RequestEnds`, beyond what *Ends* says.

## 5. Not modelled

History, balance, profile and session lists (reads); the JWT guard (stateless);
throttling, Swagger and wiring (library configuration); widgets, themes and
notifications (synchronous); `SendMoneyScreen` (no route leads to it); the
platform runners (generated); the services of `ARCHITECTURE.md` (no code).
In `ClientSession`: two restores that overlap, a login that outlives its
time-out, and the second session of a login whose answer was lost. Each of the
three mechanisms of `ApiClient` (retries, rotation, recovery of the URL) has its
module; one request that meets all of them is not modelled. In `QrCodes`:
deactivated and expired codes, for no code makes one. In `Discovery`: other
hosts, CORS and Swagger.

## 6. Plan

Done: every component of section 1 that keeps state and interleaves, and the
safety of all of them proved. Left, in order:

1. For `ClientSession`, that the bound `MaxIssued` never keeps a rotation from
   being served, so that a request ends once no more tokens expire. `RequestsEnd`
   shows it on the instance of `client_live`, where a request that the bound
   stopped would never end.
2. A module of one request of `ApiClient` that composes the 401 branch, the
   network branch and `_withRetry`, with the bound on its fetches that `SendFlow`
   takes as `MaxFetches`.
