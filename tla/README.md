# SecTester JS: a verification of its concurrent core

SecTester JS runs dynamic security scans from unit tests. A **runner** registers
a **repeater** in the Bright cloud and connects it over socket.io, creates a
**scan** there, polls it until it is over, and reports what was found; the cloud
attacks the application through the repeater, which executes the requests it is
sent. All of it runs on one Node event loop: what can go wrong is not a data race
but the order in which callbacks, timers and the continuations of awaits run, and
what the cloud and the network do between them.

The TLA+ modules in this directory model that core, one module per component,
with two abstract specifications (`RepeaterSession`, `ScanLife`) and one composition
(`RepeaterRequests`). The modules that TLC runs have a configuration of their name; `PROJECT.json` maps every
definition to the lines it stands for.

    tlc -config Repeater.cfg Repeater       # model-check
    tlapm Repeater_proofs.tla               # check the proofs

## 1. Inventory

Paths are relative to `src/packages/`.

| Component | State it keeps | Operations | Interacts with |
|---|---|---|---|
| `Repeater` (`repeater/src/lib/Repeater.ts`) | `_runningStatus`, its subscriptions | `start`, `stop`, handlers of the server's events | its `RepeaterServer`, `RepeaterCommands` |
| `DefaultRepeaterServer` (`repeater/src/lib`) | `_socket`, `events`, `connectionTimer`, `connectionAttempts`, `latestReconnectionError` | `connect`, `deploy`, `disconnect`, `on`, `off`, socket.io handlers | socket.io, timers, the repeater's handlers |
| `RepeaterFactory`, `DefaultRepeatersManager` | none | `createRepeater`, `createRepeaterFromExisting`, `getRepeater`, `deleteRepeater` | API client |
| `DefaultRepeaterCommands`, `HttpRequestRunner` | agents; a timer per request; the options, whose limit LIMITS overwrites | `sendRequest`, `run` | the application under test, Node's http agent, zlib streams |
| `Scan` (`scan/src/Scan.ts`), `DefaultScans` | `state`, the last known state of the scan | `status`, `expect`, `issues`, `stop`, `dispose` | API client; any number of callers |
| `ScanFactory`, `DefaultDiscoveries` | none (the entry point is in the cloud) | `createScan`, `createEntrypoint` | API client |
| `ScanSettings`, `Target`, `Body`, converters, `Severity` | values; a `Target` caches its URL, query string and headers | validation, conversion, detection of what to attack | `ScanFactory`, which builds them from each other |
| `SecRunner` (`runner/src/lib`) | `repeater`, `repeatersManager`, `repeaterFactory`, the signal handlers | `init`, `clear`, `createScan` | configuration, factory, repeater, process signals |
| `SecScan`, `FunctionScanTarget` | options; the server of a function target | `run`, `threshold`, `timeout`, `setFailFast` | scan factory, scan, reporter |
| `FetchApiClient`, `RetryHandler`, `RateLimiter` (`core/src/api`) | none beyond a call | `request` | the cloud |
| `Configuration`, `first`, `Credentials`, `DefaultProjects` | credentials, project id, and the promises that load them | `loadCredentials`, `fetchProjectId` | credential providers, API client |
| reporters, formatter, builders (`reporter/src`) | none | `report` | the scan's issues, files, the GitHub API |
| logger, registration, publish tool | - | output, wiring | - |

What is hard, and which component it concerns:

* **protocol sequence**: `stop()` while `start()` is pending, `start()` again
  after a failed one, `clear()` while `init()` is pending (Repeater, SecRunner);
* **interleaving and stale state**: several callers of one `Scan`, of one
  `Configuration`, several runs against one entry point; a timer that reaches
  for a socket that is gone;
* **timeouts and retries**: deployment timeout against a late event, two
  mechanisms of reconnection at once, retries of requests the cloud may have
  carried out, retries nested in redirects, a signal that fires anywhere, a
  pause that is no number or too long for a timer;
* **lost answers**: a request that outlives the connection or the session it came
  on, and one of which no run can be made;
* **partial failure**: each step of `init`, `clear` and `run` failing;
* **resources**: attempts, sockets of an agent, servers and scans left behind;
* **derived values taken for given ones**: a target is built from another target,
  whose getters answer with what they have derived.

`PROJECT.json` lists the hazards at their lines, with the properties on them.

The properties that make a component correct: a repeater is RUNNING only with a
connection or a reconnection under way (but for one kind of refusal, section 3), deploys once per connection and answers
a request once; a scan's verdict is true of the scan; a runner that was cleared
leaves nothing behind; a run's verdict is true and its scan and target are gone;
a request is carried out once, is sent boundedly often and ends; what a
configuration loads is loaded once and stays; a proxied request ends, is answered on
the connection that asked and its body cut to the limits in force; what is reported
agrees with the verdict; a scan is created with the tests, the target and the limits
its caller gave, and deleted only when it is over.

## 2. The modules

### Repeater and RepeaterSession

`Repeater.tla` models `Repeater.ts` over `DefaultRepeaterServer.ts`. One action is
one turn of the event loop: a call of `start()` or `stop()`, a socket.io event
with all handlers it runs and all continuations they resume, or a timer. `status`
is `_runningStatus`, `awaits` the await in which `start()` is, `sock` is `_socket`,
`timer` and `attempts` are `connectionTimer` and `connectionAttempts`, `subs` counts
how often `subscribeEvents()` is in force on the emitter.

Every `start()` opens a socket of its own; `stop()` does nothing unless RUNNING,
and closes the latest socket only. So a `start()` that failed leaves its socket,
and another `start()` replaces it: the old one keeps its handlers, which feed the
same emitter. The set `Replaced` holds those sockets. Most properties say what
holds as long as it is empty, and `OnlyRestartReplaces` says that this one
sequence is the only way to make it non-empty.

The cloud can refuse a connection with an error code, which `handleConnectionError()`
answers by a timer or by stopping, or without one (an unknown namespace, a middleware that
fails), which it only logs; socket.io retries neither. `link` tells the second kind of dead
socket, `"ignored"`, from the others, for which the properties demand a timer. An attempt
that fails before the cloud answers is the manager's to retry (`TransportFails`).

`RepeaterSession.tla` is the abstract specification: a status and a link, with
what a step may do to them. `ImplementsSession` maps `sock` and `link` onto it.

### SecRunner

`init()` and `clear()`, split where they await, by any number of callers or by a
signal. Each repeater it creates is a `RepeaterSession` (`INSTANCE` with the
repeater as parameter); `SessionsKeepContract` says that the runner and the
sessions together make only steps of that specification, also when calls overlap, so
that what is proved of `Repeater` fits what `SecRunner` assumes. `unstarted` and `undeleted` record
which starts and deletions were rejected: the properties say that nothing else is
ever left behind.

### Scan

One `Scan` object and several callers. `refreshState()` is split where it awaits
`getScan()`: the request, the cloud's answer, and the arrival of the answer, in
any order among callers. A status stands for the set the code puts it in
(`running` for the active ones, `failed` for disrupted, failed and stopped,
`paused` for paused and scheduled, which are in no set). `cloud.parked` remembers
that the cloud has scheduled or paused the scan, for which `status()` ends.

`ScanLife.tla` is what a `Scan` promises, without polling and remembering: `stop()`
ends what is under way, `dispose()` deletes a scan only when it is over or was parked,
and a verdict is borne out by the scan when it is given. `ImplementsLife` maps `cloud`
and `outcome` onto it; the answers under way have no counterpart.

### SecScan

`run()` as a sequence of awaits, each of which may fail, for runs that may
overlap and aim at one endpoint: the server of a function target, the entry
point (POST, and on a conflict PUT and GET), the scan, the expectation, the
assertion and the finally clause. `met` records which runs were under way at the
same time, `unstopped` for which runs `stop()` failed or found the scan parked.
Of `Scan.expect()` it uses what `ScanLife` promises (`BornOut`): it may reject at any
time (by its timeout), and resolves for scans that are done, have found something, or
were parked, also when they go on by now. `UsesLife` says it as a refinement: each run
and its scan are a `ScanLife` of their own, with the run as its client.

The last step is the report: `report()` asks for the issues a second time, after the
scan was stopped (`listed`), and writes them side by side to its sinks (`filed`): one of
the run's own (a check run, a file with a unique name, lines of the output) and the file
of code quality, which has one name for all runs. `Formats` are the sinks of the
configured reporter: `{"own"}` for the console, GitHub and JUnit, `{"quality"}` and both for
GitLab's other formats. A write that fails rejects the report, which hides the verdict; a
file is written at once.

### Target and ScanSettings

`Target.tla` holds pure operators: what the constructor of `Target` makes of its
options, which converter handles a body of which kind, the content type guessed
for it, and the request stored as an entry point. A body is one of sixteen kinds,
chosen so that every converter, every guess and the fallback has one; a text is
known by the converter that makes it. `Copy` is `new Target(target)`: it goes
through the getters, as the destructuring in the constructor does.

`ScanSettings.tla` is one `createScan()`: `Construct` checks and completes the
options (every setter that throws is a conjunct of `Refused`), `CreateEntrypoint`
stores the request of the copied target, and `CreateScan` brings the tests into
the form of the backend. TLC varies its options one group at a time (target and
locations, tests, limits); the proofs let them vary together (`OptionsSpec`). Failing requests are the business of `SecScan`.

### ApiClient

One `request()` with the retry loop of `RetryHandler` and the `request()` it makes
itself for a 409 with a location. Level 1 is the caller's request, level `l + 1`
the one that follows the redirect of level `l`; each has its own attempts. The
cloud (`CloudApplies`, external) carries a request out once per idempotency key.

Time is not modelled, but the length of the pause before a retry is: `hint` is what a 429
response asked for, in one of the forms `retry-after` and `ratelimit` come in, and `pause`
the milliseconds of the timer, computed as the code does: `parseInt`, which makes a date
NaN; a `reset` that stands behind a space and is not found, which leaves 0; `setTimeout()`,
which takes NaN, 0 and more than 2^31 - 1 for one millisecond; the backoff with no jitter
and with all of it. `StaysAway` says for which of them the client keeps away.

### Configuration

Credentials and project id are loaded the same way: the promise of the load is
kept in a field and shared. A load has sources: the providers, raced by `first()`,
or the one request for the project. A configuration without credentials has providers:
its constructor throws otherwise. `RefusedAtOnce` is a load that throws before
its first await, when the catch clause runs before the promise is stored.

### HttpRequestRunner and RepeaterRequests

Requests under way with a shared keep-alive agent: the timer, which is about the
head of the response only, the body, read through a decoder when it is encoded,
and the socket, which the agent gets back when the response was read to its end.
Node's agent, the network and the server are external: `FreeSocket`, `Release`
and `SocketFreed` follow Node's documentation of `http.Agent` and of the
`response` event.

`RepeaterRequests.tla` composes the runner with the session of a repeater: it extends
`HttpRequestRunner` and takes the steps of `RepeaterSession` for the connection. A REQUEST
becomes a run (`RequestReceived`) or is refused (`RequestRefused`: no valid URL, a body that
is no string, a protocol without a runner); when a run ends, its acknowledgement goes out
in the same turn (`Acknowledge`), to the connection that asked (`asked`) if that is still
up. Nothing cancels a run when the connection is lost or the session ends. A LIMITS event
overwrites `maxContentLength` in the options that the runner shares with the repeater
(`limit`) and reads again at every head (`Bound`); `laxest` remembers the laxest limit in
force since the request came. A `start()` over the socket of a failed one is left out here:
`Repeater` shows what it leads to.

## 3. The runs

| Run | Bounds | What it shows |
|---|---|---|
| `repeater` | 3 starts, 2 reconnection attempts, 1 stray timer | type correctness, the four safety properties, the refinement, and the two liveness properties |
| `runner` | 2 callers, 2 signals, 3 repeaters, calls do not overlap | one session at a time, what `clear()` releases and removes, the contract of the sessions (a refinement per repeater), whatever fails |
| `scan` | 2 callers with a timeout | verdicts and remembered final states are true; `Scan` implements `ScanLife`; `expect()` ends |
| `settings` | 3 tests, every kind of target, limits at their boundaries | limits, entry point, tests and attack locations are what the caller described |
| `sec_scan` | 2 runs that may overlap, one of a function, every failure, pauses, both GitLab formats | true verdicts, nothing left, reports that agree, own entry point; the refinement of `ScanLife` per run; runs end |
| `api_client` | 2 retries, 2 redirects, delays of 1 s up to 1.5 s, hints of 0, 2 and 1234567890 s | once per key, no second POST once answered, no retry too early, abort stops it, calls end |
| `configuration` | 2 callers, 2 providers, 2 loads | sharing, forgetting failures, stability, every caller answered |
| `request_runner` | 2 requests, 1 socket, 2 connections, 1 LIMITS event | timeouts only before the head, sockets given back, every outcome answered, bodies within limits, runs end |

Why the bounds are enough: three starts let a replaced socket meet a session and
its successor; two reconnection attempts have a first, a last and one too many;
two callers, runs or signals are what every property that relates two of them
needs; two retries and two redirects make the attempts of a level meet those
above and below; the maximum of 1.5 s cuts the second backoff but not the first, and
1234567890 s, a time where an amount of seconds belongs, is beyond any timer; two requests
over one socket make one wait for the other, and a second connection is one on which a
request is no longer known. Of the two requests one varies (`Varied`: its own limit, no
timeout, a type outside `allowedMimes`); a second that varies would only repeat it. Three
tests let one repeat another before or after it with a third in between. Each run
finishes in about a minute.

`CHECK_DEADLOCK FALSE` is set where the system may really come to rest: a
repeater whose process has crashed or whose bound of starts is used up, callers
with nothing left to call, calls that are over. `Scan.cfg` does check deadlock.

### Disagreements with the documentation

Four runs are expected to be violated: each states what a test, a comment or a
README says and TLC shows a behaviour of the code that does otherwise.

| Run | What happens |
|---|---|
| `runner_overlap` | `clear()`, or a signal, while `init()` waits for the registration leaves the repeater in the cloud |
| `configuration_refused` | `fetchProjectId()` before `loadCredentials()` fails for ever |
| `configuration_order` | providers are all invoked at once and the fastest wins |
| `settings_string` | a string body that looks like JSON is encoded a second time, because the target is built twice |

The other weak spots that were met are written into the properties as the
exceptions they need, and named in their comments:

* a refusal without an error code (`DefaultRepeaterServer.ts:253`) is logged and nothing
  else: a RUNNING repeater stays RUNNING without a connection, a timer or anybody told, and
  a start stays pending (`RunningIsReconnecting`, `LostConnectionSettles`,
  `StartSettlesUnlessGivenUp`);
* a start given up while STARTING never settles, because `stop()`, and so a critical
  error, is ignored then (`StartSettlesUnlessGivenUp`); the attempts used up by a
  session that gave up are not given back to the next start; a socket replaced by a
  restart keeps its handlers (`Replaced`);
* a failed start keeps its socket (`ClearUndoesInit`), and a repeater the cloud
  refused to delete is forgotten (`ClearRemovesRepeaters`);
* a late answer may replace a final state by an older one, which is only asked for
  again: the property is that a final state which is remembered is true
  (`FinalStateIsTrue`); a parked scan ends `expect()` without a verdict and is not
  stopped (`VerdictIsTrue`, `NoScanLeft`);
* a set-up that fails leaves its target open (`TargetClosed`);
* a POST answered by a redirect may be sent again (`AnsweredNotResent`);
* an encoded body that breaks off never ends, and a response without a body keeps
  its socket (`RunSettles`, `SocketsReturned`);
* a request of which no run can be made is never acknowledged, and an answer given on a
  later connection reaches nobody who asked (`EveryOutcomeAnswered`); LIMITS apply to
  requests under way (`BodyWithinLimits`);
* after a 429 that names a date, whose reset stands behind a space or is beyond
  2^31 - 1 ms, the next attempt follows at once (`StaysAway`);
* the code quality file holds the report of the last run to write it, and a report that
  cannot be written hides the issue the run was going to be rejected for (`ReportAgrees`);
* a parked scan is deleted by `dispose()` although it may go on (`Disposable` of
  `ScanLife`);
* a plain test that repeats a configured one is sent twice, while the other order
  is refused (`TestsReachBackend`);
* a query that stands in the URL of a request with a body or a fragment is not attacked,
  although `packages/scan/README.md:62` says that the parts are detected; one that stands
  there alone is, because nothing is detected then and the defaults apply
  (`PartsAttacked`);
* a body with the method `get` in lower case is accepted (`TypeOK` of `ScanSettings`
  speaks of GET and HEAD only).

## 4. Fairness

Fairness is assumed of what Node and the protocols guarantee, action by action:

* a connection attempt of socket.io has an outcome, an armed timer fires
  (`Repeater`): engine.io has a connect timeout and timers are kept by Node. The
  owner's calls, the cloud's acknowledgement of a deployment and its errors are
  not assumed.
* timers fire, requests settle (`Scan`): `getScan()` goes through the API client,
  whose calls end. The scan in the cloud may stay as it is for ever.
* what `run()` awaits comes to an end (`SecScan`): requests settle, `expect()` has a
  timeout, and the function under test is assumed to return.
* a fetch with the timeout of `makeRequest()` settles, and an aborted one at once
  (`ApiClient`); nothing is assumed of a fetch that has only the caller's signal.
* every provider and the project request settle (`Configuration`).
* timers fire, the agent hands out free sockets, and a body that has begun ends
  or its connection is lost (`HttpRequestRunner`, and the same steps with their
  acknowledgements in `RepeaterRequests`); no head is assumed to come, nor anything of
  the session.

## 5. What is proved

Each module `M_proofs.tla` proves about module `M`, for every value of its constants
that its named assumptions allow. TLC evaluates the assumptions in every run of `M`.

| Module | Theorems | Strengthening the step needs |
|---|---|---|
| `Repeater_proofs` | `Types`, `Reconnecting`, `HandledOnce`, `NoStray`, `NoConnectionMissed`, `OnlyRestarts` (action property), `Refinement` (of `RepeaterSession`), `SessionHoldsSocket` | `Held` and `Clean => Orderly`, below |
| `Scan_proofs` | `Types`, `FinalIsTrue`, `VerdictsAreTrue`, `Refinement` (of `ScanLife`), `DeletesOnlyOver` | `Happened`: every answer, stored or on its way, saw only what has happened, and what is final in it is so still; `Calls` for the refinement |
| `SecRunner_proofs` | however calls overlap: `Sessions`, `Types`, `KeepsContract` (of `RepeaterSession`), `SessionsAreFree`; for calls that do not: `HasOneSession`, `RemovesRepeaters`, `UndoesInit` | `OwnStart`, `Waiting`, `Linked` for the first; `Alone`, `Awaiting`, `Owned`, `Handlers` for the others |
| `SecScan_proofs` | `Types`, `CleanVerdict`, `StopsScans`, `ClosesTarget`, `ReportsAgree`, `AttacksOwn`, `UsesItsScan` (refinement of `ScanLife`), `TargetDrains` (action property) | `VerdictHolds`, `CleanUp`, `Filed`, `EntryShared`; `ScanIsNew` for the refinement |
| `ScanSettings_proofs` | `EntryPointIsDescribed`, `TestsAreComplete`, `EveryPartIsAttacked`, for all options together; `Types` | the state is what the options make of it; lemmas about the operators, below |
| `ApiClient_proofs` | `Types`, `OneApplication`, `NotResent`, `PausesLongEnough`, `AbortStops` and `CallAdvances` (action properties) | `Nested`, `OneKey`, `Answered` |
| `Configuration_proofs` | `Types`, `Forgets`, `NobodyWaitsInVain`, `OnlyOnce` (action property) | `LoadsOnDemand`: a load is under way only while there is no value; `Racing`: and while a source has still to settle |
| `HttpRequestRunner_proofs` | `Types`, `TimeoutIsAboutHead`, `ReturnsSockets`, `NobodyWaitsInVain`, `ServiceImplementsRunner`, `OutcomesAnswered`, `BodiesWithinLimits` | `Consistent` with `Waiting`, and the limit on sockets; `Answering` and `ConnectionInv`; `Limiting`: how `own`, `bound` and `laxest` follow the phase |

Each states `Spec => []IInv` as its theorem `Invariance`, `ScanSettings_proofs` of
`OptionsSpec` and `SecRunner_proofs` for calls that do not overlap. Every safety property
of a passing run is a theorem too. Type correctness is proved of all modules; TLC checks it
again where a hazard is about a type or a bound (`repeater`, `settings`). A step is
proved once per action and, under it, once per part the action can disturb; the
other theorems follow from `IInv`, the action properties from `IInv` and the step.

**Repeater.** None of the properties is inductive. `Held` is what is true in every
history: how the status, the pending `start()`, the current socket and the
subscriptions belong together (a RUNNING repeater has a socket, a pending start
awaits on it, sockets beyond `opened` are unused). `Clean` says that every socket but
the current one is closed, and `Orderly` what is true then: no stray callback has run,
the current socket has one subscription, it has carried one DEPLOY exactly while it
is connected, the timer is armed only over a dead socket and, while RUNNING, over
every dead one (not over one whose refusal had no code, which is `"ignored"`), and a request is executed and answered at most once. `Clean` can only
be left, by `Start`, so `Orderly` is needed only where it held before. The refinement
follows from `IInv` and the step; it maps to `RepeaterSession`, of which
alone `ContractHoldsSocket` is proved, so that `SessionHoldsSocket` follows for `Repeater`.

**Scan.** That a verdict is true is not inductive: a verdict follows an answer, and
the answer may be old. What makes it true is that the life of a scan in the cloud only
goes on (`CloudGoesOn`): an old answer may be outdated where it says "running" but not
where it is final, where it has found an issue, or where it saw the scan parked. Every
action that leaves the answers alone preserves the invariant by one lemma
(`GoesOnKeeps`). The refinement needs one fact more (`Calls`): a `dispose()` that has sent
its request did so for a scan it saw out of an active status, which the scan has then
been left in for good or was parked. `DeletesOnlyOver` comes back the other way: what
every `ScanLife` keeps (`LifeIsKept`) holds of `Scan` by the refinement.

**SecRunner.** What the sessions do needs no assumption: a start waits for a session that
nobody else starts (`OwnStart`), whichever call has overwritten the runner's fields since.
From that every step is one of `RepeaterSession` (`KeepsContract`), and conversely whatever
a session may do by itself is a step the runner allows (`SessionsAreFree`), so `SecRunner`
assumes of a repeater no more and no less than what `Repeater` is proved to keep. The
other theorems assume `~Overlap`: a call begins when the one before it has returned (TLC shows
in `runner_overlap` what becomes of `clear()` otherwise). Then one call at most is under way
(`Alone`), what it knows where it awaits is what the runner's fields say (`Awaiting`), and
a registration, a session or a socket is the current repeater's or is one of those a
failure has left (`Owned`).

**SecScan.** The verdict of `run()` is fixed several awaits before the run is over;
`VerdictHolds` carries it through the clean-up, `CleanUp` says what the `finally`
clause has dealt with at each of its steps, `Filed` what has been read and written for the
report: a scan that had found an issue still has it when it is asked again. Runs that are
under way together have met (`EntryShared`), so whoever writes to an entry point between
a run's conflict and its scan is one that the run has met. A step of one run leaves the
state of the others alone (`Local`). For the refinement each step of one run is a step
of its life and stutters in the lives of the others; the verdict is given in the one step
that resolves, where the scan has to bear it out (`VerdictIsGiven`), and a scan
that is not created yet has not begun its life (`ScanIsNew`).

**ScanSettings.** A `createScan()` takes three steps; what is to prove is about the
operators, and the invariant carries it. That the tests reach the backend is about
`Order`, which lists the members of a finite set of numbers in ascending order: a member
stands at the place that is its rank (`Rank`), ranks grow with the numbers and use every place
(`RankIsBijection`), so nothing is lost or listed twice, without induction over lists.
`CopyKeepsRequest` says that a second construction of the target keeps the request unless
the type guessed for its body, once it is taken as given, selects another converter; over
the table of converters that happens for strings that look like JSON only
(`GuessIsHarmless`). That a lone query is attacked rests on two facts: every body has a
text (`TextOfBody`), so that what the stored request lacks the target lacked, and then
nothing is detected and the defaults apply. TLC explores one group of options at a time and three tests; the
theorems are about `OptionsSpec`, where all vary together and nothing is bounded, and
`SpecIsOptionsSpec` connects the two. Only `Types` is about `Spec`, whose `TypeOK` names
the bound on tests.

**ApiClient.** `applied` stays below two because all attempts of a call carry one key
(`OneKey`). `Nested` describes the stack of requests that follow redirects: every
level but the deepest waits for the next. An answered request that is not idempotent
is over or about to fail for good (`Answered`). The pauses rest on lemmas about `Delay`
and `Backoff`; that `2^n` is a number, which the provers do not know for an exponent that
varies, is the assumption `PowersAssumption`, which TLC evaluates. `CallAdvances` takes a
measure per level, the attempts left and the place in the loop (`Ahead`), in lexicographic
order of the levels: a step at the deepest level makes its measure smaller, a redirect opens
a deeper level at the price of the one above. Redirects are bounded, so the order is well
founded.

**HttpRequestRunner and RepeaterRequests.** The invariant bounds the sockets held by
`MaxSockets`; the step uses the theorems of the library on the cardinality of finite
sets, and hence that `Requests` is finite. The theorems about the runner are stated of its own `Spec`;
`ServiceImplementsRunner` carries them over to `ServiceSpec`, of which the run is an
instance. An acknowledgement is tied to the phase of its run and to the number of the
connection (`Answering`). A bound on a body is tied to the laxest limit since the
request came, through the order of limits in which -1 is the laxest and 0 the next
(`Covers`).

**What liveness rests on.** Liveness itself is beyond the proof system's backends
(fairness, ENABLED); what it needs besides fairness is proved, for every value of the constants:
`CallAdvances` (a call cannot go on for ever), `NobodyWaitsInVain` of `Configuration` and of
`HttpRequestRunner` (whoever waits waits for something that is still to come, or has a timer),
`NoConnectionMissed` of `Repeater` and `TargetDrains` of `SecScan` (what `server.close()`
waits for only gets less).

Only model-checked: the liveness properties, the violated claims, and what a runner whose
calls overlap leaves behind.

## 6. What is not modelled

* The passing of time: polling intervals, timeouts and delays. A timer may fire at
  any time after it is set, so the order of two timers is never assumed; of the pause
  before a retry the length is modelled, not the waiting.
* The result of a redeployment after a reconnection, which the code only logs (that
  exactly one is sent per connection is checked), and UPDATE_AVAILABLE, likewise.
* A response of `createRepeater` that is lost after the cloud has registered it.
* Expectations given as asynchronous functions; thresholds and severity ranges
  (an issue counts or it does not).
* The content of bodies, headers, charsets, proxies and the texts of errors. A body
  is known by the limit it is cut to.
* What two writes to one file at the same time leave in it: the later one stands.
* The characters of texts: URLs and their normalisation, serialised queries, the
  boundary of a multipart body, how a string is recognised as JSON or XML.
* Pure conversions: `resolveUrls`, the policy header of `RateLimiter`, the layout of
  reports and the grouping of issues in them; logger, wiring, the publish tool.

## 7. Plan

Done: `RepeaterSession`, `Repeater`, `Scan`, `ScanLife`, `SecRunner`, `ApiClient`,
`Configuration`, `SecScan` with its reports, `HttpRequestRunner`, `RepeaterRequests`,
`Target`, `ScanSettings`, and the proofs of section 5.

Next, where a new property says more than one that is checked today and takes its place:
pure functions checked against reference definitions over bounded inputs (severity ranges,
the grouping of issues, `resolveUrls`); the safety halves of the two liveness properties of
`Repeater` that no theorem states yet, for a connection lost while RUNNING.
