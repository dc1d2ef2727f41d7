------------------------------ MODULE ApiClient ------------------------------
(***************************************************************************)
(* One request() of the FetchApiClient (packages/core/src/api), with the   *)
(* retries its RetryHandler makes and the request() of its own that it     *)
(* makes for every 409 response with a location.                           *)
(*                                                                         *)
(* Level 1 is the caller's request, level l + 1 the one that follows the   *)
(* redirect of level l; only the deepest level has a fetch under way.  An  *)
(* action is what runs between two awaits.                                 *)
(***************************************************************************)
EXTENDS Integers, FiniteSets

CONSTANTS
    MaxRetries,     \* RetryConfig.maxRetries
    MaxRedirects,   \* bound: how many redirects in a row the cloud answers with
    BaseDelay,      \* RetryConfig.baseDelay, in milliseconds
    MaxDelay,       \* RetryConfig.maxDelay
    Seconds         \* what a 429 response may ask for

ASSUME MaxRetriesAssumption == MaxRetries \in Nat
ASSUME MaxRedirectsAssumption == MaxRedirects \in Nat
ASSUME DelaysAssumption ==
    BaseDelay \in Nat \ {0} /\ MaxDelay \in Nat \ {0} /\ Seconds \subseteq Nat

(* Arithmetic, which the provers do not know of exponents that vary. *)
ASSUME PowersAssumption == \A n \in 0..MaxRetries : 2^n \in Nat

VARIABLES
    options,    \* of the caller: idempotent method, redirects followed, signal given
    depth,      \* the deepest level under way; 0 when there is no call
    pc,         \* where the retry loop of every level is
    attempt,    \* the attempt every level has made it to
    error,      \* what the operation of the deepest level was rejected with
    hint,       \* what the 429 response asked for, when that was the error
    pause,      \* the milliseconds of the timer under way
    key,        \* the idempotency key of the caller's request
    aborted,    \* the caller's signal
    outcome,    \* how the call ended
    answered,   \* the cloud answered the caller's request, other than by 429
                \* or by a redirect that is followed
    applied     \* the keys under which the cloud carried the request out

delays == <<hint, pause>>
vars == <<options, depth, pc, attempt, error, key, aborted, outcome,
          answered, applied, delays>>

Levels == 1..(MaxRedirects + 1)

(* "retriable": a status of RETRIABLE_STATUS_CODES but 429. *)
HttpErrors == {"retriable", "rateLimited", "refused"}
Errors == HttpErrors \cup {"network", "timeout", "aborted"}
Answers == HttpErrors \cup {"ok", "redirect", "network", "timeout"}
Outcomes == Errors \cup {"none", "ok"}

(* When to come back: retry-after holds seconds or a date; without it the  *)
(* ratelimit header counts, whose reset may follow a comma or a space.     *)
Hints == [form : {"seconds", "date", "reset", "spacedReset", "nothing"},
          after : Seconds]
NoHint == [form |-> "none", after |-> 0]

TypeOK ==
    /\ hint \in Hints \cup {NoHint}
    /\ pause \in Nat
    /\ options \in [idempotent : BOOLEAN, follow : BOOLEAN, signal : BOOLEAN]
    /\ depth \in 0..(MaxRedirects + 1)
    /\ pc \in [Levels -> {"none", "send", "fetch", "follow", "failed", "backoff"}]
    /\ attempt \in [Levels -> 0..MaxRetries]
    /\ error \in Errors \cup {"none"}
    /\ key \in Nat
    /\ aborted \in BOOLEAN
    /\ outcome \in Outcomes
    /\ answered \in BOOLEAN
    /\ applied \subseteq Nat

Init ==
    /\ options \in [idempotent : BOOLEAN, follow : BOOLEAN, signal : BOOLEAN]
    /\ depth = 0
    /\ pc = [l \in Levels |-> "none"]
    /\ attempt = [l \in Levels |-> 0]
    /\ error = "none" /\ key = 0 /\ aborted = FALSE /\ outcome = "none"
    /\ answered = FALSE /\ applied = {}
    /\ hint = NoHint /\ pause = 0

(* A request that follows a redirect is a GET with the default options. *)
Idempotent(l) == l > 1 \/ options.idempotent
Follows(l) == l > 1 \/ options.follow
Listens(l) == l = 1 /\ options.signal

(* The signal the loop of level l watches has fired; and a loop that was   *)
(* never given the signal.                                                 *)
NeverCancelled(l) == FALSE
Cancelled(l) == Listens(l) /\ aborted
-----------------------------------------------------------------------------
(* request() makes the headers, the idempotency key among them, and enters *)
(* the retry loop.                                                         *)
Call ==
    /\ depth = 0 /\ outcome = "none"
    /\ depth' = 1
    /\ pc' = [pc EXCEPT ![1] = "send"]
    /\ key' = 1
    /\ UNCHANGED <<options, attempt, error, aborted, outcome, answered, applied, delays>>

(* The promise of the deepest level is rejected: the level above sees its  *)
(* operation fail, or the call ends.                                       *)
Leave(e) ==
    /\ depth' = depth - 1
    /\ pc' = [l \in Levels |-> IF l = depth THEN "none"
                               ELSE IF l = depth - 1 THEN "failed" ELSE pc[l]]
    /\ attempt' = [attempt EXCEPT ![depth] = 0]
    /\ error' = IF depth = 1 THEN "none" ELSE e
    /\ outcome' = IF depth = 1 THEN e ELSE outcome

(* The head of the loop of executeWithRetry() and the call of fetch(). *)
Send ==
    /\ depth > 0 /\ pc[depth] = "send"
    /\ IF Cancelled(depth)
       THEN Leave("aborted")
       ELSE /\ pc' = [pc EXCEPT ![depth] = "fetch"]
            /\ UNCHANGED <<depth, attempt, error, outcome>>
    /\ UNCHANGED <<options, key, aborted, answered, applied, delays>>

(* A response that is ok resolves every level. *)
Resolve ==
    /\ depth' = 0
    /\ pc' = [l \in Levels |-> "none"]
    /\ attempt' = [l \in Levels |-> 0]
    /\ outcome' = "ok"
    /\ UNCHANGED error

(* The request that follows a redirect counts its attempts anew, and leaves *)
(* the count of the one it serves alone.                                    *)
RestartAttempts == attempt' = [l \in Levels |-> 0]
KeepAttempts == UNCHANGED attempt

Follow ==
    /\ depth \in 1..MaxRedirects
    /\ depth' = depth + 1
    /\ pc' = [pc EXCEPT ![depth] = "follow", ![depth + 1] = "send"]
    /\ KeepAttempts
    /\ UNCHANGED <<error, outcome>>

(* What a response or a failed fetch is turned into: 409 is retriable. *)
ErrorOf(answer) == IF answer = "redirect" THEN "retriable" ELSE answer

(* handleResponse() of a response, or the rejection of fetch().  A fetch   *)
(* with the caller's signal has no timeout of its own.                     *)
Answer(answer, asked) ==
    /\ depth > 0 /\ pc[depth] = "fetch" /\ ~Cancelled(depth)
    /\ answer = "timeout" => ~Listens(depth)
    /\ depth = 1 /\ answer = "ok" => key \in applied
    /\ \/ answer = "ok" /\ Resolve
       \/ answer = "redirect" /\ Follows(depth) /\ Follow
       \/ /\ answer # "ok" /\ ~(answer = "redirect" /\ Follows(depth))
          /\ pc' = [pc EXCEPT ![depth] = "failed"]
          /\ error' = ErrorOf(answer)
          /\ UNCHANGED <<depth, attempt, outcome>>
    /\ answered' = \/ answered
                   \/ /\ depth = 1 /\ answer \notin {"network", "timeout", "rateLimited"}
                      /\ ~(answer = "redirect" /\ Follows(1))
    /\ hint' = IF answer = "rateLimited" THEN asked ELSE NoHint
    /\ UNCHANGED <<options, key, aborted, applied, pause>>

(* fetch() rejects because its signal was aborted. *)
FetchAborts ==
    /\ depth > 0 /\ pc[depth] = "fetch" /\ Cancelled(depth)
    /\ pc' = [pc EXCEPT ![depth] = "failed"]
    /\ error' = "aborted"
    /\ UNCHANGED <<options, depth, attempt, key, aborted, outcome,
                   answered, applied, delays>>

Exhausted(l) == attempt[l] >= MaxRetries

(* isEligibleForRetry(), and one that does not look at the method. *)
EligibleAnyway(e, l) == e \in {"retriable", "timeout", "network", "rateLimited"}
Eligible(e, l) ==
    \/ e \in {"retriable", "timeout"} /\ Idempotent(l)
    \/ e \in {"network", "rateLimited"}

(* extractRateLimitInfo(), parseInt(): a key behind a space is not found,  *)
(* which leaves 0, and a date is not a number.                             *)
NaN == -1

RetryAfter(asked) ==
    CASE asked.form \in {"seconds", "reset"} -> asked.after
      [] asked.form = "date" -> NaN
      [] OTHER -> 0

(* setTimeout() waits for 1 ms when the delay is no number, less than that *)
(* or beyond 2^31 - 1, which these are the seconds of.                     *)
LongestTimer == 2147483
Timer(seconds) == IF seconds \in 1..LongestTimer THEN seconds * 1000 ELSE 1

(* calculateBackoff(), with no jitter or with all of it (0.3). *)
Backoff(n, jitter) ==
    LET exponential == BaseDelay * 2^n
        delay == IF exponential < MaxDelay THEN exponential ELSE MaxDelay
    IN  IF jitter THEN delay + (3 * delay) \div 10 ELSE delay

(* The delay of handleRetryableError(), and one that knows no 429. *)
DelayByAttempt(asked, n, jitter) == Backoff(n, jitter)
Delay(asked, n, jitter) ==
    IF asked = NoHint THEN Backoff(n, jitter) ELSE Timer(RetryAfter(asked))

(* The catch clause of executeWithRetry(). *)
HandleError ==
    /\ depth > 0 /\ pc[depth] = "failed"
    /\ IF Cancelled(depth) \/ Exhausted(depth) \/ ~Eligible(error, depth)
       THEN Leave(error) /\ UNCHANGED pause
       ELSE /\ pc' = [pc EXCEPT ![depth] = "backoff"]
            /\ error' = "none"
            /\ \E jitter \in {FALSE, TRUE} : pause' = Delay(hint, attempt[depth], jitter)
            /\ UNCHANGED <<depth, attempt, outcome>>
    /\ UNCHANGED <<options, key, aborted, answered, applied, hint>>

(* The headers of the next attempt are those of the first one. *)
FreshKey == key' = IF depth = 1 THEN key + 1 ELSE key
KeepKey == UNCHANGED key

(* The delay is over, or the signal cuts it short. *)
Wake ==
    /\ depth > 0 /\ pc[depth] = "backoff"
    /\ IF Cancelled(depth)
       THEN Leave("aborted") /\ UNCHANGED key
       ELSE /\ attempt' = [attempt EXCEPT ![depth] = @ + 1]
            /\ pc' = [pc EXCEPT ![depth] = "send"]
            /\ KeepKey
            /\ UNCHANGED <<depth, error, outcome>>
    /\ UNCHANGED <<options, aborted, answered, applied, delays>>

(* The caller, or its timer, fires the signal. *)
Abort ==
    /\ options.signal /\ ~aborted /\ depth > 0
    /\ aborted' = TRUE
    /\ UNCHANGED <<options, depth, pc, attempt, error, key, outcome,
                   answered, applied, delays>>

(* The cloud carries out the caller's request, once for every key. *)
CloudApplies ==
    /\ depth > 0 /\ pc[1] = "fetch" /\ key \notin applied
    /\ applied' = applied \cup {key}
    /\ UNCHANGED <<options, depth, pc, attempt, error, key, aborted, outcome,
                   answered, delays>>

Next ==
    \/ Call \/ Send \/ FetchAborts \/ HandleError \/ Wake \/ Abort
    \/ CloudApplies
    \/ \E answer \in Answers, asked \in Hints : Answer(answer, asked)

Spec == Init /\ [][Next]_vars

(* A fetch with the timeout of makeRequest() settles, an aborted one at    *)
(* once; nothing is assumed of one that waits for the caller's signal.     *)
FetchSettles ==
    ~Listens(depth) /\ \E answer \in Answers, asked \in Hints : Answer(answer, asked)

Fairness ==
    /\ WF_vars(Send) /\ WF_vars(FetchAborts) /\ WF_vars(FetchSettles)
    /\ WF_vars(HandleError) /\ WF_vars(Wake)

FairSpec == Spec /\ Fairness
-----------------------------------------------------------------------------
(* However often the request is sent, lost and sent again, the cloud       *)
(* carries it out at most once: all attempts carry one idempotency key     *)
(* (request, createHeaders).                                               *)
AppliedOnce == Cardinality(applied) <= 1

(* A request that is not idempotent and has been answered, by anything but *)
(* 429, is not sent again (isEligibleForRetry, IDEMPOTENT_METHODS).  An    *)
(* answer that is a redirect does not count: when the request that follows *)
(* it fails the loop of the first request sends that one again.            *)
AnsweredNotResent ==
    answered /\ ~options.idempotent => pc[1] \notin {"backoff", "send", "fetch"}

(* Whatever level sends again, and whatever level the answer came to: the  *)
(* client stays away for as long as a 429 response asked for, when that is *)
(* in a form and a range the client knows, and after other errors for as   *)
(* long as the attempts of that level demand, up to the maximum            *)
(* (handleResponse, handleRetryableError, calculateBackoff).               *)
StaysAway ==
    depth > 0 /\ pc[depth] = "backoff" =>
        /\ hint.form \in {"seconds", "reset"} /\ hint.after \in 1..LongestTimer
              => pause >= 1000 * hint.after
        /\ hint = NoHint =>
              pause >= BaseDelay * 2^attempt[depth] \/ pause >= MaxDelay

(* Once its signal has fired the caller's request is not sent again, also  *)
(* when it fires between two attempts or while a redirect is followed      *)
(* (executeWithRetry).                                                     *)
AbortStopsSending ==
    [][aborted /\ pc[1] # "fetch" => pc'[1] # "fetch"]_vars

(* A call ends, by its own timeouts or as soon as its signal has fired:    *)
(* the retries of nested requests multiply and yet are bounded             *)
(* (makeRequest, executeWithRetry, handleResponse).                        *)
CallSettles == depth > 0 /\ (~options.signal \/ aborted) ~> depth = 0
=============================================================================
