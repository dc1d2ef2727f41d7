--------------------------- MODULE ApiClient_proofs --------------------------
(***************************************************************************)
(* The safety of one request() of the API client, for any number of        *)
(* retries and of redirects in a row.                                      *)
(***************************************************************************)
EXTENDS ApiClient, FiniteSetTheorems, TLAPS

(* Every level but the deepest follows a redirect, and a level waits for   *)
(* another attempt only while it has one left.                             *)
Nested ==
    /\ \A l \in Levels : l < depth => pc[l] = "follow"
    /\ \A l \in Levels : l > depth => pc[l] = "none" /\ attempt[l] = 0
    /\ depth > 0 => pc[depth] \in {"send", "fetch", "failed", "backoff"}
    /\ depth > 0 /\ pc[depth] = "backoff" => attempt[depth] < MaxRetries
    /\ depth > 0 /\ pc[depth] = "failed" => error # "none"

(* There is one key, made by the call. *)
OneKey ==
    /\ key \in {0, 1} /\ applied \subseteq {1}
    /\ depth > 0 => key = 1

(* An answered request that is not idempotent is over, or is about to be.  *)
Answered ==
    /\ answered /\ depth = 0 => outcome # "none"
    /\ answered /\ ~options.idempotent =>
          /\ pc[1] \in {"none", "failed"}
          /\ pc[1] = "failed" => depth = 1 /\ error \in {"retriable", "refused"}

IInv == TypeOK /\ Nested /\ OneKey /\ Answered /\ (aborted => options.signal)

USE MaxRetriesAssumption, MaxRedirectsAssumption DEF delays

LEMMA LevelFacts ==
    ASSUME IInv
    PROVE  1 \in Levels /\ (depth > 0 => depth \in Levels) /\ depth \in Int
BY DEF IInv, TypeOK, Levels

LEMMA InitKeeps == Init => IInv
<1> SUFFICES ASSUME Init PROVE IInv
    OBVIOUS
<1>1. TypeOK
  <2>1. pc \in [Levels -> {"none", "send", "fetch", "follow", "failed", "backoff"}]
    BY DEF Init
  <2>2. attempt \in [Levels -> 0..MaxRetries]
    BY DEF Init
  <2>3. depth \in 0..(MaxRedirects + 1) /\ key \in Nat /\ applied \subseteq Nat
    BY DEF Init
  <2>4. QED
    BY <2>1, <2>2, <2>3 DEF Init, TypeOK, Outcomes
<1>2. Nested
    BY DEF Init, Nested, Levels
<1>3. OneKey /\ Answered
    BY DEF Init, OneKey, Answered
<1>4. QED
    BY <1>1, <1>2, <1>3 DEF Init, IInv

(* A level that is left hands its error to the level above. *)
LEMMA LeaveKeeps ==
    ASSUME IInv, depth > 0, NEW e \in Errors, Leave(e),
           UNCHANGED <<options, key, aborted, answered, applied, hint, pause>>,
           \* who was answered leaves with that answer
           answered /\ ~options.idempotent /\ depth = 1 => e # "none"
    PROVE  IInv'
<1>1. depth \in Levels /\ 1 \in Levels /\ depth \in Int
    BY LevelFacts
<1>2. TypeOK'
    BY <1>1 DEF IInv, TypeOK, Levels, Leave, Outcomes
<1>3. Nested'
  <2>1. depth' = depth - 1 /\ depth' \in Int
    BY <1>1 DEF Leave
  <2>2. \A l \in Levels : l < depth' => pc'[l] = "follow"
    BY <1>1, <2>1 DEF IInv, Nested, Leave, Levels
  <2>3. \A l \in Levels : l > depth' => pc'[l] = "none" /\ attempt'[l] = 0
    BY <1>1, <2>1 DEF IInv, TypeOK, Nested, Leave, Levels
  <2>4. depth' > 0 => depth' \in Levels /\ pc'[depth'] = "failed" /\ error' = e
    BY <1>1, <2>1 DEF Leave, Levels, IInv, TypeOK
  <2>5. e # "none"
    BY DEF Errors, HttpErrors
  <2>6. QED
    BY <2>2, <2>3, <2>4, <2>5 DEF Nested
<1>4. OneKey'
    BY <1>1 DEF IInv, OneKey, Leave
<1>5. Answered'
  <2>1. e # "none"
    BY DEF Errors, HttpErrors
  <2>2. depth # 1 /\ answered /\ ~options.idempotent => FALSE
    BY <1>1 DEF IInv, Nested, Answered, Levels
  <2>3. CASE depth = 1
    BY <1>1, <2>1, <2>3 DEF IInv, Answered, Leave
  <2>4. CASE depth # 1
    BY <1>1, <2>2, <2>4 DEF IInv, Answered, Leave
  <2>5. QED
    BY <2>3, <2>4
<1>6. QED
    BY <1>2, <1>3, <1>4, <1>5 DEF IInv

LEMMA CallKeeps == ASSUME IInv, Call PROVE IInv'
<1>1. 1 \in Levels
    BY LevelFacts
<1>2. TypeOK' /\ Nested'
    BY <1>1 DEF IInv, TypeOK, Nested, Call, Levels
<1>3. OneKey' /\ Answered'
    BY <1>1 DEF IInv, TypeOK, OneKey, Answered, Call
<1>4. QED
    BY <1>2, <1>3 DEF IInv, Call

LEMMA SendKeeps == ASSUME IInv, Send PROVE IInv'
<1>1. depth \in Levels /\ depth > 0 /\ 1 \in Levels
    BY LevelFacts DEF Send
<1>2. CASE Cancelled(depth)
    BY <1>1, <1>2, LeaveKeeps DEF Send, Errors
<1>3. CASE ~Cancelled(depth)
  <2>1. TypeOK' /\ Nested'
    BY <1>1, <1>3 DEF IInv, TypeOK, Nested, Send, Levels
  <2>2. OneKey' /\ Answered'
    BY <1>1, <1>3 DEF IInv, TypeOK, Nested, OneKey, Answered, Send, Levels
  <2>3. QED
    BY <1>3, <2>1, <2>2 DEF IInv, Send
<1>4. QED
    BY <1>2, <1>3

LEMMA AnswerKeeps == ASSUME IInv, NEW answer \in Answers, NEW asked \in Hints,
                            Answer(answer, asked)
                     PROVE  IInv'
<1>1. depth \in Levels /\ depth > 0 /\ 1 \in Levels /\ depth \in Int
    BY LevelFacts DEF Answer
<1>2. ~answered \/ options.idempotent
    BY <1>1 DEF IInv, Nested, Answered, Answer, Levels
<1>3. CASE answer = "ok" /\ Resolve
  <2>1. TypeOK' /\ Nested'
    BY <1>1, <1>3 DEF IInv, TypeOK, Nested, Answer, Resolve, Levels, Outcomes
  <2>2. OneKey' /\ Answered'
    BY <1>1, <1>3 DEF IInv, OneKey, Answered, Answer, Resolve
  <2>3. QED
    BY <1>3, <2>1, <2>2 DEF IInv, Answer
<1>4. CASE answer = "redirect" /\ Follows(depth) /\ Follow
  <2>1. depth + 1 \in Levels /\ depth' = depth + 1
    BY <1>1, <1>4 DEF Follow, Levels
  <2>2. TypeOK'
    BY <1>1, <1>4, <2>1 DEF IInv, TypeOK, Answer, Follow, KeepAttempts, Levels
  <2>3. Nested'
    BY <1>1, <1>4, <2>1 DEF IInv, TypeOK, Nested, Answer, Follow, KeepAttempts, Levels
  <2>4. OneKey'
    BY <1>1, <1>4, <2>1 DEF IInv, OneKey, Answer, Follow
  <2>5. Answered'
    BY <1>1, <1>2, <1>4, <2>1 DEF IInv, Answered, Answer, Follow
  <2>6. QED
    BY <1>4, <2>2, <2>3, <2>4, <2>5 DEF IInv, Answer
<1>5. CASE /\ answer # "ok" /\ ~(answer = "redirect" /\ Follows(depth))
           /\ pc' = [pc EXCEPT ![depth] = "failed"]
           /\ error' = ErrorOf(answer)
           /\ UNCHANGED <<depth, attempt, outcome>>
  <2>1. error' \in Errors /\ error' # "none"
    BY <1>5 DEF ErrorOf, Answers, Errors, HttpErrors
  <2>2. TypeOK' /\ Nested'
    BY <1>1, <1>5, <2>1 DEF IInv, TypeOK, Nested, Answer, Levels
  <2>3. OneKey'
    BY <1>5 DEF IInv, OneKey, Answer
  <2>4. answered' /\ ~answered => depth = 1 /\ error' \in {"retriable", "refused"}
    BY <1>5 DEF Answer, Answers, HttpErrors, ErrorOf
  <2>5. Answered'
    BY <1>1, <1>2, <1>5, <2>4 DEF IInv, TypeOK, Answered, Answer
  <2>6. QED
    BY <1>5, <2>2, <2>3, <2>5 DEF IInv, Answer
<1>6. QED
    BY <1>3, <1>4, <1>5 DEF Answer

LEMMA FetchAbortsKeeps == ASSUME IInv, FetchAborts PROVE IInv'
<1>1. depth \in Levels /\ depth > 0 /\ 1 \in Levels
    BY LevelFacts DEF FetchAborts
<1>2. TypeOK' /\ Nested'
    BY <1>1 DEF IInv, TypeOK, Nested, FetchAborts, Levels, Errors
<1>3. OneKey' /\ Answered'
    BY <1>1 DEF IInv, TypeOK, Nested, OneKey, Answered, FetchAborts, Levels
<1>4. QED
    BY <1>2, <1>3 DEF IInv, FetchAborts

LEMMA LongestTimerType == LongestTimer \in Nat
BY SMT DEF LongestTimer

(* Every form of a delay is a number of milliseconds, and long enough.     *)
LEMMA DelayLongEnough ==
    ASSUME NEW asked \in Hints \cup {NoHint}, NEW n \in 0..MaxRetries, NEW jitter \in BOOLEAN
    PROVE  /\ Delay(asked, n, jitter) \in Nat
           /\ asked.form \in {"seconds", "reset"} /\ asked.after \in 1..LongestTimer
                 => Delay(asked, n, jitter) >= 1000 * asked.after
           /\ asked = NoHint =>
                 \/ Delay(asked, n, jitter) >= BaseDelay * 2^n
                 \/ Delay(asked, n, jitter) >= MaxDelay
<1> USE DelaysAssumption
<1>1. CASE asked = NoHint
  <2>1. 2^n \in Nat
    BY PowersAssumption
  <2> DEFINE exponential == BaseDelay * 2^n
  <2>2. exponential \in Nat
    BY <2>1
  <2> HIDE DEF exponential
  <2> DEFINE delay == IF exponential < MaxDelay THEN exponential ELSE MaxDelay
  <2>3. delay \in Nat /\ (delay >= exponential \/ delay >= MaxDelay)
    BY <2>2
  <2> HIDE DEF delay
  <2>4. (3 * delay) \div 10 \in Nat
    BY <2>3
  <2>5. Backoff(n, jitter) \in Nat /\ Backoff(n, jitter) >= delay
    BY <2>3, <2>4 DEF Backoff, delay, exponential
  <2>6. QED
    BY <1>1, <2>2, <2>3, <2>5 DEF Delay, NoHint, exponential
<1>2. CASE asked # NoHint
  <2>1. Delay(asked, n, jitter) = Timer(RetryAfter(asked)) /\ asked \in Hints
    BY <1>2 DEF Delay
  <2>2. RetryAfter(asked) \in Int
    BY <2>1 DEF RetryAfter, Hints, NaN
  <2>3. Timer(RetryAfter(asked)) \in Nat
    BY <2>2, LongestTimerType DEF Timer
  <2>4. asked.form \in {"seconds", "reset"} /\ asked.after \in 1..LongestTimer
           => Timer(RetryAfter(asked)) >= 1000 * asked.after
    BY <2>1, LongestTimerType DEF RetryAfter, Timer, Hints
  <2>5. QED
    BY <1>2, <2>1, <2>3, <2>4
<1>3. QED
    BY <1>1, <1>2

LEMMA HandleErrorKeeps == ASSUME IInv, HandleError PROVE IInv'
<1>1. depth \in Levels /\ depth > 0 /\ 1 \in Levels /\ depth \in Int
    BY LevelFacts DEF HandleError
<1>2. error \in Errors
    BY <1>1 DEF IInv, TypeOK, Nested, HandleError
<1>3. CASE Cancelled(depth) \/ Exhausted(depth) \/ ~Eligible(error, depth)
    BY <1>1, <1>2, <1>3, LeaveKeeps DEF HandleError, Errors, HttpErrors
<1>4. CASE ~(Cancelled(depth) \/ Exhausted(depth) \/ ~Eligible(error, depth))
  <2>1. attempt[depth] < MaxRetries
    BY <1>1, <1>4 DEF IInv, TypeOK, Exhausted
  <2>2. pause' \in Nat
    <3>1. attempt[depth] \in 0..MaxRetries /\ hint \in Hints \cup {NoHint}
      BY <1>1 DEF IInv, TypeOK
    <3>2. \E jitter \in BOOLEAN : pause' = Delay(hint, attempt[depth], jitter)
      BY <1>4 DEF HandleError
    <3>3. QED
      BY <3>1, <3>2, DelayLongEnough
  <2>3. TypeOK'
    BY <1>1, <1>4, <2>2 DEF IInv, TypeOK, HandleError
  <2>4. Nested'
    BY <1>1, <1>4, <2>1 DEF IInv, TypeOK, Nested, HandleError, Levels
  <2>5. ~answered \/ options.idempotent
    BY <1>1, <1>4 DEF IInv, Nested, Answered, HandleError, Eligible, Idempotent, Levels
  <2>6. OneKey' /\ Answered'
    BY <1>1, <1>4, <2>5 DEF IInv, OneKey, Answered, HandleError
  <2>7. QED
    BY <1>4, <2>3, <2>4, <2>6 DEF IInv, HandleError
<1>5. QED
    BY <1>3, <1>4

LEMMA WakeKeeps == ASSUME IInv, Wake PROVE IInv'
<1>1. depth \in Levels /\ depth > 0 /\ 1 \in Levels /\ depth \in Int
    BY LevelFacts DEF Wake
<1>2. CASE Cancelled(depth)
    BY <1>1, <1>2, LeaveKeeps DEF Wake, Errors
<1>3. CASE ~Cancelled(depth)
  <2>1. attempt[depth] < MaxRetries
    BY <1>1 DEF IInv, Nested, Wake
  <2>2. attempt[depth] + 1 \in 0..MaxRetries
    BY <1>1, <2>1 DEF IInv, TypeOK
  <2>3. TypeOK'
    BY <1>1, <1>3, <2>2 DEF IInv, TypeOK, Wake, KeepKey
  <2>4. Nested'
    BY <1>1, <1>3 DEF IInv, TypeOK, Nested, Wake, Levels
  <2>5. OneKey' /\ Answered'
    BY <1>1, <1>3 DEF IInv, TypeOK, Nested, OneKey, Answered, Wake, KeepKey, Levels
  <2>6. QED
    BY <1>3, <2>3, <2>4, <2>5 DEF IInv, Wake
<1>4. QED
    BY <1>2, <1>3

LEMMA OthersKeep == ASSUME IInv, Abort \/ CloudApplies \/ UNCHANGED vars PROVE IInv'
<1>1. CASE Abort
    BY <1>1 DEF IInv, TypeOK, Nested, OneKey, Answered, Abort
<1>2. CASE CloudApplies
  <2>1. TypeOK' /\ Nested'
    BY <1>2 DEF IInv, TypeOK, Nested, CloudApplies
  <2>2. OneKey' /\ Answered'
    BY <1>2 DEF IInv, OneKey, Answered, CloudApplies
  <2>3. QED
    BY <1>2, <2>1, <2>2 DEF IInv, CloudApplies
<1>3. CASE UNCHANGED vars
  <2>1. TypeOK' /\ Nested'
    BY <1>3 DEF IInv, TypeOK, Nested, vars
  <2>2. QED
    BY <1>3, <2>1 DEF IInv, OneKey, Answered, vars
<1>4. QED
    BY <1>1, <1>2, <1>3

(* The inductive invariant: how the levels are nested, the one key, and    *)
(* where an answered request can be (executeWithRetry, handleResponse).    *)
THEOREM Invariance == Spec => []IInv
<1>1. IInv /\ [Next]_vars => IInv'
    BY CallKeeps, SendKeeps, AnswerKeeps, FetchAbortsKeeps, HandleErrorKeeps, WakeKeeps,
       OthersKeep
    DEF Next
<1>2. QED
    BY InitKeeps, <1>1, PTL DEF Spec

(* Every variable keeps its type, the attempts of every level among them.  *)
THEOREM Types == Spec => []TypeOK
<1>1. IInv => TypeOK
    BY DEF IInv
<1>2. QED
    BY <1>1, Invariance, PTL

(* All attempts carry one key, under which the cloud carries the request   *)
(* out once (createHeaders, request).                                      *)
THEOREM OneApplication == Spec => []AppliedOnce
<1>1. IInv => AppliedOnce
  <2> SUFFICES ASSUME IInv PROVE Cardinality(applied) <= 1
    BY DEF AppliedOnce
  <2>1. IsFiniteSet({1}) /\ Cardinality({1}) = 1
    BY FS_Singleton
  <2>2. Cardinality(applied) <= Cardinality({1})
    BY <2>1, FS_Subset DEF IInv, OneKey
  <2>3. QED
    BY <2>1, <2>2
<1>2. QED
    BY <1>1, Invariance, PTL

(* An answered request that is not idempotent is not sent again            *)
(* (isEligibleForRetry).                                                   *)
THEOREM NotResent == Spec => []AnsweredNotResent
<1>1. IInv => AnsweredNotResent
    BY DEF IInv, Answered, AnsweredNotResent
<1>2. QED
    BY <1>1, Invariance, PTL

(* The timer of a pause is set when it begins, and nothing else ends it.   *)
LEMMA StaysAwayKept == IInv /\ StaysAway /\ [Next]_vars => StaysAway'
<1> SUFFICES ASSUME IInv, StaysAway, [Next]_vars, depth' > 0, pc'[depth'] = "backoff"
             PROVE  /\ hint'.form \in {"seconds", "reset"} /\ hint'.after \in 1..LongestTimer
                          => pause' >= 1000 * hint'.after
                    /\ hint' = NoHint =>
                          pause' >= BaseDelay * 2^attempt'[depth'] \/ pause' >= MaxDelay
    BY DEF StaysAway
<1>1. 1 \in Levels /\ (depth > 0 => depth \in Levels) /\ depth \in Int
    BY LevelFacts
<1>2. CASE HandleError
  <2>1. ~Leave(error)
    BY <1>1, <1>2 DEF IInv, TypeOK, Nested, HandleError, Leave, Levels
  <2>2. /\ \E jitter \in BOOLEAN : pause' = Delay(hint, attempt[depth], jitter)
        /\ hint' = hint /\ depth' = depth /\ attempt' = attempt
    BY <1>2, <2>1 DEF HandleError
  <2>3. hint \in Hints \cup {NoHint} /\ attempt[depth] \in 0..MaxRetries
    BY <1>1, <1>2 DEF IInv, TypeOK, HandleError
  <2>4. QED
    BY <2>2, <2>3, DelayLongEnough
<1>3. CASE Abort \/ CloudApplies \/ UNCHANGED vars
    BY <1>3 DEF StaysAway, Abort, CloudApplies, vars
<1>4. CASE Call \/ FetchAborts
    BY <1>1, <1>4 DEF IInv, TypeOK, Call, FetchAborts
<1>5. CASE Send \/ Wake
  <2>1. ~Leave("aborted")
    BY <1>1, <1>5 DEF IInv, TypeOK, Nested, Send, Wake, Leave, Levels
  <2>2. QED
    BY <1>1, <1>5, <2>1 DEF IInv, TypeOK, Send, Wake
<1>6. CASE \E answer \in Answers, asked \in Hints : Answer(answer, asked)
  <2>1. PICK answer \in Answers, asked \in Hints : Answer(answer, asked)
    BY <1>6
  <2>2. CASE Resolve
    BY <2>2 DEF Resolve
  <2>3. CASE Follow
    BY <1>1, <2>3 DEF IInv, TypeOK, Follow, Levels
  <2>4. CASE depth' = depth /\ pc' = [pc EXCEPT ![depth] = "failed"]
    BY <1>1, <2>1, <2>4 DEF IInv, TypeOK, Answer
  <2>5. QED
    BY <2>1, <2>2, <2>3, <2>4 DEF Answer
<1>7. QED
    BY <1>2, <1>3, <1>4, <1>5, <1>6 DEF Next

(* Between two attempts the client waits for as long as it was asked to    *)
(* and as its backoff demands (handleRetryableError, handleResponse).      *)
THEOREM PausesLongEnough == Spec => []StaysAway
<1>1. Init => StaysAway
    BY DEF Init, StaysAway
<1>2. QED
    BY <1>1, StaysAwayKept, Invariance, PTL DEF Spec

(* A fired signal stops the caller's request (executeWithRetry).           *)
THEOREM AbortStops == Spec => AbortStopsSending
<1> DEFINE Stops == aborted /\ pc[1] # "fetch" => pc'[1] # "fetch"
<1>1. ASSUME IInv, [Next]_vars, aborted, pc[1] # "fetch" PROVE pc'[1] # "fetch"
  <2>1. 1 \in Levels /\ (depth > 0 => depth \in Levels) /\ depth \in Int /\ options.signal
    BY <1>1, LevelFacts DEF IInv
  <2>2. CASE Call \/ FetchAborts \/ Abort \/ CloudApplies \/ UNCHANGED vars
    BY <1>1, <2>1, <2>2 DEF IInv, TypeOK, Call, FetchAborts, Abort, CloudApplies, vars
  <2>3. CASE Send
    BY <1>1, <2>1, <2>3 DEF IInv, TypeOK, Send, Cancelled, Listens, Leave
  <2>4. CASE HandleError \/ Wake
    <3>1. \/ \E e \in Errors \cup {"none"} : Leave(e)
          \/ pc' = [pc EXCEPT ![depth] = "backoff"] \/ pc' = [pc EXCEPT ![depth] = "send"]
      BY <1>1, <2>4 DEF IInv, TypeOK, HandleError, Wake, Errors
    <3>2. \A e : Leave(e) => pc'[1] \in {"none", "failed", pc[1]}
      BY <2>1 DEF Leave
    <3>3. QED
      BY <1>1, <2>1, <3>1, <3>2 DEF IInv, TypeOK
  <2>5. CASE \E answer \in Answers, asked \in Hints : Answer(answer, asked)
    BY <1>1, <2>1, <2>5 DEF IInv, TypeOK, Answer, Resolve, Follow
  <2>6. QED
    BY <1>1, <2>2, <2>3, <2>4, <2>5 DEF Next
<1>2. IInv /\ [Next]_vars => [Stops]_vars
    BY <1>1
<1>3. QED
    BY <1>2, Invariance, PTL DEF Spec, AbortStopsSending
-----------------------------------------------------------------------------
(* What a level still has before it: the attempts it has left and what is  *)
(* left of the one under way.                                              *)
Left(where) ==
    CASE where = "send" -> 4
      [] where = "fetch" -> 3
      [] where = "follow" -> 2
      [] where = "failed" -> 1
      [] OTHER -> 0
Ahead(l) == 5 * (MaxRetries - attempt[l]) + Left(pc[l])

(* The call comes nearer to its end: a level has less before it than it    *)
(* had, and those above it have no more.  A level begins anew only below   *)
(* one that has moved on, so this order has no infinite descent.           *)
Nearer ==
    \E l \in Levels :
        /\ l <= depth /\ Ahead(l)' < Ahead(l)
        /\ \A k \in Levels : k < l => Ahead(k)' = Ahead(k)

Moves == UNCHANGED <<depth, pc, attempt>> \/ depth' = 0 \/ Nearer

LEMMA AheadType == ASSUME TypeOK, NEW l \in Levels PROVE Ahead(l) \in Nat
BY DEF TypeOK, Ahead, Left

(* One level moves on within its attempt, or begins the next one.          *)
LEMMA LevelMoves ==
    ASSUME TypeOK, TypeOK', NEW l \in Levels, l <= depth,
           \A k \in Levels : k < l => pc'[k] = pc[k] /\ attempt'[k] = attempt[k],
           \/ attempt'[l] = attempt[l] /\ Left(pc'[l]) < Left(pc[l])
           \/ attempt'[l] = attempt[l] + 1
    PROVE  Nearer
<1>1. Ahead(l)' < Ahead(l)
    BY DEF TypeOK, Ahead, Left
<1>2. \A k \in Levels : k < l => Ahead(k)' = Ahead(k)
    BY DEF Ahead
<1>3. QED
    BY <1>1, <1>2 DEF Nearer

LEMMA LeaveMoves ==
    ASSUME IInv, IInv', depth > 0, NEW e, Leave(e)
    PROVE  Moves
<1>1. CASE depth = 1
    BY <1>1 DEF Leave, Moves
<1>2. CASE depth > 1
  <2> DEFINE l == depth - 1
  <2>1. l \in Levels /\ l <= depth /\ depth \in Int /\ l < depth
    BY <1>2 DEF IInv, TypeOK, Levels
  <2>2. pc[l] = "follow" /\ pc'[l] = "failed" /\ attempt'[l] = attempt[l]
    BY <2>1 DEF IInv, TypeOK, Nested, Leave, Levels
  <2>3. \A k \in Levels : k < l => pc'[k] = pc[k] /\ attempt'[k] = attempt[k]
    BY <2>1 DEF IInv, TypeOK, Leave, Levels
  <2>4. Nearer
    BY <2>1, <2>2, <2>3, LevelMoves DEF IInv, Left
  <2>5. QED
    BY <2>4 DEF Moves
<1>3. QED
    BY <1>1, <1>2 DEF IInv, TypeOK

LEMMA StepMoves == ASSUME IInv, IInv', [Next]_vars, depth > 0 PROVE Moves
<1>1. depth \in Levels /\ depth <= depth /\ TypeOK /\ TypeOK'
    BY LevelFacts DEF IInv
<1>2. ASSUME NEW where, pc' = [pc EXCEPT ![depth] = where], UNCHANGED attempt,
             Left(where) < Left(pc[depth])
      PROVE  Moves
  <2>1. /\ pc'[depth] = where
        /\ \A k \in Levels : k < depth => pc'[k] = pc[k]
    BY <1>1, <1>2 DEF TypeOK
  <2>2. QED
    BY <1>1, <1>2, <2>1, LevelMoves DEF Moves
<1>3. /\ Left("fetch") < Left("send") /\ Left("failed") < Left("fetch")
      /\ Left("backoff") < Left("failed")
    BY DEF Left
<1>4. CASE Follow /\ pc[depth] = "fetch"
  <2>1. attempt' = attempt /\ pc'[depth] = "follow"
    BY <1>1, <1>4 DEF Follow, KeepAttempts, TypeOK, Levels
  <2>2. \A k \in Levels : k < depth => pc'[k] = pc[k]
    BY <1>1, <1>4 DEF Follow, TypeOK, Levels
  <2>3. QED
    BY <1>1, <1>4, <2>1, <2>2, LevelMoves DEF Moves, Left
<1>5. CASE /\ pc' = [pc EXCEPT ![depth] = "send"]
           /\ attempt' = [attempt EXCEPT ![depth] = @ + 1]
  <2>1. attempt'[depth] = attempt[depth] + 1
    BY <1>1, <1>5 DEF TypeOK
  <2>2. \A k \in Levels : k < depth => pc'[k] = pc[k] /\ attempt'[k] = attempt[k]
    BY <1>1, <1>5 DEF TypeOK
  <2>3. QED
    BY <1>1, <2>1, <2>2, LevelMoves DEF Moves
<1>6. QED
  <2>1. CASE Send
    BY <1>2, <1>3, <2>1, LeaveMoves DEF Send
  <2>2. CASE FetchAborts
    BY <1>2, <1>3, <2>2 DEF FetchAborts
  <2>3. CASE HandleError
    <3>1. \/ Leave(error)
          \/ pc' = [pc EXCEPT ![depth] = "backoff"] /\ pc[depth] = "failed" /\ UNCHANGED attempt
      BY <2>3 DEF HandleError
    <3>2. QED
      BY <1>2, <1>3, <3>1, LeaveMoves
  <2>4. CASE Wake
    BY <1>5, <2>4, LeaveMoves DEF Wake
  <2>5. CASE \E answer \in Answers, asked \in Hints : Answer(answer, asked)
    BY <1>2, <1>3, <1>4, <2>5 DEF Answer, Resolve, Moves
  <2>6. CASE Call \/ Abort \/ CloudApplies \/ UNCHANGED vars
    BY <2>6 DEF Call, Abort, CloudApplies, vars, Moves
  <2>7. QED
    BY <2>1, <2>2, <2>3, <2>4, <2>5, <2>6 DEF Next

(* Every step of the retry loops, a step of any level after any answer,    *)
(* brings the call nearer to its end in an order without infinite descent: *)
(* although nested requests multiply each other's attempts, a call sends   *)
(* boundedly often however many redirects follow each other                *)
(* (executeWithRetry, handleResponse).                                     *)
THEOREM CallAdvances ==
    Spec => [](\A l \in Levels : Ahead(l) \in Nat) /\ [][depth > 0 => Moves]_vars
<1>1. IInv => \A l \in Levels : Ahead(l) \in Nat
    BY AheadType DEF IInv
<1>2. IInv /\ IInv' /\ [Next]_vars => [depth > 0 => Moves]_vars
    BY StepMoves
<1>3. QED
    BY <1>1, <1>2, Invariance, PTL DEF Spec
=============================================================================
