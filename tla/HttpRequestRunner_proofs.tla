----------------------- MODULE HttpRequestRunner_proofs ---------------------
(***************************************************************************)
(* The safety of HttpRequestRunner, for any finite set of requests and any *)
(* limit of the agent, and of RepeaterRequests, which implements it.       *)
(***************************************************************************)
EXTENDS RepeaterRequests, FiniteSetTheorems, TLAPS

Held == {r \in Requests : socket[r] = "held"}

Typed ==
    /\ options \in [Requests -> [timeout : BOOLEAN, decompress : BOOLEAN]]
    /\ phase \in [Requests -> Phases]
    /\ timer \in [Requests -> BOOLEAN]
    /\ socket \in [Requests -> {"none", "queued", "held"}]
    /\ head \in [Requests -> Heads \cup {"none"}]
    /\ result \in [Requests -> {"none", "response", "timedOut", "failed"}]

(* What a run waits for: its place in the agent and, with a timeout, its   *)
(* timer; then its socket, which it loses unnoticed only behind a decoder. *)
Waiting(r) ==
    /\ phase[r] = "head" => socket[r] # "none" /\ timer[r] = options[r].timeout
    /\ phase[r] = "body" => socket[r] = "held" \/ Stalled(r)

(* How the timer, the head, the result and the socket of a request follow  *)
(* the phase it is in.                                                     *)
Consistent(r) ==
    /\ timer[r] => phase[r] = "head"
    /\ phase[r] \in {"idle", "head"} => head[r] = "none"
    /\ result[r] # "none" => phase[r] = "over"
    /\ result[r] = "timedOut" => head[r] = "none"
    /\ phase[r] = "idle" => socket[r] = "none"
    /\ socket[r] = "queued" => phase[r] = "head"
    /\ phase[r] = "over" /\ socket[r] = "held" => Unread(r)
    /\ Waiting(r)

IInv ==
    /\ Typed
    /\ Cardinality(Held) <= MaxSockets
    /\ \A r \in Requests : Consistent(r)

(* The agent's limit holds when at most one request is added to the held   *)
(* ones, and only below the limit.                                         *)
LEMMA LimitKept ==
    ASSUME Cardinality(Held) <= MaxSockets,
           NEW r \in Requests,
           \/ Held' \subseteq Held
           \/ FreeSocket /\ Held' \subseteq Held \cup {r}
    PROVE  Cardinality(Held)' <= MaxSockets
<1>1. IsFiniteSet(Held) /\ Cardinality(Held) \in Nat
    BY RequestsAssumption, FS_Subset, FS_CardinalityType DEF Held
<1>2. CASE Held' \subseteq Held
    BY <1>1, <1>2, FS_Subset, FS_CardinalityType, MaxSocketsAssumption
<1>3. CASE FreeSocket /\ Held' \subseteq Held \cup {r}
  <2>1. IsFiniteSet(Held \cup {r}) /\ Cardinality(Held \cup {r}) \in Nat
        /\ Cardinality(Held \cup {r}) <= Cardinality(Held) + 1
    BY <1>1, FS_AddElement, FS_CardinalityType
  <2>2. Cardinality(Held') \in Nat /\ Cardinality(Held') <= Cardinality(Held \cup {r})
    BY <1>3, <2>1, FS_Subset, FS_CardinalityType
  <2>3. Cardinality(Held) < MaxSockets
    BY <1>3 DEF FreeSocket, Held
  <2>4. QED
    BY <1>1, <2>1, <2>2, <2>3, MaxSocketsAssumption
<1>4. QED
    BY <1>2, <1>3

(* What the actions of one request leave alone.                            *)
Local(r) ==
    /\ UNCHANGED options
    /\ \A q \in Requests \ {r} :
          /\ phase'[q] = phase[q] /\ timer'[q] = timer[q] /\ socket'[q] = socket[q]
          /\ head'[q] = head[q] /\ result'[q] = result[q]
    /\ socket'[r] = "held" /\ socket[r] # "held" => FreeSocket

LEMMA LocalKeeps ==
    ASSUME IInv, NEW r \in Requests, Typed', Local(r), Consistent(r)'
    PROVE  IInv'
<1>1. \A q \in Requests \ {r} : Consistent(q)'
    BY DEF IInv, Local, Consistent, Unread, Piped, Waiting, Stalled
<1>2. Held' \subseteq Held \/ (FreeSocket /\ Held' \subseteq Held \cup {r})
  <2>1. Held' \subseteq Held \cup {r}
    BY DEF Held, Local
  <2>2. r \in Held' /\ r \notin Held => FreeSocket
    BY DEF Held, Local
  <2>3. QED
    BY <2>1, <2>2
<1>3. Cardinality(Held)' <= MaxSockets
    BY <1>2, LimitKept DEF IInv
<1>4. QED
    BY <1>1, <1>3 DEF IInv

LEMMA StepIsLocal ==
    ASSUME IInv, NEW r \in Requests,
           \/ Run(r) \/ BodyEnds(r) \/ DecoderFails(r) \/ ConnectionLost(r)
           \/ TimerFires(r) \/ SocketFreed(r)
           \/ \E kind \in Heads : HeadArrives(r, kind)
    PROVE  Typed' /\ Local(r) /\ Consistent(r)'
<1>0. Typed /\ Consistent(r)
    BY DEF IInv
<1>1. CASE Run(r)
  <2>1. Typed'
    BY <1>0, <1>1 DEF Typed, Run, Settle, Armed, Phases
  <2>2. Local(r)
    BY <1>0, <1>1 DEF Typed, Run, Settle, Local
  <2>3. Consistent(r)'
    BY <1>0, <1>1 DEF Typed, Run, Settle, Armed, Consistent, Waiting, Stalled, Piped
  <2>4. QED
    BY <2>1, <2>2, <2>3
<1>2. CASE BodyEnds(r)
    BY <1>0, <1>2 DEF Typed, BodyEnds, Release, Settle, Local, Consistent, Phases,
       Waiting, Stalled, Piped
<1>3. CASE DecoderFails(r)
  <2>1. Typed' /\ Local(r)
    BY <1>0, <1>3 DEF Typed, DecoderFails, Settle, Local, Phases
  <2>2. Consistent(r)'
    BY <1>0, <1>3 DEF Typed, DecoderFails, Settle, Consistent, Unread, Piped, Waiting,
       Stalled
  <2>3. QED
    BY <2>1, <2>2
<1>4. CASE ConnectionLost(r)
  <2>1. Typed'
    BY <1>0, <1>4 DEF Typed, ConnectionLost, Release, Settle, ClearTimer, Phases
  <2>2. Local(r)
    BY <1>0, <1>4 DEF Typed, ConnectionLost, Release, Settle, ClearTimer, Local
  <2>3. Consistent(r)'
    BY <1>0, <1>4 DEF Typed, ConnectionLost, Release, Settle, ClearTimer, Consistent,
       Waiting, Stalled, Piped
  <2>4. QED
    BY <2>1, <2>2, <2>3
<1>5. CASE TimerFires(r)
  <2>1. Typed' /\ Local(r)
    BY <1>0, <1>5 DEF Typed, TimerFires, Destroy, Release, Settle, Local, Phases
  <2>2. Consistent(r)'
    BY <1>0, <1>5 DEF Typed, TimerFires, Destroy, Release, Settle, Consistent, Waiting,
       Stalled, Piped
  <2>3. QED
    BY <2>1, <2>2
<1>6. CASE SocketFreed(r)
    BY <1>0, <1>6 DEF Typed, SocketFreed, Local, Consistent, Waiting, Stalled, Piped
<1>7. CASE \E kind \in Heads : HeadArrives(r, kind)
  <2>1. PICK kind \in Heads : HeadArrives(r, kind)
    BY <1>7
  <2>2. Typed'
    BY <1>0, <2>1 DEF Typed, HeadArrives, ClearTimer, Settle, Phases
  <2>3. Local(r)
    BY <1>0, <2>1 DEF Typed, HeadArrives, ClearTimer, Settle, Local
  <2>4. Consistent(r)'
    BY <1>0, <2>1 DEF Typed, HeadArrives, ClearTimer, Settle, Consistent, Unread,
       Heads, Waiting, Stalled, Piped
  <2>5. QED
    BY <2>2, <2>3, <2>4
<1>8. QED
    BY <1>1, <1>2, <1>3, <1>4, <1>5, <1>6, <1>7

(* The inductive invariant: how everything about a request follows its     *)
(* phase, and the limit of the agent (request, setTimeout, unzipBody).     *)
THEOREM Invariance == Spec => []IInv
<1>1. Init => IInv
  <2> SUFFICES ASSUME Init PROVE IInv
    OBVIOUS
  <2>1. Typed /\ \A r \in Requests : Consistent(r)
    BY DEF Init, Typed, Consistent, Phases, Waiting, Stalled, Piped
  <2>2. Held = {}
    BY DEF Init, Held
  <2>3. Cardinality(Held) <= MaxSockets
    BY <2>2, FS_EmptySet, MaxSocketsAssumption
  <2>4. QED
    BY <2>1, <2>3 DEF IInv
<1>2. IInv /\ [Next]_vars => IInv'
  <2> SUFFICES ASSUME IInv, [Next]_vars PROVE IInv'
    OBVIOUS
  <2>1. CASE Next
    BY <2>1, StepIsLocal, LocalKeeps DEF Next
  <2>2. CASE UNCHANGED vars
    BY <2>2 DEF vars, IInv, Typed, Held, Consistent, Unread, Piped, Waiting, Stalled
  <2>3. QED
    BY <2>1, <2>2
<1>3. QED
    BY <1>1, <1>2, PTL DEF Spec

(* Every variable keeps its type and the agent never hands out more        *)
(* sockets than its limit allows.                                          *)
THEOREM Types == Spec => []TypeOK
<1>1. IInv => TypeOK
    BY DEF IInv, Typed, TypeOK, Held
<1>2. QED
    BY <1>1, Invariance, PTL

(* A run that timed out had received nothing (request, setTimeout).        *)
THEOREM TimeoutIsAboutHead == Spec => []TimedOutWithoutHead
<1>1. IInv => TimedOutWithoutHead
    BY DEF IInv, Consistent, TimedOutWithoutHead
<1>2. QED
    BY <1>1, Invariance, PTL

(* Sockets come back but from responses left unread (request, unzipBody).  *)
THEOREM ReturnsSockets == Spec => []SocketsReturned
<1>1. IInv => SocketsReturned
    BY DEF IInv, Consistent, SocketsReturned
<1>2. QED
    BY <1>1, Invariance, PTL

(* A run under way has something to wait for, under its timer if it has a  *)
(* timeout: no order of timers, errors and sockets leaves it with neither  *)
(* but a connection lost in the middle of an encoded body (request,        *)
(* setTimeout, unzipBody).                                                 *)
THEOREM NobodyWaitsInVain == Spec => [](\A r \in Requests : Waiting(r))
<1>1. IInv => \A r \in Requests : Waiting(r)
    BY DEF IInv, Consistent
<1>2. QED
    BY <1>1, Invariance, PTL
-----------------------------------------------------------------------------
(* A step of the composition is a step of the runner or leaves it alone.   *)
LEMMA ServiceStepImplements ==
    ASSUME [ServiceNext]_serviceVars
    PROVE  [Next]_vars
<1>1. CASE SessionStep \/ \E l \in Announced : LimitsReceived(l)
    BY <1>1 DEF SessionStep, LimitsReceived
<1>2. CASE \E r \in Requests : RequestRefused(r)
    BY <1>2 DEF RequestRefused
<1>3. CASE \E r \in Requests, o \in OwnLimits \cup {None} : RequestReceived(r, o)
    BY <1>3 DEF RequestReceived, Next
<1>4. CASE \E r \in Requests, kind \in Heads, type \in {"allowed", "other"} :
             HeadReceived(r, kind, type)
    BY <1>4 DEF HeadReceived, Next
<1>5. CASE \E r \in Requests :
             BodyReceived(r) \/ RunFails(r) \/ RunTimesOut(r) \/ SocketGiven(r)
    BY <1>5 DEF BodyReceived, RunFails, RunTimesOut, SocketGiven, Next
<1>6. CASE UNCHANGED serviceVars
    BY <1>6 DEF serviceVars
<1>7. QED
  <2>1. ASSUME NEW r \in Requests
        PROVE  /\ Owns(r) \subseteq OwnLimits \cup {None}
               /\ MimeTypes(r) \subseteq {"allowed", "other"}
    BY DEF Owns, MimeTypes, Varying
  <2>2. QED
    BY <2>1, <1>1, <1>2, <1>3, <1>4, <1>5, <1>6 DEF ServiceNext

(* The requests of the cloud are runs of HttpRequestRunner, so that all    *)
(* that holds of every runner holds of the one that serves a repeater      *)
(* (requestReceived, sendRequest).                                         *)
THEOREM ServiceImplementsRunner == ServiceSpec => Spec
<1>1. ServiceInit => Init
    BY DEF ServiceInit
<1>2. [ServiceNext]_serviceVars => [Next]_vars
    BY ServiceStepImplements
<1>3. QED
    BY <1>1, <1>2, PTL DEF ServiceSpec, Spec

(* What is known of the connections.                                       *)
ConnectionInv ==
    /\ connection \in Nat
    /\ link = "up" => connection > 0
    /\ asked \in [Requests -> Int]
    /\ answer \in [Requests -> {"none", "delivered", "stray", "dropped", "refused"}]

(* How the answer to a request follows the request's run and connection.   *)
Answering(r) ==
    /\ asked[r] <= connection
    /\ asked[r] = NotAsked => phase[r] = "idle" /\ answer[r] = "none"
    /\ asked[r] # NotAsked => (phase[r] \in {"head", "body"} <=> answer[r] = "none")
    /\ answer[r] = "delivered" => phase[r] = "over"
    /\ answer[r] = "refused" => phase[r] = "idle"
    /\ answer[r] \in {"dropped", "stray"} /\ asked[r] = connection => link # "up"

AnswerInv == ConnectionInv /\ \A r \in Requests : Answering(r)

(* The session disturbs no answer that was given.                          *)
LEMMA SessionKeepsAnswers ==
    ASSUME AnswerInv, SessionStep
    PROVE  AnswerInv'
<1>1. /\ UNCHANGED <<phase, answer>>
      /\ connection' = IF link # "up" /\ link' = "up" THEN connection + 1
                       ELSE connection
    BY DEF SessionStep, CountConnection, vars
<1>2. \/ UNCHANGED asked
      \/ ForgetRequesters /\ link' = "none"
    BY DEF SessionStep, Session!End
<1>3. CASE UNCHANGED asked
    BY <1>1, <1>3 DEF AnswerInv, ConnectionInv, Answering, NotAsked
<1>4. CASE ForgetRequesters /\ link' = "none"
    BY <1>1, <1>4 DEF AnswerInv, ConnectionInv, Answering, NotAsked, Closed,
                      ForgetRequesters
<1>5. QED
    BY <1>2, <1>3, <1>4

(* A step of the runner under which r is answered if its run ends.         *)
LEMMA AcknowledgeKeepsAnswers ==
    ASSUME IInv, AnswerInv, NEW r \in Requests, Acknowledge(r), Local(r),
           phase[r] \in {"head", "body"}, phase'[r] \in {"head", "body", "over"},
           UNCHANGED <<link, connection, asked>>
    PROVE  AnswerInv'
<1>1. \A q \in Requests \ {r} : answer'[q] = answer[q] /\ phase'[q] = phase[q]
    BY DEF Acknowledge, Local, AnswerInv, ConnectionInv
<1>2. ConnectionInv'
    BY DEF AnswerInv, ConnectionInv, Acknowledge, Destination
<1>3. \A q \in Requests \ {r} : Answering(q)'
    BY <1>1 DEF AnswerInv, Answering
<1>4. Answering(r)'
    BY <1>2 DEF AnswerInv, ConnectionInv, Answering, Acknowledge, Ends, Destination,
                NotAsked, Closed
<1>5. QED
    BY <1>2, <1>3, <1>4 DEF AnswerInv

(* A REQUEST event, whether a run is made of it or not.                    *)
LEMMA EventKeepsAnswers ==
    ASSUME IInv, AnswerInv, NEW r \in Requests,
           RequestRefused(r) \/ \E o \in Owns(r) : RequestReceived(r, o)
    PROVE  AnswerInv'
<1>1. CASE RequestRefused(r)
  <2>1. ConnectionInv'
    BY <1>1 DEF AnswerInv, ConnectionInv, RequestRefused, sessionVars
  <2>2. ASSUME NEW q \in Requests PROVE Answering(q)'
    BY <1>1, <2>1 DEF AnswerInv, ConnectionInv, Answering, RequestRefused,
                      sessionVars, vars, NotAsked
  <2>3. QED
    BY <2>1, <2>2 DEF AnswerInv
<1>2. CASE \E o \in Owns(r) : RequestReceived(r, o)
  <2>0. PICK o \in Owns(r) : RequestReceived(r, o)
    BY <1>2
  <2>1. ConnectionInv'
    BY <2>0 DEF AnswerInv, ConnectionInv, RequestReceived, sessionVars
  <2>2. phase'[r] \in {"head", "over"} /\ \A q \in Requests \ {r} : phase'[q] = phase[q]
    BY <2>0 DEF RequestReceived, Run, Settle, IInv, Typed
  <2>3. ASSUME NEW q \in Requests PROVE Answering(q)'
    BY <2>0, <2>1, <2>2 DEF AnswerInv, ConnectionInv, Answering, RequestReceived,
                      sessionVars, NotAsked
  <2>4. QED
    BY <2>1, <2>3 DEF AnswerInv
<1>3. QED
    BY <1>1, <1>2

LEMMA RunKeepsAnswers ==
    ASSUME IInv, AnswerInv, NEW r \in Requests,
           \/ BodyReceived(r) \/ RunFails(r) \/ RunTimesOut(r) \/ SocketGiven(r)
           \/ \E kind \in Heads, type \in MimeTypes(r) : HeadReceived(r, kind, type)
    PROVE  AnswerInv'
<1>1. Local(r) /\ Typed' /\ Consistent(r)
    BY StepIsLocal DEF IInv, BodyReceived, RunFails, RunTimesOut, SocketGiven,
                       HeadReceived
<1>2. CASE ConnectionLost(r) /\ phase[r] = "over" /\ RunFails(r)
  <2>1. UNCHANGED <<phase, answer, link, connection, asked>>
    BY <1>2, <1>1 DEF ConnectionLost, RunFails, Alongside, Acknowledge, Ends, sessionVars
  <2>2. QED
    BY <2>1 DEF AnswerInv, ConnectionInv, Answering
<1>3. CASE ~(ConnectionLost(r) /\ phase[r] = "over" /\ RunFails(r))
  <2>1. Acknowledge(r) /\ UNCHANGED <<link, connection, asked>>
    BY DEF BodyReceived, RunFails, RunTimesOut, SocketGiven, HeadReceived, Alongside,
           sessionVars
  <2>2. phase[r] \in {"head", "body"}
    BY <1>1, <1>3 DEF BodyReceived, RunFails, RunTimesOut, SocketGiven, HeadReceived,
                BodyEnds, DecoderFails, ConnectionLost, TimerFires, SocketFreed,
                HeadArrives, Consistent, IInv, Typed, Phases
  <2>3. phase'[r] \in {"head", "body", "over"}
    BY <2>2, <1>1 DEF BodyReceived, RunFails, RunTimesOut, SocketGiven, HeadReceived,
                BodyEnds, DecoderFails, ConnectionLost, TimerFires, SocketFreed,
                HeadArrives, Settle, IInv, Typed
  <2>4. QED
    BY <1>1, <2>1, <2>2, <2>3, AcknowledgeKeepsAnswers
<1>4. QED
    BY <1>2, <1>3

(* However a run ends, the cloud gets an answer on the connection it asked *)
(* on, while that is up (run, requestReceived, wrapEventListener).         *)
THEOREM OutcomesAnswered == ServiceSpec => []EveryOutcomeAnswered
<1>1. ServiceInit => AnswerInv
    BY DEF ServiceInit, Init, Session!SessionInit, AnswerInv, ConnectionInv, Answering,
           NotAsked
<1>2. IInv /\ AnswerInv /\ [ServiceNext]_serviceVars => AnswerInv'
  <2> SUFFICES ASSUME IInv, AnswerInv, [ServiceNext]_serviceVars PROVE AnswerInv'
    OBVIOUS
  <2>1. CASE \E l \in Announced : LimitsReceived(l)
    BY <2>1 DEF LimitsReceived, sessionVars, vars, AnswerInv, ConnectionInv, Answering
  <2>2. CASE UNCHANGED serviceVars
    BY <2>2 DEF serviceVars, sessionVars, vars, AnswerInv, ConnectionInv, Answering
  <2>3. QED
    BY <2>1, <2>2, SessionKeepsAnswers, EventKeepsAnswers, RunKeepsAnswers DEF ServiceNext
<1>3. AnswerInv => EveryOutcomeAnswered
    BY DEF AnswerInv, ConnectionInv, Answering, EveryOutcomeAnswered, NotAsked
<1>4. QED
    BY <1>1, <1>2, <1>3, ServiceImplementsRunner, Invariance, PTL DEF ServiceSpec

(* The limit l cuts less than the limit m, or as much.                     *)
Covers(l, m) ==
    \/ l = NoTruncation
    \/ l = 0 /\ m # NoTruncation
    \/ m > 0 /\ m <= l

LEMMA LaxerCovers ==
    ASSUME NEW l \in Nat \cup {NoTruncation}, NEW m \in Nat \cup {NoTruncation}
    PROVE  Laxer(l, m) \in Nat \cup {NoTruncation} /\ Covers(Laxer(l, m), m)
    BY DEF Laxer, Covers, NoTruncation

LimitTyped ==
    /\ limit \in Nat \cup {NoTruncation}
    /\ own \in [Requests -> Nat \cup {None}]
    /\ laxest \in [Requests -> Nat \cup {NoTruncation}]
    /\ mime \in [Requests -> {"none", "allowed", "other"}]
    /\ bound \in [Requests -> Int]

(* Until the head comes the limit in force is covered by the history; what *)
(* truncateResponse() settled on stays covered.                            *)
Limiting(r) ==
    /\ mime[r] # "none" => phase[r] = "body"
    /\ r \in Varied /\ phase[r] = "head" => Covers(laxest[r], limit)
    /\ mime[r] = "other" =>
          \/ laxest[r] = NoTruncation
          \/ own[r] = None /\ laxest[r] = 0
          \/ bound[r] \in 0..(IF own[r] = None THEN laxest[r] ELSE own[r])

LimitInv == LimitTyped /\ \A r \in Requests : Limiting(r)

LEMMA LimitsEventKeepsLimits ==
    ASSUME LimitInv, NEW l \in Announced, LimitsReceived(l)
    PROVE  LimitInv'
<1>1. l \in Nat \cup {NoTruncation}
    BY LimitsAssumption DEF Announced
<1>2. LimitTyped'
  <2>1. \A r \in Requests : Laxer(laxest[r], l) \in Nat \cup {NoTruncation}
    BY <1>1, LaxerCovers DEF LimitInv, LimitTyped
  <2>2. QED
    BY <1>1, <2>1 DEF LimitInv, LimitTyped, LimitsReceived
<1>3. ASSUME NEW r \in Requests PROVE Limiting(r)'
  <2>1. CASE r \in Varied /\ phase[r] = "head"
    <3>1. Covers(laxest'[r], limit')
      BY <1>1, <2>1, LaxerCovers DEF LimitInv, LimitTyped, LimitsReceived
    <3>2. mime'[r] = "none" /\ phase' = phase
      BY <2>1 DEF LimitInv, Limiting, LimitTyped, LimitsReceived, vars
    <3>3. QED
      BY <3>1, <3>2 DEF Limiting
  <2>2. CASE ~(r \in Varied /\ phase[r] = "head")
    BY <2>2 DEF LimitInv, LimitTyped, Limiting, LimitsReceived, vars
  <2>3. QED
    BY <2>1, <2>2
<1>4. QED
    BY <1>2, <1>3 DEF LimitInv

(* A step of one request's run touches the locals of that run only.        *)
LEMMA LocalsKeepLimits ==
    ASSUME LimitInv, NEW r \in Requests, Local(r), UNCHANGED limit,
           LimitTyped', Limiting(r)',
           \A q \in Requests \ {r} :
               /\ own'[q] = own[q] /\ mime'[q] = mime[q]
               /\ bound'[q] = bound[q] /\ laxest'[q] = laxest[q]
    PROVE  LimitInv'
<1>1. \A q \in Requests \ {r} : Limiting(q)'
    BY DEF LimitInv, Limiting, Local
<1>2. QED
    BY <1>1 DEF LimitInv

LEMMA ForgetKeepsLimits ==
    ASSUME LimitInv, NEW r \in Requests, Local(r), UNCHANGED limit, Forget(r),
           phase'[r] = "over"
    PROVE  LimitInv'
<1>1. LimitTyped'
    BY LimitsAssumption DEF LimitInv, LimitTyped, Forget, None
<1>2. Limiting(r)'
    BY DEF LimitInv, LimitTyped, Limiting, Forget
<1>3. QED
    BY <1>1, <1>2, LocalsKeepLimits DEF Forget, LimitInv, LimitTyped

(* The bound that truncateResponse() settles on is covered.                *)
LEMMA BoundCovered ==
    ASSUME LimitInv, NEW r \in Varied, r \in Requests, phase[r] = "head"
    PROVE  \/ laxest[r] = NoTruncation
           \/ own[r] = None /\ laxest[r] = 0
           \/ Bound(r, "other") \in 0..(IF own[r] = None THEN laxest[r] ELSE own[r])
    BY DEF LimitInv, LimitTyped, Limiting, Covers, Bound, None, NoTruncation

LEMMA HeadKeepsLimits ==
    ASSUME IInv, LimitInv, NEW r \in Requests, Local(r), NEW kind \in Heads,
           NEW type \in MimeTypes(r), HeadReceived(r, kind, type)
    PROVE  LimitInv'
<1>1. CASE kind = "empty"
    BY <1>1, ForgetKeepsLimits DEF HeadReceived, HeadArrives, Settle, IInv, Typed
<1>2. CASE kind # "empty"
  <2>1. /\ mime' = [mime EXCEPT ![r] = type]
        /\ bound' = [bound EXCEPT ![r] = Bound(r, type)]
        /\ UNCHANGED <<own, laxest, limit>>
        /\ phase[r] = "head" /\ phase'[r] = "body"
    BY <1>2 DEF HeadReceived, HeadArrives, IInv, Typed
  <2>2. Bound(r, type) \in Int
    BY DEF Bound, LimitInv, LimitTyped, None, NoTruncation
  <2>3. LimitTyped'
    BY <2>1, <2>2 DEF LimitInv, LimitTyped, MimeTypes, Varying
  <2>4. type = "other" => r \in Varied
    BY DEF MimeTypes, Varying
  <2>5. Limiting(r)'
    BY <2>1, <2>4, BoundCovered DEF Limiting, LimitInv, LimitTyped
  <2>6. QED
    BY <2>1, <2>3, <2>5, LocalsKeepLimits DEF LimitInv, LimitTyped
<1>3. QED
    BY <1>1, <1>2

LEMMA EventKeepsLimits ==
    ASSUME IInv, LimitInv, NEW r \in Requests, Local(r), NEW o \in Owns(r),
           RequestReceived(r, o)
    PROVE  LimitInv'
<1>1. CASE phase'[r] = "over"
    BY <1>1, ForgetKeepsLimits DEF RequestReceived
<1>2. CASE phase'[r] # "over"
  <2>1. /\ own' = [own EXCEPT ![r] = o]
        /\ laxest' = [laxest EXCEPT ![r] = IF r \in Varied THEN limit ELSE @]
        /\ UNCHANGED <<mime, bound, limit>>
    BY <1>2 DEF RequestReceived
  <2>2. o \in Nat \cup {None}
    BY LimitsAssumption DEF Owns, Varying
  <2>3. LimitTyped'
    BY <2>1, <2>2 DEF LimitInv, LimitTyped
  <2>4. mime[r] = "none"
    BY DEF RequestReceived, Run, LimitInv, Limiting
  <2>5. Limiting(r)'
    BY <2>1, <2>4 DEF Limiting, LimitInv, LimitTyped, Covers, NoTruncation
  <2>6. QED
    BY <2>1, <2>3, <2>5, LocalsKeepLimits DEF LimitInv, LimitTyped
<1>3. QED
    BY <1>1, <1>2

LEMMA RunKeepsLimits ==
    ASSUME IInv, LimitInv, NEW r \in Requests, Local(r),
           \/ BodyReceived(r) \/ RunFails(r) \/ RunTimesOut(r) \/ SocketGiven(r)
    PROVE  LimitInv'
<1>1. CASE BodyReceived(r)
    BY <1>1, ForgetKeepsLimits DEF BodyReceived, BodyEnds, Settle, IInv, Typed
<1>2. CASE RunFails(r) \/ RunTimesOut(r) \/ SocketGiven(r)
  <2>1. Alongside(r)
    BY <1>2 DEF RunFails, RunTimesOut, SocketGiven
  <2>2. CASE Ends(r)
    BY <2>1, <2>2, ForgetKeepsLimits DEF Alongside, Ends
  <2>3. CASE ~Ends(r)
    <3>1. UNCHANGED <<own, mime, bound, laxest, limit>>
      BY <2>1, <2>3 DEF Alongside, localVars
    <3>2. phase'[r] = phase[r]
      BY <1>2, <2>3 DEF RunFails, RunTimesOut, SocketGiven, DecoderFails, ConnectionLost,
            TimerFires, SocketFreed, Settle, Ends, IInv, Typed, Consistent
    <3>3. QED
      BY <3>1, <3>2, LocalsKeepLimits DEF LimitInv, LimitTyped, Limiting
  <2>4. QED
    BY <2>2, <2>3
<1>3. QED
    BY <1>1, <1>2

(* A body is cut by a limit that was in force between the event of its     *)
(* request and the head of its response, whatever LIMITS events come in    *)
(* between (limitsReceived, truncateResponse).                             *)
THEOREM BodiesWithinLimits == ServiceSpec => []BodyWithinLimits
<1>1. ServiceInit => LimitInv
    BY LimitsAssumption DEF ServiceInit, LimitInv, LimitTyped, Limiting, None, Init
<1>2. IInv /\ LimitInv /\ [ServiceNext]_serviceVars => LimitInv'
  <2> SUFFICES ASSUME IInv, LimitInv, [ServiceNext]_serviceVars PROVE LimitInv'
    OBVIOUS
  <2>1. CASE SessionStep \/ (\E r \in Requests : RequestRefused(r)) \/ UNCHANGED serviceVars
    BY <2>1 DEF SessionStep, RequestRefused, serviceVars, vars, localVars, LimitInv,
                LimitTyped, Limiting
  <2>2. CASE \E l \in Announced : LimitsReceived(l)
    BY <2>2, LimitsEventKeepsLimits
  <2>3. ASSUME NEW r \in Requests,
               \/ BodyReceived(r) \/ RunFails(r) \/ RunTimesOut(r) \/ SocketGiven(r)
        PROVE  LimitInv'
    BY <2>3, StepIsLocal, RunKeepsLimits DEF BodyReceived, RunFails, RunTimesOut, SocketGiven
  <2>4. ASSUME NEW r \in Requests, NEW o \in Owns(r), RequestReceived(r, o)
        PROVE  LimitInv'
    BY <2>4, StepIsLocal, EventKeepsLimits DEF RequestReceived
  <2>5. ASSUME NEW r \in Requests, NEW kind \in Heads, NEW type \in MimeTypes(r),
               HeadReceived(r, kind, type)
        PROVE  LimitInv'
    BY <2>5, StepIsLocal, HeadKeepsLimits DEF HeadReceived
  <2>6. QED
    BY <2>1, <2>2, <2>3, <2>4, <2>5 DEF ServiceNext
<1>3. LimitInv => BodyWithinLimits
    BY DEF LimitInv, Limiting, BodyWithinLimits
<1>4. QED
    BY <1>1, <1>2, <1>3, ServiceImplementsRunner, Invariance, PTL DEF ServiceSpec
=============================================================================
