--------------------------- MODULE RepeaterRequests --------------------------
(***************************************************************************)
(* The requests that the cloud sends to a Repeater, from the REQUEST event *)
(* to its acknowledgement: the requests under way of HttpRequestRunner     *)
(* under the session of RepeaterSession (Repeater.requestReceived,         *)
(* DefaultRepeaterCommands.sendRequest, Request, and wrapEventListener of  *)
(* DefaultRepeaterServer), with the limit that a LIMITS event imposes on   *)
(* the bodies of the answers (Repeater.limitsReceived).                    *)
(*                                                                         *)
(* A run that ends is answered in the same turn of the event loop.  A      *)
(* request may be under way while the connection it came on is lost, and   *)
(* while the session ends: nothing cancels it.  A start() over the socket  *)
(* of a failed start() is not taken here; Repeater says what it leads to.  *)
(***************************************************************************)
EXTENDS HttpRequestRunner

CONSTANTS
    MaxConnections,     \* bound: connections made in a history
    Varied,             \* bound: requests with limits, or without a timeout
    DefaultLimit,       \* maxContentLength of the options, in KiB
    Limits,             \* what a LIMITS event may announce beside -1, in KiB
    OwnLimits           \* the maxContentSize of a request, in KiB

(* No maxContentSize, or no bound. *)
None == -1

(* A limit of -1 means that nothing is truncated. *)
NoTruncation == -1
Announced == Limits \cup {NoTruncation}

ASSUME MaxConnectionsAssumption == MaxConnections \in Nat
ASSUME LimitsAssumption ==
    /\ Varied \subseteq Requests
    /\ DefaultLimit \in Nat \ {0} /\ Limits \subseteq Nat
    /\ OwnLimits \subseteq Nat

VARIABLES
    status,     \* of the session, see RepeaterSession
    link,
    connection, \* the number of the latest connection
    limit,      \* requestRunnerOptions.maxContentLength
    asked,      \* the connection a request came on
    own,        \* its maxContentSize
    mime,       \* the type of its response: among allowedMimes or not
    bound,      \* the maxBodySize that truncateResponse() has settled on
    laxest,     \* history: the laxest limit between its event and its head
    answer      \* what became of the acknowledgement

sessionVars == <<status, link, connection>>
localVars == <<own, mime, bound, laxest>>
serviceVars == <<vars, sessionVars, limit, asked, answer, localVars>>

Session == INSTANCE RepeaterSession

NotAsked == 0
Closed == -1    \* it came on a socket that disconnect() has closed

ServiceInit ==
    /\ Init /\ Session!SessionInit
    /\ \A r \in Requests \ Varied : options[r].timeout
    /\ connection = 0 /\ limit = DefaultLimit
    /\ asked = [r \in Requests |-> NotAsked]
    /\ own = [r \in Requests |-> None]
    /\ mime = [r \in Requests |-> "none"]
    /\ bound = [r \in Requests |-> None]
    /\ answer = [r \in Requests |-> "none"]
    /\ laxest = [r \in Requests |-> DefaultLimit]
-----------------------------------------------------------------------------
(* The session. *)
CountConnection ==
    connection' = IF link # "up" /\ link' = "up" THEN connection + 1 ELSE connection

(* stop() drops the socket; the runs go on and have nobody to answer to. *)
ForgetRequesters ==
    asked' = [r \in Requests |-> IF asked[r] = NotAsked THEN NotAsked ELSE Closed]

SessionStep ==
    /\ \/ Session!Begin /\ link = "none" /\ UNCHANGED asked
       \/ Session!Establish /\ UNCHANGED asked
       \/ Session!Abandon /\ UNCHANGED asked
       \/ Session!End /\ ForgetRequesters
       \/ Session!LinkChanges /\ UNCHANGED asked
    /\ CountConnection
    /\ connection' <= MaxConnections
    /\ UNCHANGED <<vars, limit, answer, localVars>>

(* Of two limits the one that cuts less: -1, then 0, then the larger. *)
Laxer(l, m) ==
    IF NoTruncation \in {l, m} THEN NoTruncation
    ELSE IF 0 \in {l, m} THEN 0 ELSE IF l > m THEN l ELSE m

(* limitsReceived: the options are the ones the runner reads.  They change *)
(* once in a history (bound).                                              *)
LimitsReceived(l) ==
    /\ link = "up" /\ limit = DefaultLimit
    /\ limit' = l
    /\ laxest' = [r \in Requests |-> IF r \in Varied /\ phase[r] = "head"
                                     THEN Laxer(laxest[r], l) ELSE laxest[r]]
    /\ UNCHANGED <<vars, sessionVars, asked, answer, own, mime, bound>>
-----------------------------------------------------------------------------
(* Where the acknowledgement of r goes (external: socket.io).  On another  *)
(* connection of the same socket the cloud no longer knows the request.    *)
Destination(r) ==
    IF link # "up" \/ asked[r] = Closed THEN "dropped"
    ELSE IF asked[r] = connection THEN "delivered" ELSE "stray"

(* wrapEventListener: the handler resolved, whatever came out of the run. *)
Ends(r) == phase[r] # "over" /\ phase'[r] = "over"
AnswerResponses(r) ==
    answer' = IF Ends(r) /\ result'[r] = "response"
              THEN [answer EXCEPT ![r] = Destination(r)] ELSE answer
Acknowledge(r) ==
    answer' = IF Ends(r) THEN [answer EXCEPT ![r] = Destination(r)] ELSE answer

(* The values local to a run are gone with it. *)
Forget(r) ==
    /\ own' = [own EXCEPT ![r] = None]
    /\ mime' = [mime EXCEPT ![r] = "none"]
    /\ bound' = [bound EXCEPT ![r] = None]
    /\ laxest' = [laxest EXCEPT ![r] = DefaultLimit]

(* A REQUEST event for which a Request can be built and a runner is there. *)
RequestReceived(r, o) ==
    /\ link = "up" /\ asked[r] = NotAsked
    /\ Run(r)
    /\ asked' = [asked EXCEPT ![r] = connection]
    /\ IF phase'[r] = "over"
       THEN answer' = [answer EXCEPT ![r] = "delivered"] /\ Forget(r)
       ELSE /\ own' = [own EXCEPT ![r] = o]
            /\ laxest' = [laxest EXCEPT ![r] = IF r \in Varied THEN limit ELSE @]
            /\ UNCHANGED <<answer, mime, bound>>
    /\ UNCHANGED <<sessionVars, limit>>

(* The constructor of Request throws (no URL, a body that is no string),   *)
(* or sendRequest() does (a protocol without a runner): wrapEventListener  *)
(* logs the error and the acknowledgement is never called.                 *)
RequestRefused(r) ==
    /\ link = "up" /\ asked[r] = NotAsked
    /\ asked' = [asked EXCEPT ![r] = connection]
    /\ answer' = [answer EXCEPT ![r] = "refused"]
    /\ UNCHANGED <<vars, sessionVars, limit, localVars>>

(* maxBodySize and requiresTruncating of truncateResponse(), which reads   *)
(* the options when the head has come.                                     *)
BoundOfCopy(r, type) ==
    IF DefaultLimit = NoTruncation \/ type = "allowed" THEN None
    ELSE IF own[r] # None THEN own[r]
    ELSE IF DefaultLimit # 0 THEN DefaultLimit ELSE None
Bound(r, type) ==
    IF limit = NoTruncation \/ type = "allowed" THEN None
    ELSE IF own[r] # None THEN own[r]
    ELSE IF limit # 0 THEN limit ELSE None

HeadReceived(r, kind, type) ==
    /\ HeadArrives(r, kind)
    /\ Acknowledge(r)
    /\ IF kind = "empty" THEN Forget(r)
       ELSE /\ mime' = [mime EXCEPT ![r] = type]
            /\ bound' = [bound EXCEPT ![r] = Bound(r, type)]
            /\ UNCHANGED <<own, laxest>>
    /\ UNCHANGED <<sessionVars, limit, asked>>

(* parseBody(): the body, cut to the bound. *)
BodyReceived(r) ==
    /\ BodyEnds(r)
    /\ Acknowledge(r) /\ Forget(r)
    /\ UNCHANGED <<sessionVars, limit, asked>>

(* The other steps of a run: most end it with an error. *)
Alongside(r) ==
    /\ Acknowledge(r)
    /\ IF Ends(r) THEN Forget(r) ELSE UNCHANGED localVars
    /\ UNCHANGED <<sessionVars, limit, asked>>

RunFails(r) == (DecoderFails(r) \/ ConnectionLost(r)) /\ Alongside(r)
RunTimesOut(r) == TimerFires(r) /\ Alongside(r)
SocketGiven(r) == SocketFreed(r) /\ Alongside(r)

(* The inputs that vary for some of the requests only. *)
Varying(r, values, fixed) == IF r \in Varied THEN values ELSE {fixed}
Owns(r) == Varying(r, OwnLimits \cup {None}, None)
MimeTypes(r) == Varying(r, {"allowed", "other"}, "allowed")

ServiceNext ==
    \/ SessionStep
    \/ \E l \in Announced : LimitsReceived(l)
    \/ \E r \in Requests :
          \/ RequestRefused(r) \/ BodyReceived(r)
          \/ RunFails(r) \/ RunTimesOut(r) \/ SocketGiven(r)
          \/ \E o \in Owns(r) : RequestReceived(r, o)
          \/ \E kind \in Heads, type \in MimeTypes(r) : HeadReceived(r, kind, type)

ServiceSpec == ServiceInit /\ [][ServiceNext]_serviceVars

(* The fairness of the runner; nothing is assumed of the session. *)
BodyOutcome(r) == phase[r] = "body" /\ (BodyReceived(r) \/ RunFails(r))

ServiceFairness ==
    \A r \in Requests :
        /\ WF_serviceVars(RunTimesOut(r)) /\ WF_serviceVars(SocketGiven(r))
        /\ WF_serviceVars(BodyOutcome(r))

ServiceFairSpec == ServiceSpec /\ ServiceFairness
-----------------------------------------------------------------------------
(* However a run ends, the cloud gets an answer on the connection it asked *)
(* on, as long as that connection is up; only a request that no run was    *)
(* made of is left without one (run, requestReceived, wrapEventListener).  *)
EveryOutcomeAnswered ==
    \A r \in Requests :
        asked[r] = connection /\ link = "up"
          => (phase[r] = "over" <=> answer[r] = "delivered")

(* A body is cut by the laxest limit that was in force between the event   *)
(* of its request and the head of its response, or a stricter one, and by  *)
(* the request's own limit; only 0, -1 (for both) and the type lift it,    *)
(* whatever LIMITS came when (limitsReceived, truncateResponse).           *)
BodyWithinLimits ==
    \A r \in Requests : mime[r] = "other" =>
        \/ laxest[r] = NoTruncation
        \/ own[r] = None /\ laxest[r] = 0
        \/ bound[r] \in 0..(IF own[r] = None THEN laxest[r] ELSE own[r])
=============================================================================
