------------------------------ MODULE Repeater ------------------------------
(***************************************************************************)
(* The session of a Repeater (packages/repeater/src/lib/Repeater.ts) over  *)
(* the socket.io sockets its DefaultRepeaterServer opens                   *)
(* (packages/repeater/src/lib/DefaultRepeaterServer.ts).                   *)
(*                                                                         *)
(* One action is one turn of the Node event loop: a call of start() or     *)
(* stop(), a socket.io event with every handler it runs and every          *)
(* continuation those handlers resume, or the firing of a timer.           *)
(*                                                                         *)
(* Every start() opens a socket of its own and stop() closes the latest    *)
(* one only.  A socket that was replaced keeps its handlers and, through   *)
(* them, keeps feeding the one `events` emitter of the server object:      *)
(* `Replaced` is the set of those sockets.                                 *)
(***************************************************************************)
EXTENDS Integers

CONSTANTS
    MaxStarts,          \* bound: how often start() opens a socket
    MaxReconnections,   \* MAX_RECONNECTION_ATTEMPTS
    MaxStrays           \* bound: overlapping reconnection timers

ASSUME MaxStartsAssumption == MaxStarts \in Nat \ {0}
ASSUME MaxReconnectionsAssumption == MaxReconnections \in Nat \ {0}
ASSUME MaxStraysAssumption == MaxStrays \in Nat

VARIABLES
    status,     \* Repeater._runningStatus
    awaits,     \* what the pending start() awaits: "connect", "deployed" or "none"
    opened,     \* number of sockets opened so far
    sock,       \* DefaultRepeaterServer._socket (NoSocket when undefined)
    link,       \* the state of every socket
    retries,    \* the socket.io manager's own reconnection attempts, per socket
    sends,      \* DEPLOY commands sent on the present connection (2: several)
    deployed,   \* the sockets whose deployment the cloud accepted
    subs,       \* how often subscribeEvents() is in force on `events`
    attempts,   \* connectionAttempts
    timer,      \* connectionTimer: "armed" or "none"
    strays,     \* armed timers that connectionTimer no longer refers to
    executing,  \* executions of the latest REQUEST still under way
    answers,    \* answers already given to the latest REQUEST
    process     \* "crashed" once an exception has left a callback nobody guards

vars == <<status, awaits, opened, sock, link, retries, sends, deployed, subs,
          attempts, timer, strays, executing, answers, process>>

NoSocket == 0
Alive == process = "alive"
Sockets == 1..MaxStarts

(* "connecting": the socket.io manager is at it, first time or retrying.   *)
(* "dead": nothing but a call of connect() brings the socket back.         *)
(* "ignored": as dead, by a refusal that was logged and nothing else.      *)
(* "closed": disconnect() was called on it; its listeners are gone.        *)
LinkStates == {"unused", "connecting", "connected", "dead", "ignored", "closed"}
GivenUp(linkState) == linkState \in {"dead", "ignored"}

ErrorKinds == {"critical", "unknown"}
Rejections == {"uncoded", "auth", "other"}

TypeOK ==
    /\ status \in {"off", "starting", "running"}
    /\ awaits \in {"none", "connect", "deployed"}
    /\ opened \in 0..MaxStarts
    /\ sock \in 0..MaxStarts
    /\ link \in [Sockets -> LinkStates]
    /\ retries \in [Sockets -> 0..MaxReconnections]
    /\ sends \in [Sockets -> 0..2]
    /\ deployed \subseteq Sockets
    /\ subs \in 0..MaxStarts
    /\ attempts \in 0..MaxReconnections
    /\ timer \in {"none", "armed"}
    /\ strays \in 0..MaxStrays
    /\ executing \in 0..MaxStarts
    /\ answers \in 0..MaxStarts
    /\ process \in {"alive", "crashed"}

Init ==
    /\ status = "off" /\ awaits = "none"
    /\ opened = 0 /\ sock = NoSocket
    /\ link = [s \in Sockets |-> "unused"]
    /\ retries = [s \in Sockets |-> 0]
    /\ sends = [s \in Sockets |-> 0]
    /\ deployed = {}
    /\ subs = 0
    /\ attempts = 0 /\ timer = "none" /\ strays = 0
    /\ executing = 0 /\ answers = 0
    /\ process = "alive"

(* The sockets that a later start() replaced and nobody closed. *)
Replaced == {s \in 1..opened : s # sock /\ link[s] # "closed"}

requestVars == <<executing, answers>>
-----------------------------------------------------------------------------
(* Calls of the owner. *)

(* start() throws in any other status. *)
MayStartUnlessStarting == status # "starting"
MayStart == status = "off"

(* start() up to its first await. *)
Start ==
    /\ Alive /\ MayStart /\ opened < MaxStarts
    /\ status' = "starting" /\ awaits' = "connect"
    /\ subs' = subs + 1
    /\ opened' = opened + 1 /\ sock' = opened + 1
    /\ link' = [link EXCEPT ![opened + 1] = "connecting"]
    /\ UNCHANGED <<retries, sends, deployed, attempts, timer, strays,
                   requestVars, process>>

(* The parts of disconnect(), each with the slip it guards against. *)
KeepListeners == UNCHANGED subs
RemoveAllListeners == subs' = 0

KeepConnectionTimer == UNCHANGED timer
ClearConnectionTimer == timer' = "none"

LeaveSocket(linkNow) == link' = linkNow
CloseSocket(linkNow) == link' = [linkNow EXCEPT ![sock] = "closed"]

(* stop(), called by the owner or by a handler that has already brought    *)
(* the sockets to linkNow: nothing unless RUNNING, else disconnect().      *)
StopSession(linkNow) ==
    IF status = "running"
    THEN /\ status' = "off"
         /\ RemoveAllListeners
         /\ ClearConnectionTimer
         /\ CloseSocket(linkNow)
         /\ sock' = NoSocket
    ELSE /\ link' = linkNow
         /\ UNCHANGED <<status, timer, sock, subs>>

Stop ==
    /\ Alive /\ status = "running"
    /\ StopSession(link)
    /\ UNCHANGED <<awaits, opened, retries, sends, deployed, attempts, strays,
                   requestVars, process>>
-----------------------------------------------------------------------------
(* Events of a socket.  Only the current socket's events can resume start(). *)

Several(n) == IF n > 2 THEN 2 ELSE n

(* handleConnect, the CONNECTED handlers (each sends DEPLOY on the current *)
(* socket) and the continuation of connect().                              *)
HandleConnect(s) ==
    /\ Alive /\ link[s] = "connecting"
    /\ link' = [link EXCEPT ![s] = "connected"]
    /\ retries' = [retries EXCEPT ![s] = 0]
    /\ attempts' = 0 /\ timer' = "none"
    /\ sends' = IF subs = 0 THEN sends
                ELSE [sends EXCEPT ![sock] = Several(@ + subs)]
    /\ awaits' = IF s = sock /\ awaits = "connect" THEN "deployed" ELSE awaits
    /\ UNCHANGED <<status, opened, sock, deployed, subs, strays, requestVars,
                   process>>

(* The cloud accepts a deployment; every deploy() waiting on the socket    *)
(* resolves, the one start() awaits among them.                            *)
Deployed(s) ==
    /\ Alive /\ link[s] = "connected" /\ sends[s] > 0
    /\ deployed' = deployed \cup {s}
    /\ IF s = sock /\ awaits = "deployed"
       THEN status' = "running" /\ awaits' = "none"
       ELSE UNCHANGED <<status, awaits>>
    /\ UNCHANGED <<opened, sock, link, retries, sends, subs, attempts, timer,
                   strays, requestVars, process>>

(* A REQUEST runs once for every subscription; the runner is slow. *)
RequestReceived(s) ==
    /\ Alive /\ link[s] = "connected" /\ s \in deployed /\ executing = 0
    /\ executing' = subs /\ answers' = 0
    /\ UNCHANGED <<status, awaits, opened, sock, link, retries, sends, deployed,
                   subs, attempts, timer, strays, process>>

(* sendRequest() settles and wrapEventListener calls the acknowledgement. *)
Respond ==
    /\ Alive /\ executing > 0
    /\ executing' = executing - 1 /\ answers' = answers + 1
    /\ UNCHANGED <<status, awaits, opened, sock, link, retries, sends, deployed,
                   subs, attempts, timer, strays, process>>

(* A catch clause that rethrows and leaves the status STARTING. *)
StickInStarting == UNCHANGED status /\ awaits' = "none"
GiveStatusBack == status' = "off" /\ awaits' = "none"

(* The awaited deploy() rejects and start() gives the status back; the     *)
(* socket and the subscriptions stay.                                      *)
FailStart ==
    /\ GiveStatusBack
    /\ UNCHANGED <<sock, link, subs, timer>>

(* MAX_DEPLOYMENT_TIMEOUT passes before the deployment is acknowledged. *)
DeployTimeout ==
    /\ Alive /\ awaits = "deployed"
    /\ FailStart
    /\ UNCHANGED <<opened, retries, sends, deployed, attempts, strays,
                   requestVars, process>>

(* An exception nobody catches: emit('error') without a listener, or the   *)
(* `socket` getter with no socket.                                         *)
Crash == process' = "crashed" /\ UNCHANGED <<status, awaits, sock, subs>>

(* An 'error' event.  A critical one calls stop(), which is ignored while  *)
(* STARTING; any error rejects the deploy() that waits on this socket.     *)
ServerError(s, kind) ==
    /\ Alive /\ link[s] = "connected"
    /\ IF subs = 0 THEN Crash /\ UNCHANGED <<link, timer>>
       ELSE /\ UNCHANGED process
            /\ IF s = sock /\ awaits = "deployed" THEN FailStart
               ELSE /\ IF kind = "critical" THEN StopSession(link)
                       ELSE UNCHANGED <<status, subs, timer, link, sock>>
                    /\ UNCHANGED awaits
    /\ UNCHANGED <<opened, retries, sends, deployed, attempts, strays,
                   requestVars>>

(* The connection drops and the socket.io manager starts reconnecting. *)
Drop(s) ==
    /\ Alive /\ link[s] = "connected"
    /\ link' = [link EXCEPT ![s] = "connecting"]
    /\ retries' = [retries EXCEPT ![s] = 1]
    /\ sends' = [sends EXCEPT ![s] = 0]
    /\ deployed' = deployed \ {s}
    /\ UNCHANGED <<status, awaits, opened, sock, subs, attempts, timer, strays,
                   requestVars, process>>

(* this.socket.connect(): it is the current socket that is reconnected, *)
(* whichever socket the caller was about.                               *)
Reconnect(linkNow) ==
    IF sock = NoSocket THEN Crash /\ link' = linkNow
    ELSE /\ link' = IF GivenUp(linkNow[sock])
                    THEN [linkNow EXCEPT ![sock] = "connecting"] ELSE linkNow
         /\ UNCHANGED <<status, awaits, sock, subs, process>>

(* handleDisconnect for 'io server disconnect'. *)
ServerDisconnect(s) ==
    /\ Alive /\ link[s] = "connected"
    /\ sends' = [sends EXCEPT ![s] = 0]
    /\ deployed' = deployed \ {s}
    /\ Reconnect([link EXCEPT ![s] = "dead"])
    /\ UNCHANGED <<opened, retries, attempts, timer, strays, requestVars>>

(* The armed timers of scheduleReconnection. *)
TimerFires ==
    /\ Alive /\ timer = "armed"
    /\ timer' = "none"
    /\ Reconnect(link)
    /\ UNCHANGED <<opened, retries, sends, deployed, attempts, strays,
                   requestVars>>

StrayTimerFires ==
    /\ Alive /\ strays > 0
    /\ strays' = strays - 1
    /\ Reconnect(link)
    /\ UNCHANGED <<opened, retries, sends, deployed, attempts, timer,
                   requestVars>>

AttemptsExhaustedLate == attempts > MaxReconnections
AttemptsExhausted == attempts >= MaxReconnections

(* A scheduleReconnection() that only announces the attempt. *)
AnnounceOnly ==
    /\ attempts' = attempts + 1
    /\ UNCHANGED <<strays, timer>>

(* scheduleReconnection: a timer that is still armed is overwritten. *)
ScheduleReconnection ==
    /\ attempts' = attempts + 1
    /\ strays' = IF timer = "armed" THEN strays + 1 ELSE strays
    /\ timer' = "armed"

(* 'connect_error' by which the cloud refuses the connection, after which  *)
(* socket.io gives the socket up.  One without an error code (an unknown   *)
(* namespace, a middleware that fails) is logged and goes no further.      *)
Rejected(s, why) ==
    LET linkNow == [link EXCEPT ![s] = "dead"] IN
    /\ Alive /\ link[s] = "connecting"
    /\ retries' = [retries EXCEPT ![s] = 0]
    /\ \/ /\ why = "uncoded"
          /\ link' = [link EXCEPT ![s] = "ignored"]
          /\ UNCHANGED <<status, awaits, sock, subs, attempts, timer, strays, process>>
       \/ /\ why = "auth" /\ subs = 0
          /\ Crash /\ link' = linkNow
          /\ UNCHANGED <<attempts, timer, strays>>
       \/ /\ \/ why = "auth" /\ subs > 0
             \/ why = "other" /\ AttemptsExhausted
          /\ StopSession(linkNow)
          /\ UNCHANGED <<awaits, attempts, strays, process>>
       \/ /\ why = "other" /\ ~AttemptsExhausted
          /\ timer = "armed" => strays < MaxStrays
          /\ ScheduleReconnection
          /\ link' = linkNow
          /\ UNCHANGED <<status, awaits, sock, subs, process>>
    /\ UNCHANGED <<opened, sends, deployed, requestVars>>

(* An attempt of the socket.io manager fails; after the last one it emits  *)
(* 'reconnect_failed' and reconnectionFailed() calls stop().               *)
TransportFails(s) ==
    /\ Alive /\ link[s] = "connecting"
    /\ IF retries[s] < MaxReconnections
       THEN /\ retries' = [retries EXCEPT ![s] = @ + 1]
            /\ UNCHANGED <<status, subs, timer, link, sock>>
       ELSE /\ retries' = [retries EXCEPT ![s] = 0]
            /\ StopSession([link EXCEPT ![s] = "dead"])
    /\ UNCHANGED <<awaits, opened, sends, deployed, attempts, strays,
                   requestVars, process>>
-----------------------------------------------------------------------------
ConnectionSettles(s) ==
    \/ HandleConnect(s)
    \/ \E why \in Rejections : Rejected(s, why)
    \/ TransportFails(s)

Next ==
    \/ Start \/ Stop \/ Respond
    \/ DeployTimeout \/ TimerFires \/ StrayTimerFires
    \/ \E s \in Sockets :
          \/ ConnectionSettles(s)
          \/ Deployed(s) \/ RequestReceived(s)
          \/ \E kind \in ErrorKinds : ServerError(s, kind)
          \/ Drop(s) \/ ServerDisconnect(s)

Spec == Init /\ [][Next]_vars

(* A connection attempt has an outcome and an armed timer fires.  Nothing  *)
(* is assumed of the owner or of the cloud's answers.                      *)
Fairness ==
    /\ \A s \in Sockets : WF_vars(ConnectionSettles(s))
    /\ WF_vars(TimerFires) /\ WF_vars(DeployTimeout)

FairSpec == Spec /\ Fairness
-----------------------------------------------------------------------------
(* Safety.  A replaced socket exists only after a start() that failed over *)
(* a live socket was followed by another start(); the invariants below say *)
(* what holds of every history without one.                                *)

(* A RUNNING repeater whose socket nothing else would bring back has armed *)
(* connectionTimer, and the timer is armed for no other reason.  The one   *)
(* way to be RUNNING with neither is a refusal without an error code       *)
(* (handleConnectionError, scheduleReconnection, handleConnect).           *)
RunningIsReconnecting ==
    status = "running" /\ Replaced = {} => (link[sock] = "dead" <=> timer = "armed")

(* Every event is handled once, also when the session was stopped and      *)
(* started again: each connection carries exactly one DEPLOY, and a        *)
(* REQUEST is executed and answered at most once (subscribeEvents,         *)
(* handleConnect, requestReceived, disconnect).                            *)
EventsHandledOnce ==
    Replaced = {} =>
        /\ \A s \in Sockets : link[s] = "connected" => sends[s] = 1
        /\ executing + answers <= 1

(* No callback ends the process: a stopped repeater has no timer left that *)
(* would reach for the socket, and no event finds the emitter empty.       *)
NoStrayCallback == Replaced = {} => Alive /\ strays = 0

(* A socket gets out of the repeater's reach in one way only: start() is   *)
(* called again over the socket that a failed start() has left.            *)
OnlyRestartReplaces ==
    [][~(Replaced' \subseteq Replaced)
         => status = "off" /\ sock # NoSocket /\ status' = "starting"]_vars

(* Repeater implements the session its owners rely on. *)
Session == INSTANCE RepeaterSession WITH
    link <- IF sock = NoSocket THEN "none"
            ELSE IF link[sock] = "connected" THEN "up" ELSE "down"

ImplementsSession == Session!SessionSpec

(* Liveness, again up to the first replaced socket: the connections of a   *)
(* replaced socket reset connectionAttempts and connectionTimer of the     *)
(* current one, which then may be retried for ever or not at all.          *)

(* start() settles (established, refused or timed out), except over a      *)
(* socket that was given up: stop() is ignored while STARTING, so the      *)
(* await of connect() has no end then (deploy, reconnectionFailed).        *)
StartSettlesUnlessGivenUp ==
    status = "starting"
      ~> \/ status # "starting" \/ Replaced # {}
         \/ GivenUp(link[sock]) /\ timer = "none"

(* A RUNNING repeater that lost its connection gets it back or gives up    *)
(* and is OFF.  It is RUNNING and disconnected for good only when the      *)
(* cloud refused the connection without an error code: nothing tries again *)
(* then and nobody is told (handleConnectionError).                        *)
LostConnectionSettles ==
    status = "running" /\ link[sock] # "connected"
      ~> \/ status = "off" \/ link[sock] = "connected" \/ Replaced # {}
         \/ link[sock] = "ignored"
=============================================================================
