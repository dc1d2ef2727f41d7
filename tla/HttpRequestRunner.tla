-------------------------- MODULE HttpRequestRunner --------------------------
(***************************************************************************)
(* Requests under way in an HttpRequestRunner                              *)
(* (packages/repeater/src/request-runner/HttpRequestRunner.ts) whose       *)
(* reuseConnection option is set: they share the sockets of one keep-alive *)
(* agent.                                                                  *)
(*                                                                         *)
(* A run() waits for the head of the response under a timer and then reads *)
(* the body, through a decoder when the response is encoded and decompress *)
(* is set.  What the server, the network and Node's agent do is external.  *)
(***************************************************************************)
EXTENDS Integers, FiniteSets

CONSTANTS
    Requests,       \* calls of run()
    MaxSockets      \* maxSockets of the agent

ASSUME RequestsAssumption == IsFiniteSet(Requests)
ASSUME MaxSocketsAssumption == MaxSockets \in Nat \ {0}

VARIABLES
    options,    \* of the request: a timeout applies, decompress
    phase,      \* what run() awaits
    timer,      \* the timer of setTimeout() is armed
    socket,     \* the request's place in the agent
    head,       \* what the response looks like, once its head has come
    result      \* how run() resolved: with a response or an error code

vars == <<options, phase, timer, socket, head, result>>

Phases == {"idle", "head", "body", "over"}

(* responseHasNoBody(), an encoding unzipBody() knows, any other response. *)
Heads == {"empty", "encoded", "plain"}

TypeOK ==
    /\ options \in [Requests -> [timeout : BOOLEAN, decompress : BOOLEAN]]
    /\ phase \in [Requests -> Phases]
    /\ timer \in [Requests -> BOOLEAN]
    /\ socket \in [Requests -> {"none", "queued", "held"}]
    /\ head \in [Requests -> Heads \cup {"none"}]
    /\ result \in [Requests -> {"none", "response", "timedOut", "failed"}]
    /\ Cardinality({r \in Requests : socket[r] = "held"}) <= MaxSockets

Init ==
    /\ options \in [Requests -> [timeout : BOOLEAN, decompress : BOOLEAN]]
    /\ phase = [r \in Requests |-> "idle"]
    /\ timer = [r \in Requests |-> FALSE]
    /\ socket = [r \in Requests |-> "none"]
    /\ head = [r \in Requests |-> "none"]
    /\ result = [r \in Requests |-> "none"]

(* The agent hands out a socket. *)
FreeSocket == Cardinality({r \in Requests : socket[r] = "held"}) < MaxSockets

(* The body goes through a decoder: response.pipe(...). *)
Piped(r) == head[r] = "encoded" /\ options[r].decompress

(* run() resolves; every error becomes a Response with its code. *)
Settle(r, how) ==
    /\ phase' = [phase EXCEPT ![r] = "over"]
    /\ result' = [result EXCEPT ![r] = how]

Release(r) == socket' = [socket EXCEPT ![r] = "none"]
-----------------------------------------------------------------------------
(* request() up to its await; createRequest() may throw. *)
NoTimer(r) == FALSE
Armed(r) == options[r].timeout

Run(r) ==
    /\ phase[r] = "idle"
    /\ \/ /\ Settle(r, "failed")
          /\ UNCHANGED <<timer, socket>>
       \/ /\ phase' = [phase EXCEPT ![r] = "head"]
          /\ timer' = [timer EXCEPT ![r] = Armed(r)]
          /\ socket' = [socket EXCEPT ![r] = IF FreeSocket THEN "held" ELSE "queued"]
          /\ UNCHANGED result
    /\ UNCHANGED <<options, head>>

(* The finally clause of request(). *)
LeaveTimer(r) == UNCHANGED timer
ClearTimer(r) == timer' = [timer EXCEPT ![r] = FALSE]

(* The head arrives.  A response without a body is not read at all, and    *)
(* the agent does not get its socket back.                                 *)
HeadArrives(r, kind) ==
    /\ phase[r] = "head" /\ socket[r] = "held"
    /\ ClearTimer(r)
    /\ head' = [head EXCEPT ![r] = kind]
    /\ IF kind = "empty" THEN Settle(r, "response")
       ELSE phase' = [phase EXCEPT ![r] = "body"] /\ UNCHANGED result
    /\ UNCHANGED <<options, socket>>

(* The body is complete. *)
BodyEnds(r) ==
    /\ phase[r] = "body" /\ socket[r] = "held"
    /\ Release(r) /\ Settle(r, "response")
    /\ UNCHANGED <<options, timer, head>>

(* The decoder fails; the rest of the response stays unread. *)
DecoderFails(r) ==
    /\ phase[r] = "body" /\ socket[r] = "held" /\ Piped(r)
    /\ Settle(r, "failed")
    /\ UNCHANGED <<options, timer, socket, head>>

(* The connection is lost.  The loop over the response rejects; the one    *)
(* over a decoder is not told, neither of an error nor of the end.         *)
ConnectionLost(r) ==
    /\ socket[r] = "held"
    /\ Release(r)
    /\ IF phase[r] = "head" \/ (phase[r] = "body" /\ ~Piped(r))
       THEN Settle(r, "failed") ELSE UNCHANGED <<phase, result>>
    /\ IF phase[r] = "head" THEN ClearTimer(r) ELSE UNCHANGED timer
    /\ UNCHANGED <<options, head>>

(* setTimeout(): req.destroy(ETIMEDOUT), and a rejection that leaves the   *)
(* request alone.                                                          *)
OnlyReject(r) == UNCHANGED socket
Destroy(r) == Release(r)

TimerFires(r) ==
    /\ timer[r]
    /\ timer' = [timer EXCEPT ![r] = FALSE]
    /\ Destroy(r)
    /\ IF phase[r] \in {"head", "body"} THEN Settle(r, "timedOut")
       ELSE UNCHANGED <<phase, result>>
    /\ UNCHANGED <<options, head>>

(* The agent gives a socket to a request that waits for one. *)
SocketFreed(r) ==
    /\ socket[r] = "queued" /\ FreeSocket
    /\ socket' = [socket EXCEPT ![r] = "held"]
    /\ UNCHANGED <<options, phase, timer, head, result>>

Next ==
    \E r \in Requests :
        \/ Run(r) \/ BodyEnds(r) \/ DecoderFails(r) \/ ConnectionLost(r)
        \/ TimerFires(r) \/ SocketFreed(r)
        \/ \E kind \in Heads : HeadArrives(r, kind)

Spec == Init /\ [][Next]_vars

(* A body that has begun comes to its end or the connection is lost; of    *)
(* the head nothing is assumed.                                            *)
BodySettles(r) ==
    phase[r] = "body" /\ (BodyEnds(r) \/ DecoderFails(r) \/ ConnectionLost(r))

Fairness ==
    \A r \in Requests :
        WF_vars(TimerFires(r)) /\ WF_vars(SocketFreed(r)) /\ WF_vars(BodySettles(r))

FairSpec == Spec /\ Fairness
-----------------------------------------------------------------------------
(* The timeout is about the head of the response only: a run that timed    *)
(* out had received nothing, however long its body would have taken        *)
(* (request, setTimeout).                                                  *)
TimedOutWithoutHead ==
    \A r \in Requests : result[r] = "timedOut" => head[r] = "none"

(* A response nobody has read to its end, and why. *)
Unread(r) == head[r] = "empty" \/ (Piped(r) /\ result[r] = "failed")

(* A run that is over gives its socket back to the agent, however it       *)
(* ended, unless it left the response unread; so requests queue behind     *)
(* requests under way and behind those only (request, truncateResponse,    *)
(* unzipBody).                                                             *)
SocketsReturned ==
    /\ \A r \in Requests : phase[r] = "over" /\ socket[r] = "held" => Unread(r)
    /\ \A r \in Requests : socket[r] = "queued" => phase[r] = "head"

(* A request whose body breaks off while it is being decoded. *)
Stalled(r) == phase[r] = "body" /\ Piped(r) /\ socket[r] = "none"

(* A run with a timeout ends, also when it queues for a socket that never  *)
(* comes, with one exception: a connection lost in the middle of an        *)
(* encoded body (request, parseBody).                                      *)
RunSettles ==
    \A r \in Requests :
        phase[r] = "head" /\ options[r].timeout ~> phase[r] = "over" \/ Stalled(r)
=============================================================================
