--------------------------- MODULE Repeater_proofs ---------------------------
(***************************************************************************)
(* What holds of a Repeater for any number of starts and reconnections.    *)
(***************************************************************************)
EXTENDS Repeater, TLAPS

(* How the status, the pending start() and the sockets belong together. *)
Held ==
    /\ status = "starting" <=> awaits # "none"
    /\ awaits = "connect" => link[sock] # "connected"
    /\ status # "off" => sock # NoSocket /\ subs > 0
    /\ sock = NoSocket => subs = 0
    /\ sock # NoSocket => sock = opened /\ link[sock] \notin {"unused", "closed"}
    /\ \A s \in Sockets : link[s] = "unused" <=> s > opened
    /\ \A s \in Sockets : link[s] = "unused" => sends[s] = 0
    /\ subs <= opened
    /\ executing + answers <= MaxStarts

(* Every socket but the current one is closed. *)
Clean == \A s \in 1..opened : s # sock => link[s] = "closed"

(* What a repeater that never replaced a live socket looks like. *)
Orderly ==
    /\ Alive /\ strays = 0
    /\ sock = NoSocket => timer = "none"
    /\ sock # NoSocket => /\ subs = 1
                          /\ timer = "armed" => link[sock] = "dead"
                          /\ sends[sock] = IF link[sock] = "connected" THEN 1 ELSE 0
    /\ status = "running" /\ link[sock] = "dead" => timer = "armed"
    /\ executing + answers <= 1

IInv == TypeOK /\ Held /\ (Clean => Orderly)

USE MaxStartsAssumption, MaxReconnectionsAssumption, MaxStraysAssumption

(* The two ways to say that no live socket was replaced. *)
LEMMA CleanReplaced == ASSUME TypeOK PROVE Replaced = {} <=> Clean
BY DEF Replaced, Clean, TypeOK

(* A repeater that was never started satisfies the invariant (Repeater,    *)
(* constructor).                                                           *)
LEMMA InitIInv == Init => IInv
<1> SUFFICES ASSUME Init PROVE IInv
    OBVIOUS
<1>1. TypeOK
    BY DEF Init, TypeOK, LinkStates, NoSocket
<1>2. Held
    BY DEF Init, Held, Sockets, NoSocket
<1>3. Orderly
    BY DEF Init, Orderly, NoSocket, Alive
<1>4. QED
    BY <1>1, <1>2, <1>3 DEF IInv
-----------------------------------------------------------------------------
(* Every step keeps the invariant: first what the parts shared by several  *)
(* actions do, then one lemma per action.                                  *)

(* stop() touches no socket but the current one. *)
LEMMA StopSpares ==
    ASSUME TypeOK, Held, NEW linkNow \in [Sockets -> LinkStates],
           StopSession(linkNow)
    PROVE  /\ link' \in [Sockets -> LinkStates]
           /\ sock' \in {sock, NoSocket}
           /\ \A t \in Sockets : t # sock => link'[t] = linkNow[t]
BY DEF TypeOK, Held, LinkStates, NoSocket, StopSession, RemoveAllListeners,
       ClearConnectionTimer, CloseSocket

(* connect() on the current socket brings no socket to its end. *)
LEMMA ReconnectSpares ==
    ASSUME TypeOK, Held, NEW linkNow \in [Sockets -> LinkStates],
           Reconnect(linkNow)
    PROVE  /\ link' \in [Sockets -> LinkStates]
           /\ sock' = sock
           /\ \A t \in Sockets : t # sock => link'[t] = linkNow[t]
BY DEF TypeOK, Held, LinkStates, NoSocket, Sockets, Reconnect, GivenUp, Crash

(* start() opens a socket over a closed one or replaces a live one.        *)
LEMMA StartKeeps == ASSUME IInv, Start PROVE IInv'
<1> USE DEF IInv, Sockets, NoSocket, Alive, requestVars
<1>1. TypeOK'
    BY DEF TypeOK, Held, LinkStates, Start, MayStart
<1>2. Held'
    BY DEF TypeOK, Held, LinkStates, Start, MayStart
<1>3. Clean' => Clean
    BY DEF TypeOK, Held, Clean, LinkStates, Start, MayStart
<1>4. ASSUME Clean' PROVE Orderly'
    BY <1>3, <1>4 DEF TypeOK, Held, Clean, Orderly, LinkStates, Start, MayStart
<1>5. QED
    BY <1>1, <1>2, <1>4

(* stop() of a running repeater leaves no listener, timer or socket.       *)
LEMMA StopKeeps == ASSUME IInv, Stop PROVE IInv'
<1> USE DEF IInv, Sockets, NoSocket, Alive, requestVars
<1>1. TypeOK'
    BY DEF TypeOK, Held, LinkStates, Stop, StopSession, RemoveAllListeners,
       ClearConnectionTimer, CloseSocket
<1>2. Held'
    BY DEF TypeOK, Held, LinkStates, Stop, StopSession, RemoveAllListeners,
       ClearConnectionTimer, CloseSocket
<1>3. Clean' => Clean
    BY DEF TypeOK, Held, Clean, LinkStates, Stop, StopSession, RemoveAllListeners,
       ClearConnectionTimer, CloseSocket
<1>4. ASSUME Clean' PROVE Orderly'
    BY <1>3, <1>4 DEF TypeOK, Held, Clean, Orderly, LinkStates, Stop, StopSession,
       RemoveAllListeners, ClearConnectionTimer, CloseSocket
<1>5. QED
    BY <1>1, <1>2, <1>4

(* The answer to a REQUEST ends one of its executions.                     *)
LEMMA RespondKeeps == ASSUME IInv, Respond PROVE IInv'
<1> USE DEF IInv, Sockets, NoSocket, Alive, requestVars
<1>1. TypeOK'
    BY DEF TypeOK, Held, LinkStates, Respond
<1>2. Held'
    BY DEF TypeOK, Held, LinkStates, Respond
<1>3. Clean' => Clean
    BY DEF TypeOK, Held, Clean, LinkStates, Respond
<1>4. ASSUME Clean' PROVE Orderly'
    BY <1>3, <1>4 DEF TypeOK, Held, Clean, Orderly, LinkStates, Respond
<1>5. QED
    BY <1>1, <1>2, <1>4

(* A deployment timeout gives the status back and keeps the socket.        *)
LEMMA DeployTimeoutKeeps == ASSUME IInv, DeployTimeout PROVE IInv'
<1> USE DEF IInv, Sockets, NoSocket, Alive, requestVars
<1>1. TypeOK'
    BY DEF TypeOK, Held, LinkStates, DeployTimeout, FailStart, GiveStatusBack
<1>2. Held'
    BY DEF TypeOK, Held, LinkStates, DeployTimeout, FailStart, GiveStatusBack
<1>3. Clean' => Clean
    BY DEF TypeOK, Held, Clean, LinkStates, DeployTimeout, FailStart, GiveStatusBack
<1>4. ASSUME Clean' PROVE Orderly'
    BY <1>3, <1>4 DEF TypeOK, Held, Clean, Orderly, LinkStates, DeployTimeout, FailStart,
       GiveStatusBack
<1>5. QED
    BY <1>1, <1>2, <1>4

(* The reconnection timer finds the dead socket it was armed for.          *)
LEMMA TimerFiresKeeps == ASSUME IInv, TimerFires PROVE IInv'
<1> USE DEF IInv, Sockets, NoSocket, Alive, requestVars
<1>1. TypeOK'
    BY DEF TypeOK, Held, LinkStates, TimerFires, Reconnect, GivenUp, Crash
<1>2. Held'
    BY DEF TypeOK, Held, LinkStates, TimerFires, Reconnect, GivenUp, Crash
<1>3. Clean' => Clean
    BY SMTT(30) DEF TypeOK, Held, Clean, LinkStates, TimerFires, Reconnect, GivenUp, Crash
<1>4. ASSUME Clean' PROVE Orderly'
    BY <1>3, <1>4 DEF TypeOK, Held, Clean, Orderly, LinkStates, TimerFires, Reconnect,
       GivenUp, Crash
<1>5. QED
    BY <1>1, <1>2, <1>4

(* A stray timer fires only after a socket was replaced.                   *)
LEMMA StrayTimerFiresKeeps == ASSUME IInv, StrayTimerFires PROVE IInv'
<1> USE DEF IInv, Sockets, NoSocket, Alive, requestVars
<1>1. TypeOK'
    BY DEF TypeOK, Held, LinkStates, StrayTimerFires, Reconnect, GivenUp, Crash
<1>2. Held'
    BY DEF TypeOK, Held, LinkStates, StrayTimerFires, Reconnect, GivenUp, Crash
<1>3. Clean' => Clean
  <2>1. sock' = sock /\ opened' = opened
    BY DEF StrayTimerFires, Reconnect, GivenUp, Crash
  <2>2. \A t \in Sockets : t # sock => link'[t] = link[t]
    BY DEF TypeOK, StrayTimerFires, Reconnect, GivenUp
  <2>3. 1..opened \subseteq Sockets
    BY DEF TypeOK
  <2>4. QED
    BY <2>1, <2>2, <2>3 DEF Clean
<1>4. ASSUME Clean' PROVE Orderly'
    BY <1>3, <1>4 DEF TypeOK, Held, Clean, Orderly, LinkStates, StrayTimerFires,
       Reconnect, GivenUp, Crash
<1>5. QED
    BY <1>1, <1>2, <1>4

(* A connection disarms the timer and sends one DEPLOY per subscription.   *)
LEMMA HandleConnectKeeps == ASSUME NEW s \in Sockets, IInv, HandleConnect(s) PROVE IInv'
<1> USE DEF IInv, Sockets, NoSocket, Alive, requestVars
<1>1. TypeOK'
    BY DEF TypeOK, Held, LinkStates, HandleConnect, Several
<1>2. Held'
    BY DEF TypeOK, Held, LinkStates, HandleConnect, Several
<1>3. Clean' => Clean
    BY DEF TypeOK, Held, Clean, LinkStates, HandleConnect, Several
<1>4. ASSUME Clean' PROVE Orderly'
    BY <1>3, <1>4 DEF TypeOK, Held, Clean, Orderly, LinkStates, HandleConnect, Several
<1>5. QED
    BY <1>1, <1>2, <1>4

(* An accepted deployment makes a starting repeater run.                   *)
LEMMA DeployedKeeps == ASSUME NEW s \in Sockets, IInv, Deployed(s) PROVE IInv'
<1> USE DEF IInv, Sockets, NoSocket, Alive, requestVars
<1>1. TypeOK'
    BY DEF TypeOK, Held, LinkStates, Deployed
<1>2. Held'
    BY DEF TypeOK, Held, LinkStates, Deployed
<1>3. Clean' => Clean
    BY DEF TypeOK, Held, Clean, LinkStates, Deployed
<1>4. ASSUME Clean' PROVE Orderly'
    BY <1>3, <1>4 DEF TypeOK, Held, Clean, Orderly, LinkStates, Deployed
<1>5. QED
    BY <1>1, <1>2, <1>4

(* A REQUEST runs once per subscription.                                   *)
LEMMA RequestReceivedKeeps ==
    ASSUME NEW s \in Sockets, IInv, RequestReceived(s)
    PROVE  IInv'
<1> USE DEF IInv, Sockets, NoSocket, Alive, requestVars
<1>1. TypeOK'
    BY DEF TypeOK, Held, LinkStates, RequestReceived
<1>2. Held'
    BY DEF TypeOK, Held, LinkStates, RequestReceived
<1>3. Clean' => Clean
    BY DEF TypeOK, Held, Clean, LinkStates, RequestReceived
<1>4. ASSUME Clean' PROVE Orderly'
    BY <1>3, <1>4 DEF TypeOK, Held, Clean, Orderly, LinkStates, RequestReceived
<1>5. QED
    BY <1>1, <1>2, <1>4

(* An error event stops a running repeater or fails a pending start().     *)
LEMMA ServerErrorKeeps ==
    ASSUME NEW s \in Sockets, NEW kind \in ErrorKinds, IInv, ServerError(s, kind)
    PROVE  IInv'
<1> USE DEF IInv, Sockets, NoSocket, Alive, requestVars
<1>1. TypeOK'
    BY SMTT(30) DEF TypeOK, Held, LinkStates, ServerError, Crash, FailStart,
       GiveStatusBack, StopSession, RemoveAllListeners, ClearConnectionTimer, CloseSocket
<1>2. Held'
    BY DEF TypeOK, Held, LinkStates, ServerError, Crash, FailStart, GiveStatusBack,
       StopSession, RemoveAllListeners, ClearConnectionTimer, CloseSocket
<1>3. Clean' => Clean
  <2>1. link \in [Sockets -> LinkStates]
    BY DEF TypeOK, LinkStates
  <2>2. SUFFICES ASSUME Clean', NEW t \in 1..opened, t # sock
                 PROVE  link[t] = "closed"
    BY DEF Clean
  <2>3. opened' = opened /\ t \in Sockets
    BY DEF TypeOK, ServerError
  <2>4. sock' \in {sock, NoSocket} /\ (t # s => link'[t] = link[t])
    BY <2>1, <2>2, <2>3, StopSpares DEF TypeOK, ServerError, Crash, FailStart
  <2>5. t # s => link'[t] = "closed"
    BY <2>2, <2>3, <2>4 DEF Clean
  <2>6. t = s => link'[t] # "closed" /\ sock' # t
    BY <2>1, <2>2, <2>3, StopSpares DEF TypeOK, ServerError, Crash, FailStart
  <2>7. QED
    BY <2>2, <2>3, <2>4, <2>5, <2>6 DEF Clean
<1>4. ASSUME Clean' PROVE Orderly'
    BY <1>3, <1>4 DEF TypeOK, Held, Clean, Orderly, LinkStates, ServerError, Crash,
       FailStart, GiveStatusBack, StopSession, RemoveAllListeners, ClearConnectionTimer,
       CloseSocket
<1>5. QED
    BY <1>1, <1>2, <1>4

(* A dropped connection leaves the retrying to the socket.io manager.      *)
LEMMA DropKeeps == ASSUME NEW s \in Sockets, IInv, Drop(s) PROVE IInv'
<1> USE DEF IInv, Sockets, NoSocket, Alive, requestVars
<1>1. TypeOK'
    BY DEF TypeOK, Held, LinkStates, Drop
<1>2. Held'
    BY DEF TypeOK, Held, LinkStates, Drop
<1>3. Clean' => Clean
    BY DEF TypeOK, Held, Clean, LinkStates, Drop
<1>4. ASSUME Clean' PROVE Orderly'
    BY <1>3, <1>4 DEF TypeOK, Held, Clean, Orderly, LinkStates, Drop
<1>5. QED
    BY <1>1, <1>2, <1>4

(* A disconnection by the server is followed by connect() at once.         *)
LEMMA ServerDisconnectKeeps ==
    ASSUME NEW s \in Sockets, IInv, ServerDisconnect(s)
    PROVE  IInv'
<1> USE DEF IInv, Sockets, NoSocket, Alive, requestVars
<1>1. TypeOK'
    BY SMTT(30) DEF TypeOK, Held, LinkStates, ServerDisconnect, Reconnect, GivenUp, Crash
<1>2. Held'
    BY DEF TypeOK, Held, LinkStates, ServerDisconnect, Reconnect, GivenUp, Crash
<1>3. Clean' => Clean
  <2>1. [link EXCEPT ![s] = "dead"] \in [Sockets -> LinkStates]
    BY DEF TypeOK, LinkStates
  <2>2. SUFFICES ASSUME Clean', NEW t \in 1..opened, t # sock
                 PROVE  link[t] = "closed"
    BY DEF Clean
  <2>3. opened' = opened /\ t \in Sockets
    BY DEF TypeOK, ServerDisconnect
  <2>4. sock' \in {sock, NoSocket} /\ (t # s => link'[t] = link[t])
    BY <2>1, <2>2, <2>3, ReconnectSpares DEF TypeOK, ServerDisconnect
  <2>5. t # s => link'[t] = "closed"
    BY <2>2, <2>3, <2>4 DEF Clean
  <2>6. t = s => link'[t] # "closed" /\ sock' # t
    BY <2>1, <2>2, <2>3, ReconnectSpares DEF TypeOK, ServerDisconnect
  <2>7. QED
    BY <2>2, <2>3, <2>4, <2>5, <2>6 DEF Clean
<1>4. ASSUME Clean' PROVE Orderly'
    BY <1>3, <1>4 DEF TypeOK, Held, Clean, Orderly, LinkStates, ServerDisconnect,
       Reconnect, GivenUp, Crash
<1>5. QED
    BY <1>1, <1>2, <1>4

(* A refused connection is retried by the timer, stops the repeater or is  *)
(* only logged.                                                            *)
LEMMA RejectedKeeps ==
    ASSUME NEW s \in Sockets, NEW why \in Rejections, IInv, Rejected(s, why)
    PROVE  IInv'
<1> USE DEF IInv, Sockets, NoSocket, Alive, requestVars
<1>1. TypeOK'
  <2>1. \A l \in {"dead", "ignored"} : [link EXCEPT ![s] = l] \in [Sockets -> LinkStates]
    BY DEF TypeOK, LinkStates
  <2>2. link' \in [Sockets -> LinkStates]
    BY <2>1, StopSpares DEF Rejected
  <2>3. /\ status' \in {"off", "starting", "running"}
        /\ sock' \in 0..MaxStarts /\ subs' \in 0..MaxStarts
        /\ timer' \in {"none", "armed"} /\ process' \in {"alive", "crashed"}
    BY DEF TypeOK, Rejected, Crash, StopSession, RemoveAllListeners,
           ClearConnectionTimer, ScheduleReconnection
  <2>4. attempts' \in 0..MaxReconnections /\ strays' \in 0..MaxStrays
    BY DEF TypeOK, Rejected, ScheduleReconnection, AttemptsExhausted
  <2>5. QED
    BY <2>2, <2>3, <2>4 DEF TypeOK, Rejected, Crash
<1>2. Held'
    BY SMTT(30) DEF TypeOK, Held, LinkStates, Rejected, Crash, StopSession,
       RemoveAllListeners, ClearConnectionTimer, CloseSocket, ScheduleReconnection,
       AttemptsExhausted
<1>3. Clean' => Clean
  <2>1. [link EXCEPT ![s] = "dead"] \in [Sockets -> LinkStates]
    BY DEF TypeOK, LinkStates
  <2>2. SUFFICES ASSUME Clean', NEW t \in 1..opened, t # sock
                 PROVE  link[t] = "closed"
    BY DEF Clean
  <2>3. opened' = opened /\ t \in Sockets
    BY DEF TypeOK, Rejected
  <2>4. sock' \in {sock, NoSocket} /\ (t # s => link'[t] = link[t])
    BY <2>1, <2>2, <2>3, StopSpares DEF TypeOK, Rejected, Crash, ScheduleReconnection,
       AttemptsExhausted
  <2>5. t # s => link'[t] = "closed"
    BY <2>2, <2>3, <2>4 DEF Clean
  <2>6. t # s
    <3>1. /\ sock' \in {sock, NoSocket}
          /\ s # sock => link'[s] \in {"dead", "ignored"}
      BY <2>1, StopSpares DEF TypeOK, Rejected, Crash
    <3>2. link'[t] = "closed"
      BY <2>2, <2>3, <3>1 DEF Clean
    <3>3. QED
      BY <2>2, <3>1, <3>2
  <2>7. QED
    BY <2>3, <2>4, <2>5, <2>6
<1>4. ASSUME Clean' PROVE Orderly'
    BY <1>3, <1>4 DEF TypeOK, Held, Clean, Orderly, LinkStates, Rejected, Crash,
       StopSession, RemoveAllListeners, ClearConnectionTimer, CloseSocket,
       ScheduleReconnection, AttemptsExhausted
<1>5. QED
    BY <1>1, <1>2, <1>4

(* A failed attempt of the socket.io manager is counted or stops the       *)
(* repeater.                                                               *)
LEMMA TransportFailsKeeps == ASSUME NEW s \in Sockets, IInv, TransportFails(s) PROVE IInv'
<1> USE DEF IInv, Sockets, NoSocket, Alive, requestVars
<1>1. TypeOK'
  <2>1. CASE retries[s] < MaxReconnections
    BY <2>1, SMTT(30) DEF TypeOK, LinkStates, TransportFails
  <2>2. CASE ~(retries[s] < MaxReconnections)
    <3>1. StopSession([link EXCEPT ![s] = "dead"]) /\ retries' = [retries EXCEPT ![s] = 0]
      BY <2>2 DEF TransportFails
    <3>2. [link EXCEPT ![s] = "dead"] \in [Sockets -> LinkStates]
      BY DEF TypeOK, LinkStates
    <3>3. /\ link' \in [Sockets -> LinkStates]
          /\ status' \in {"off", "starting", "running"} /\ sock' \in 0..MaxStarts
          /\ subs' \in 0..MaxStarts /\ timer' \in {"none", "armed"}
      BY <3>1, <3>2, SMTT(30) DEF TypeOK, LinkStates, StopSession, RemoveAllListeners,
         ClearConnectionTimer, CloseSocket
    <3>4. QED
      BY <3>1, <3>3 DEF TypeOK, TransportFails
  <2>3. QED
    BY <2>1, <2>2
<1>2. Held'
    BY SMTT(30) DEF TypeOK, Held, LinkStates, TransportFails, StopSession,
       RemoveAllListeners, ClearConnectionTimer, CloseSocket
<1>3. Clean' => Clean
  <2>1. [link EXCEPT ![s] = "dead"] \in [Sockets -> LinkStates]
    BY DEF TypeOK, LinkStates
  <2>2. SUFFICES ASSUME Clean', NEW t \in 1..opened, t # sock
                 PROVE  link[t] = "closed"
    BY DEF Clean
  <2>3. opened' = opened /\ t \in Sockets
    BY DEF TypeOK, TransportFails
  <2>4. sock' \in {sock, NoSocket} /\ (t # s => link'[t] = link[t])
    BY <2>1, <2>2, <2>3, StopSpares DEF TypeOK, TransportFails
  <2>5. t # s => link'[t] = "closed"
    BY <2>2, <2>3, <2>4 DEF Clean
  <2>6. t # s
    <3>1. CASE retries[s] < MaxReconnections
      BY <2>2, <2>3, <3>1 DEF Clean, TransportFails
    <3>2. CASE ~(retries[s] < MaxReconnections)
      <4>1. StopSession([link EXCEPT ![s] = "dead"])
        BY <3>2 DEF TransportFails
      <4>2. /\ sock' \in {sock, NoSocket}
            /\ \A u \in Sockets : u # sock => link'[u] = [link EXCEPT ![s] = "dead"][u]
        BY <2>1, <4>1, StopSpares
      <4>3. link'[t] = "closed"
        BY <2>2, <2>3, <4>2 DEF Clean
      <4>4. QED
        BY <2>2, <2>3, <4>2, <4>3 DEF TypeOK
    <3>3. QED
      BY <3>1, <3>2
  <2>7. QED
    BY <2>3, <2>4, <2>5, <2>6
<1>4. ASSUME Clean' PROVE Orderly'
    BY <1>3, <1>4 DEF TypeOK, Held, Clean, Orderly, LinkStates, TransportFails,
       StopSession, RemoveAllListeners, ClearConnectionTimer, CloseSocket
<1>5. QED
    BY <1>1, <1>2, <1>4


(* Every step of the repeater keeps the invariant.                         *)
LEMMA NextKeepsIInv == IInv /\ [Next]_vars => IInv'
<1> SUFFICES ASSUME IInv, [Next]_vars PROVE IInv'
    OBVIOUS
<1>1. ASSUME Start PROVE IInv'
    BY <1>1, StartKeeps
<1>2. ASSUME Stop PROVE IInv'
    BY <1>2, StopKeeps
<1>3. ASSUME Respond PROVE IInv'
    BY <1>3, RespondKeeps
<1>4. ASSUME DeployTimeout PROVE IInv'
    BY <1>4, DeployTimeoutKeeps
<1>5. ASSUME TimerFires PROVE IInv'
    BY <1>5, TimerFiresKeeps
<1>6. ASSUME StrayTimerFires PROVE IInv'
    BY <1>6, StrayTimerFiresKeeps
<1>7. ASSUME NEW s \in Sockets, HandleConnect(s) PROVE IInv'
    BY <1>7, HandleConnectKeeps
<1>8. ASSUME NEW s \in Sockets, NEW why \in Rejections, Rejected(s, why)
      PROVE  IInv'
    BY <1>8, RejectedKeeps
<1>9. ASSUME NEW s \in Sockets, TransportFails(s) PROVE IInv'
    BY <1>9, TransportFailsKeeps
<1>10. ASSUME NEW s \in Sockets, Deployed(s) PROVE IInv'
    BY <1>10, DeployedKeeps
<1>11. ASSUME NEW s \in Sockets, RequestReceived(s) PROVE IInv'
    BY <1>11, RequestReceivedKeeps
<1>12. ASSUME NEW s \in Sockets, NEW kind \in ErrorKinds, ServerError(s, kind)
      PROVE  IInv'
    BY <1>12, ServerErrorKeeps
<1>13. ASSUME NEW s \in Sockets, Drop(s) PROVE IInv'
    BY <1>13, DropKeeps
<1>14. ASSUME NEW s \in Sockets, ServerDisconnect(s) PROVE IInv'
    BY <1>14, ServerDisconnectKeeps
<1>15. CASE UNCHANGED vars
    BY <1>15 DEF IInv, TypeOK, Held, Clean, Orderly, Alive, vars
<1>16. QED
    BY <1>1, <1>2, <1>3, <1>4, <1>5, <1>6, <1>7, <1>8, <1>9, <1>10, <1>11, <1>12, <1>13,
       <1>14, <1>15 DEF Next, ConnectionSettles

(* The inductive invariant holds for ever. *)
THEOREM Invariance == Spec => []IInv
<1>1. Init => IInv
    BY InitIInv
<1>2. IInv /\ [Next]_vars => IInv'
    BY NextKeepsIInv
<1>3. QED
    BY <1>1, <1>2, PTL DEF Spec

(* Every variable keeps its type: connectionAttempts and the manager's     *)
(* retries never pass MAX_RECONNECTION_ATTEMPTS.                           *)
THEOREM Types == Spec => []TypeOK
<1>1. IInv => TypeOK
    BY DEF IInv
<1>2. QED
    BY <1>1, Invariance, PTL

(* RUNNING means wedged in one case only, a refusal without an error code: *)
(* any other socket that was given up has a timer armed                    *)
(* (handleConnectionError, scheduleReconnection).                          *)
THEOREM Reconnecting == Spec => []RunningIsReconnecting
<1>1. IInv => RunningIsReconnecting
    BY CleanReplaced DEF IInv, Held, Orderly, RunningIsReconnecting
<1>2. QED
    BY <1>1, Invariance, PTL

(* A start that waits for its connection has not missed it, whichever of   *)
(* the two mechanisms of reconnection makes it and whatever sockets other  *)
(* starts have left: its socket is connecting or was given up (connect,    *)
(* handleConnect, handleConnectionError).                                  *)
THEOREM NoConnectionMissed ==
    Spec => [](awaits = "connect" => link[sock] = "connecting" \/ GivenUp(link[sock]))
<1>1. IInv => (awaits = "connect" => link[sock] = "connecting" \/ GivenUp(link[sock]))
    BY DEF IInv, GivenUp, TypeOK, Held, LinkStates, NoSocket, Sockets
<1>2. QED
    BY <1>1, Invariance, PTL

(* Every connection carries one DEPLOY, however often the repeater was     *)
(* stopped, started and reconnected.                                       *)
THEOREM HandledOnce == Spec => []EventsHandledOnce
<1>1. ASSUME IInv, Replaced = {}, NEW s \in Sockets, link[s] = "connected"
      PROVE  sends[s] = 1
  <2>1. Clean /\ Orderly
    BY <1>1, CleanReplaced DEF IInv
  <2>2. s \in 1..opened
    BY <1>1 DEF IInv, TypeOK, Held, Sockets
  <2>3. s = sock
    BY <1>1, <2>1, <2>2 DEF Clean
  <2>4. sock # NoSocket
    BY <2>3 DEF Sockets, NoSocket
  <2>5. QED
    BY <1>1, <2>1, <2>3, <2>4 DEF Orderly
<1>2. ASSUME IInv, Replaced = {}
      PROVE  executing + answers <= 1
    BY <1>2, CleanReplaced DEF IInv, Orderly
<1>3. IInv => EventsHandledOnce
    BY <1>1, <1>2 DEF EventsHandledOnce
<1>4. QED
    BY <1>3, Invariance, PTL

(* No timer and no event meets a missing socket or an empty emitter. *)
THEOREM NoStray == Spec => []NoStrayCallback
<1>1. IInv => NoStrayCallback
    BY CleanReplaced DEF IInv, Orderly, NoStrayCallback
<1>2. QED
    BY <1>1, Invariance, PTL

(* Only a start() over a socket that a failed start() left makes a socket  *)
(* unreachable.                                                            *)
LEMMA ReplacedOnlyByStart ==
    ASSUME IInv, [Next]_vars, ~(Replaced' \subseteq Replaced)
    PROVE  status = "off" /\ sock # NoSocket /\ status' = "starting"
<1> USE DEF IInv, TypeOK, Held, Sockets, NoSocket, LinkStates
<1>1. CASE Start
    BY <1>1 DEF Replaced, Start, MayStart
<1>2. CASE ~Start
  <2>1. ASSUME Stop PROVE Replaced' \subseteq Replaced
      BY <2>1 DEF Replaced, Stop, StopSession, RemoveAllListeners, ClearConnectionTimer,
         CloseSocket
  <2>2. ASSUME Respond PROVE Replaced' \subseteq Replaced
      BY <2>2 DEF Replaced, Respond
  <2>3. ASSUME DeployTimeout PROVE Replaced' \subseteq Replaced
      BY <2>3 DEF Replaced, DeployTimeout, FailStart, GiveStatusBack
  <2>4. ASSUME TimerFires PROVE Replaced' \subseteq Replaced
      BY <2>4 DEF Replaced, TimerFires, Reconnect, GivenUp, Crash
  <2>5. ASSUME StrayTimerFires PROVE Replaced' \subseteq Replaced
      BY <2>5 DEF Replaced, StrayTimerFires, Reconnect, GivenUp, Crash
  <2>6. ASSUME NEW s \in Sockets, HandleConnect(s) PROVE Replaced' \subseteq Replaced
      BY <2>6 DEF Replaced, HandleConnect
  <2>7. ASSUME NEW s \in Sockets, NEW why \in Rejections, Rejected(s, why)
        PROVE  Replaced' \subseteq Replaced
      BY <2>7 DEF Replaced, Rejected, Crash, ScheduleReconnection,
             StopSession, RemoveAllListeners, ClearConnectionTimer, CloseSocket
  <2>8. ASSUME NEW s \in Sockets, TransportFails(s) PROVE Replaced' \subseteq Replaced
      BY <2>8 DEF Replaced, TransportFails, StopSession, RemoveAllListeners,
         ClearConnectionTimer, CloseSocket
  <2>9. ASSUME NEW s \in Sockets, Deployed(s) PROVE Replaced' \subseteq Replaced
      BY <2>9 DEF Replaced, Deployed
  <2>10. ASSUME NEW s \in Sockets, RequestReceived(s) PROVE Replaced' \subseteq Replaced
      BY <2>10 DEF Replaced, RequestReceived
  <2>11. ASSUME NEW s \in Sockets, NEW kind \in ErrorKinds, ServerError(s, kind)
        PROVE  Replaced' \subseteq Replaced
      BY <2>11 DEF Replaced, ServerError, Crash, FailStart, GiveStatusBack,
             StopSession, RemoveAllListeners, ClearConnectionTimer, CloseSocket
  <2>12. ASSUME NEW s \in Sockets, Drop(s) PROVE Replaced' \subseteq Replaced
      BY <2>12 DEF Replaced, Drop
  <2>13. ASSUME NEW s \in Sockets, ServerDisconnect(s) PROVE Replaced' \subseteq Replaced
      BY <2>13 DEF Replaced, ServerDisconnect, Reconnect, GivenUp, Crash
  <2>14. CASE UNCHANGED vars
    BY <2>14 DEF Replaced, vars
  <2>15. QED
    BY <1>2, <2>1, <2>2, <2>3, <2>4, <2>5, <2>6, <2>7, <2>8, <2>9, <2>10, <2>11, <2>12,
       <2>13, <2>14
       DEF Next, ConnectionSettles
<1>3. QED
    BY <1>1, <1>2

(* A live socket gets out of reach only when start() is called over the    *)
(* socket a failed start() has left (start, connect).                      *)
THEOREM OnlyRestarts == Spec => OnlyRestartReplaces
<1>1. IInv /\ [Next]_vars
        => [~(Replaced' \subseteq Replaced)
              => status = "off" /\ sock # NoSocket /\ status' = "starting"]_vars
    BY ReplacedOnlyByStart
<1>2. QED
    BY <1>1, Invariance, PTL DEF Spec, OnlyRestartReplaces

(* Every step of a Repeater is a step of the session it promises, or none  *)
(* that its owner sees.                                                    *)
LEMMA StepsAreSessionSteps ==
    ASSUME IInv, [Next]_vars
    PROVE  [Session!SessionNext]_(Session!sessionVars)
<1> USE DEF IInv, TypeOK, Held, Sockets, NoSocket, LinkStates
<1> USE DEF Session!SessionNext, Session!sessionVars, Session!Begin, Session!Establish,
            Session!Abandon, Session!End, Session!LinkChanges
<1>1. ASSUME Start PROVE [Session!SessionNext]_(Session!sessionVars)
    BY <1>1 DEF Start, MayStart
<1>2. ASSUME Stop PROVE [Session!SessionNext]_(Session!sessionVars)
    BY <1>2 DEF Stop, StopSession, RemoveAllListeners, ClearConnectionTimer, CloseSocket
<1>3. ASSUME Respond PROVE [Session!SessionNext]_(Session!sessionVars)
    BY <1>3 DEF Respond
<1>4. ASSUME DeployTimeout PROVE [Session!SessionNext]_(Session!sessionVars)
    BY <1>4 DEF DeployTimeout, FailStart, GiveStatusBack
<1>5. ASSUME TimerFires PROVE [Session!SessionNext]_(Session!sessionVars)
    BY <1>5 DEF TimerFires, Reconnect, GivenUp, Crash
<1>6. ASSUME StrayTimerFires PROVE [Session!SessionNext]_(Session!sessionVars)
    BY <1>6 DEF StrayTimerFires, Reconnect, GivenUp, Crash
<1>7. ASSUME NEW s \in Sockets, HandleConnect(s)
       PROVE  [Session!SessionNext]_(Session!sessionVars)
    BY <1>7 DEF HandleConnect
<1>8. ASSUME NEW s \in Sockets, NEW why \in Rejections, Rejected(s, why)
      PROVE  [Session!SessionNext]_(Session!sessionVars)
    BY <1>8 DEF Rejected, Crash, ScheduleReconnection,
           StopSession, RemoveAllListeners, ClearConnectionTimer, CloseSocket
<1>9. ASSUME NEW s \in Sockets, TransportFails(s)
       PROVE  [Session!SessionNext]_(Session!sessionVars)
    BY <1>9 DEF TransportFails, StopSession, RemoveAllListeners, ClearConnectionTimer,
       CloseSocket
<1>10. ASSUME NEW s \in Sockets, Deployed(s)
       PROVE  [Session!SessionNext]_(Session!sessionVars)
    BY <1>10 DEF Deployed
<1>11. ASSUME NEW s \in Sockets, RequestReceived(s)
       PROVE  [Session!SessionNext]_(Session!sessionVars)
    BY <1>11 DEF RequestReceived
<1>12. ASSUME NEW s \in Sockets, NEW kind \in ErrorKinds, ServerError(s, kind)
      PROVE  [Session!SessionNext]_(Session!sessionVars)
    BY <1>12 DEF ServerError, Crash, FailStart, GiveStatusBack,
           StopSession, RemoveAllListeners, ClearConnectionTimer, CloseSocket
<1>13. ASSUME NEW s \in Sockets, Drop(s) PROVE [Session!SessionNext]_(Session!sessionVars)
    BY <1>13 DEF Drop
<1>14. ASSUME NEW s \in Sockets, ServerDisconnect(s)
       PROVE  [Session!SessionNext]_(Session!sessionVars)
    BY <1>14 DEF ServerDisconnect, Reconnect, GivenUp, Crash
<1>15. CASE UNCHANGED vars
    BY <1>15 DEF vars
<1>16. QED
    BY <1>1, <1>2, <1>3, <1>4, <1>5, <1>6, <1>7, <1>8, <1>9, <1>10, <1>11, <1>12, <1>13,
       <1>14, <1>15
       DEF Next, ConnectionSettles

(* A Repeater keeps the contract of RepeaterSession. *)
THEOREM Refinement == Spec => ImplementsSession
<1>1. Init => Session!SessionInit
    BY DEF Init, Session!SessionInit, NoSocket
<1>2. IInv /\ [Next]_vars => [Session!SessionNext]_(Session!sessionVars)
    BY StepsAreSessionSteps
<1>3. QED
    BY <1>1, <1>2, Invariance, PTL
    DEF Spec, ImplementsSession, Session!SessionSpec

(* A session that was begun holds a socket until it ends: proved of the    *)
(* contract alone, and so of every module that keeps to it (connect,       *)
(* disconnect).                                                            *)
LEMMA ContractHoldsSocket ==
    Session!SessionSpec => []Session!SessionTypeOK
<1> USE DEF Session!SessionTypeOK, Session!Statuses, Session!Links
<1>1. Session!SessionInit => Session!SessionTypeOK
    BY DEF Session!SessionInit
<1>2. ASSUME Session!SessionTypeOK, [Session!SessionNext]_(Session!sessionVars)
      PROVE  Session!SessionTypeOK'
  <2>1. CASE Session!Begin
    BY <1>2, <2>1 DEF Session!Begin
  <2>2. CASE Session!Establish
    BY <1>2, <2>2 DEF Session!Establish
  <2>3. CASE Session!Abandon
    BY <1>2, <2>3 DEF Session!Abandon
  <2>4. CASE Session!End
    BY <1>2, <2>4 DEF Session!End
  <2>5. CASE Session!LinkChanges
    BY <1>2, <2>5 DEF Session!LinkChanges
  <2>6. CASE UNCHANGED Session!sessionVars
    BY <1>2, <2>6 DEF Session!sessionVars
  <2>7. QED
    BY <1>2, <2>1, <2>2, <2>3, <2>4, <2>5, <2>6 DEF Session!SessionNext
<1>3. QED
    BY <1>1, <1>2, PTL DEF Session!SessionSpec

(* A repeater that is starting or running holds a socket (start, connect,  *)
(* disconnect).                                                            *)
THEOREM SessionHoldsSocket == Spec => []Session!SessionTypeOK
    BY Refinement, ContractHoldsSocket, PTL DEF ImplementsSession
=============================================================================
