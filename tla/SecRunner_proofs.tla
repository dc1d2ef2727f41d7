--------------------------- MODULE SecRunner_proofs --------------------------
(***************************************************************************)
(* The safety of SecRunner, for any callers, any shutdown signals and any  *)
(* number of repeaters: first what holds however calls overlap, that every *)
(* variable keeps its type and every session its contract; then what a     *)
(* runner keeps whose calls do not overlap.  TLC shows that it does not    *)
(* keep it when they do.                                                   *)
(***************************************************************************)
EXTENDS SecRunner, TLAPS

(* A start waits for a session nobody else starts, whatever other calls    *)
(* make of the runner's fields meanwhile; a deletion is of some repeater.  *)
Waiting(c) ==
    /\ pc[c] = "starting" => target[c] \in 1..created /\ status[target[c]] = "starting"
    /\ pc[c] = "deleting" => target[c] \in Repeaters
OwnStart ==
    \A c, d \in Callers :
        pc[c] = "starting" /\ pc[d] = "starting" /\ target[c] = target[d] => c = d

(* A repeater has a session once it was created, and a socket with it.     *)
Linked(r) ==
    /\ r > created => status[r] = "off" /\ link[r] = "none"
    /\ status[r] # "off" => link[r] # "none"

(* What holds however calls overlap.                                       *)
SessionInv ==
    /\ TypeOK /\ OwnStart
    /\ \A c \in Callers : Waiting(c)
    /\ \A r \in Repeaters : Linked(r)

(* No repeater is a number too, but no repeater's.                         *)
LEMMA NoneIsNoRepeater == NoRepeater \in 0..MaxRepeaters /\ NoRepeater \notin Repeaters
    BY MaxRepeatersAssumption DEF NoRepeater, Repeaters

LEMMA CreatedKeepsSessions ==
    ASSUME SessionInv, NEW c \in Callers, Created(c)
    PROVE  SessionInv'
<1> DEFINE n == created + 1
<1>1. n \in Repeaters /\ created \in Nat /\ created' = n /\ n \in 1..n
    BY MaxRepeatersAssumption DEF Created, SessionInv, TypeOK
<1>2. TypeOK'
    BY <1>1, MaxRepeatersAssumption DEF SessionInv, TypeOK, Created, Go, Repeaters, failures
<1>3. /\ status' = [status EXCEPT ![n] = "starting"] /\ link' = [link EXCEPT ![n] = "down"]
      /\ target' = [target EXCEPT ![c] = n] /\ pc' = [pc EXCEPT ![c] = "starting"]
      /\ pc[c] = "creating"
    BY DEF Created, Go
<1>4. \A d \in Callers : pc[d] = "starting" => target[d] # n /\ target[d] \in 1..n
    BY <1>1 DEF SessionInv, Waiting
<1>5. ASSUME NEW d \in Callers PROVE Waiting(d)'
  <2>1. CASE d = c
    BY <2>1, <1>1, <1>3 DEF SessionInv, TypeOK, Waiting
  <2>2. CASE d # c
    <3>1. pc'[d] = pc[d] /\ target'[d] = target[d]
      BY <2>2, <1>3 DEF SessionInv, TypeOK
    <3>2. pc[d] = "starting" => status'[target[d]] = status[target[d]]
      BY <1>1, <1>3, <1>4, MaxRepeatersAssumption DEF SessionInv, TypeOK, Repeaters
    <3>3. QED
      BY <3>1, <3>2, <1>1, <1>4 DEF SessionInv, Waiting
  <2>3. QED
    BY <2>1, <2>2
<1>6. OwnStart'
    BY <1>1, <1>3, <1>4 DEF SessionInv, TypeOK, OwnStart
<1>7. ASSUME NEW r \in Repeaters PROVE Linked(r)'
  <2>1. CASE r = n
    BY <2>1, <1>1, <1>3 DEF SessionInv, TypeOK, Linked
  <2>2. CASE r # n
    <3>1. status'[r] = status[r] /\ link'[r] = link[r] /\ (r > n => r > created)
      BY <2>2, <1>1, <1>3 DEF SessionInv, TypeOK, Repeaters
    <3>2. QED
      BY <3>1, <1>1 DEF SessionInv, Linked
  <2>3. QED
    BY <2>1, <2>2
<1>8. QED
    BY <1>2, <1>5, <1>6, <1>7 DEF SessionInv

(* A start that is over, for better or worse: its session is nobody        *)
(* else's.                                                                 *)
LEMMA StartEndsKeepsSessions ==
    ASSUME SessionInv, NEW c \in Callers, pc[c] = "starting", Go(c, "idle"),
           NEW now \in {"off", "running"}, status' = [status EXCEPT ![target[c]] = now],
           UNCHANGED <<created, link, target>>, TypeOK'
    PROVE  SessionInv'
<1>1. target[c] \in 1..created /\ status[target[c]] = "starting" /\ target[c] \in Repeaters
    BY MaxRepeatersAssumption DEF SessionInv, TypeOK, Waiting, Repeaters
<1>2. \A d \in Callers : pc'[d] = IF d = c THEN "idle" ELSE pc[d]
    BY DEF Go, SessionInv, TypeOK
<1>3. \A r \in Repeaters : status'[r] = IF r = target[c] THEN now ELSE status[r]
    BY DEF SessionInv, TypeOK
<1>4. ASSUME NEW d \in Callers PROVE Waiting(d)'
  <2>1. CASE pc'[d] = "starting"
    <3>1. pc[d] = "starting" /\ target[d] # target[c]
      BY <2>1, <1>2 DEF SessionInv, OwnStart
    <3>2. target[d] \in 1..created /\ target[d] \in Repeaters
      BY <3>1, MaxRepeatersAssumption DEF SessionInv, TypeOK, Waiting, Repeaters
    <3>3. QED
      BY <2>1, <3>1, <3>2, <1>3 DEF SessionInv, Waiting
  <2>2. CASE pc'[d] # "starting"
    BY <2>2, <1>2 DEF SessionInv, Waiting
  <2>3. QED
    BY <2>1, <2>2
<1>5. OwnStart'
    BY <1>2 DEF SessionInv, OwnStart
<1>6. ASSUME NEW r \in Repeaters PROVE Linked(r)'
    BY <1>1, <1>3 DEF SessionInv, Linked, TypeOK
<1>7. QED
    BY <1>4, <1>5, <1>6 DEF SessionInv

(* stop() ends a session only that is running, which no start waits for.   *)
LEMMA BeginClearKeepsSessions ==
    ASSUME SessionInv, NEW c \in Callers, NEW registered \in [Signals -> Nat],
           BeginClear(c, registered)
    PROVE  SessionInv'
<1>0. pc[c] = "idle"
    BY DEF BeginClear, MayCall
<1>1. CASE repeater # NoRepeater /\ manager
  <2>1. /\ repeater \in Repeaters /\ StopRepeater(repeater)
        /\ target' = [target EXCEPT ![c] = repeater]
        /\ pc' = [pc EXCEPT ![c] = "deleting"] /\ handlers' = registered
        /\ UNCHANGED <<manager, repeater, created, exists, unstarted, undeleted>>
    BY <1>1, MaxRepeatersAssumption
       DEF BeginClear, Go, failures, SessionInv, TypeOK, Repeaters, NoRepeater
  <2>2. TypeOK'
    BY <2>1, MaxRepeatersAssumption DEF SessionInv, TypeOK, StopRepeater, sessions, Repeaters
  <2>3. \A r \in Repeaters :
            \/ status'[r] = status[r] /\ link'[r] = link[r]
            \/ status[r] = "running" /\ status'[r] = "off" /\ link'[r] = "none"
    <3>1. CASE status[repeater] = "running"
      BY <2>1, <3>1 DEF StopRepeater, SessionInv, TypeOK
    <3>2. CASE status[repeater] # "running"
      BY <2>1, <3>2 DEF StopRepeater, sessions
    <3>3. QED
      BY <3>1, <3>2
  <2>4. ASSUME NEW d \in Callers PROVE Waiting(d)'
    <3>1. CASE d = c
      BY <3>1, <2>1 DEF SessionInv, TypeOK, Waiting
    <3>2. CASE d # c
      <4>1. pc'[d] = pc[d] /\ target'[d] = target[d]
        BY <3>2, <2>1 DEF SessionInv, TypeOK
      <4>2. pc[d] = "starting" => target[d] \in Repeaters
        BY MaxRepeatersAssumption DEF SessionInv, TypeOK, Waiting, Repeaters
      <4>3. QED
        BY <4>1, <4>2, <2>1, <2>3 DEF SessionInv, Waiting
    <3>3. QED
      BY <3>1, <3>2
  <2>5. OwnStart'
    BY <1>0, <2>1 DEF SessionInv, TypeOK, OwnStart
  <2>6. ASSUME NEW r \in Repeaters PROVE Linked(r)'
    BY <2>1, <2>3 DEF SessionInv, Linked
  <2>7. QED
    BY <2>2, <2>4, <2>5, <2>6 DEF SessionInv
<1>2. CASE ~(repeater # NoRepeater /\ manager)
  <2>1. /\ handlers' = RemoveHandlers(registered)
        /\ manager' = FALSE /\ repeater' = NoRepeater
        /\ UNCHANGED <<status, link, target, pc, created, exists, unstarted, undeleted>>
    BY <1>2 DEF BeginClear, sessions, failures
  <2>2. handlers' \in [Signals -> Nat]
    BY <2>1 DEF RemoveHandlers
  <2>3. TypeOK'
    BY <2>1, <2>2, NoneIsNoRepeater DEF SessionInv, TypeOK
  <2>4. QED
    BY <2>1, <2>3 DEF SessionInv, OwnStart, Waiting, Linked
<1>3. QED
    BY <1>1, <1>2

LEMMA SessionActsKeepsSessions ==
    ASSUME SessionInv, NEW r \in Repeaters, SessionActs(r)
    PROVE  SessionInv'
<1>1. /\ status' \in [Repeaters -> {"off", "starting", "running"}]
      /\ link' \in [Repeaters -> {"none", "down", "up"}]
      /\ \A q \in Repeaters \ {r} : status'[q] = status[q] /\ link'[q] = link[q]
      /\ \/ status[r] = "running" /\ status'[r] = "off" /\ link'[r] = "none"
         \/ link[r] # "none" /\ link'[r] # "none" /\ status'[r] = status[r]
    BY DEF SessionActs, SessionInv, TypeOK
<1>2. UNCHANGED <<manager, repeater, handlers, created, exists, unstarted, undeleted,
                  pc, target>>
    BY DEF SessionActs, failures
<1>3. TypeOK'
    BY <1>1, <1>2 DEF SessionInv, TypeOK
<1>4. ASSUME NEW c \in Callers PROVE Waiting(c)'
  <2>1. pc[c] = "starting" => target[c] \in Repeaters
    BY MaxRepeatersAssumption DEF SessionInv, TypeOK, Waiting, Repeaters
  <2>2. QED
    BY <2>1, <1>1, <1>2 DEF SessionInv, Waiting
<1>5. ASSUME NEW q \in Repeaters PROVE Linked(q)'
    BY <1>1, <1>2 DEF SessionInv, Linked
<1>6. QED
    BY <1>2, <1>3, <1>4, <1>5 DEF SessionInv, OwnStart

LEMMA InitEstablishesSessions == Init => SessionInv
<1> SUFFICES ASSUME Init PROVE SessionInv
    OBVIOUS
<1>1. TypeOK
    BY NoneIsNoRepeater, MaxRepeatersAssumption DEF Init, TypeOK, NoRepeater
<1>2. QED
    BY <1>1 DEF Init, SessionInv, OwnStart, Waiting, Linked

LEMMA StepKeepsSessions ==
    ASSUME SessionInv, [Next]_vars
    PROVE  SessionInv'
<1>1. ASSUME NEW c \in Callers, CallInit(c) \/ Configured(c) PROVE SessionInv'
  <2>1. CASE CallInit(c)
    BY <2>1 DEF CallInit, Go, sessions, failures, SessionInv, TypeOK, OwnStart, Waiting, Linked
  <2>2. CASE Configured(c)
    BY <2>2 DEF Configured, Go, sessions, failures, SessionInv, TypeOK, OwnStart, Waiting,
       Linked
  <2>3. QED
    BY <1>1, <2>1, <2>2
<1>2. ASSUME NEW c \in Callers, Started(c) PROVE SessionInv'
  <2>1. TypeOK'
    BY <1>2 DEF Started, Go, failures, SessionInv, TypeOK
  <2>2. QED
    BY <1>2, <2>1, StartEndsKeepsSessions DEF Started
<1>3. ASSUME NEW c \in Callers, InitFails(c) PROVE SessionInv'
  <2>1. CASE pc[c] \in {"configuring", "creating"}
    <3>1. TypeOK'
      BY <1>3, <2>1 DEF InitFails, Go, SessionInv, TypeOK
    <3>2. /\ UNCHANGED <<created, status, link, target>>
          /\ \A d \in Callers : pc'[d] = pc[d] \/ pc'[d] = "idle"
      BY <1>3, <2>1 DEF InitFails, Go, SessionInv, TypeOK
    <3>3. QED
      BY <3>1, <3>2 DEF SessionInv, OwnStart, Waiting, Linked
  <2>2. CASE pc[c] = "starting"
    <3>1. target[c] \in Repeaters
      BY <2>2, MaxRepeatersAssumption DEF SessionInv, TypeOK, Waiting, Repeaters
    <3>2. TypeOK'
      BY <1>3, <2>2, <3>1 DEF InitFails, Go, SessionInv, TypeOK
    <3>3. QED
      BY <1>3, <2>2, <3>2, StartEndsKeepsSessions DEF InitFails
  <2>3. QED
    BY <1>3, <2>1, <2>2 DEF InitFails
<1>4. ASSUME NEW c \in Callers, CallClear(c) PROVE SessionInv'
    BY <1>4, BeginClearKeepsSessions DEF CallClear, SessionInv, TypeOK
<1>5. ASSUME NEW c \in Callers, NEW s \in Signals, Signal(c, s) PROVE SessionInv'
  <2>1. [handlers EXCEPT ![s] = @ - 1] \in [Signals -> Nat]
    BY <1>5 DEF Signal, SessionInv, TypeOK
  <2>2. QED
    BY <1>5, <2>1, BeginClearKeepsSessions DEF Signal
<1>6. ASSUME NEW c \in Callers, EndClear(c) PROVE SessionInv'
  <2>1. target[c] \in Repeaters
    BY <1>6 DEF EndClear, SessionInv, Waiting
  <2>2. exists' \subseteq Repeaters /\ undeleted' \subseteq Repeaters
    BY <1>6, <2>1 DEF EndClear, Remaining, SessionInv, TypeOK
  <2>3. /\ handlers' \in [Signals -> Nat] /\ manager' = FALSE /\ repeater' = NoRepeater
        /\ pc' = [pc EXCEPT ![c] = "idle"]
        /\ UNCHANGED <<created, status, link, unstarted, target>>
    BY <1>6 DEF EndClear, RemoveHandlers, Go, sessions, SessionInv, TypeOK
  <2>4. pc' \in [Callers -> {"idle", "configuring", "creating", "starting", "deleting"}]
    BY <2>3 DEF SessionInv, TypeOK
  <2>5. TypeOK'
    BY <2>2, <2>3, <2>4, NoneIsNoRepeater DEF SessionInv, TypeOK
  <2>6. \A d \in Callers : pc'[d] = pc[d] \/ pc'[d] = "idle"
    BY <2>3 DEF SessionInv, TypeOK
  <2>7. QED
    BY <2>3, <2>5, <2>6 DEF SessionInv, OwnStart, Waiting, Linked
<1>7. CASE UNCHANGED vars
    BY <1>7 DEF vars, sessions, failures, SessionInv, TypeOK, OwnStart, Waiting, Linked
<1>8. QED
    BY <1>1, <1>2, <1>3, <1>4, <1>5, <1>6, <1>7, CreatedKeepsSessions,
       SessionActsKeepsSessions DEF Next

(* How starts, sessions and sockets belong together, however calls         *)
(* overlap.                                                                *)
THEOREM Sessions == Spec => []SessionInv
    BY InitEstablishesSessions, StepKeepsSessions, PTL DEF Spec

(* Every variable of the runner keeps its type, however calls overlap.     *)
THEOREM Types == Spec => []TypeOK
<1>1. SessionInv => TypeOK
    BY DEF SessionInv
<1>2. QED
    BY <1>1, Sessions, PTL

(* One step of the contract of RepeaterSession, or none.                   *)
SessionMove(r) == Session(r)!SessionNext \/ UNCHANGED <<status[r], link[r]>>

(* The calls of the owner and what a session does by itself are the steps  *)
(* its contract allows.                                                    *)
LEMMA StepKeepsContract ==
    ASSUME SessionInv, Next, NEW r \in Repeaters
    PROVE  SessionMove(r)
<1> USE DEF Session!SessionNext
<1>1. ASSUME NEW c \in Callers, CallInit(c) \/ Configured(c) \/ EndClear(c)
      PROVE  SessionMove(r)
    BY <1>1 DEF CallInit, Configured, EndClear, sessions, SessionMove
<1>2. ASSUME NEW c \in Callers, Created(c)
      PROVE  SessionMove(r)
  <2>1. CASE r = created + 1
    <3>1. status[r] = "off" /\ link[r] = "none"
      BY <1>2, <2>1 DEF SessionInv, Linked, TypeOK
    <3>2. status'[r] = "starting" /\ link'[r] = "down"
      BY <1>2, <2>1 DEF Created, SessionInv, TypeOK
    <3>3. QED
      BY <3>1, <3>2 DEF SessionMove, Session!Begin
  <2>2. CASE r # created + 1
    BY <1>2, <2>2 DEF Created, SessionInv, TypeOK, SessionMove
  <2>3. QED
    BY <2>1, <2>2
<1>3. ASSUME NEW c \in Callers, Started(c)
      PROVE  SessionMove(r)
  <2>1. CASE r = target[c]
    <3>1. status[r] = "starting" /\ link[r] = "up"
      BY <1>3, <2>1 DEF Started, SessionInv, Waiting
    <3>2. status'[r] = "running" /\ link'[r] = link[r]
      BY <1>3, <2>1 DEF Started, SessionInv, TypeOK
    <3>3. QED
      BY <3>1, <3>2 DEF SessionMove, Session!Establish
  <2>2. CASE r # target[c]
    BY <1>3, <2>2 DEF Started, SessionInv, TypeOK, SessionMove
  <2>3. QED
    BY <2>1, <2>2
<1>4. ASSUME NEW c \in Callers, InitFails(c)
      PROVE  SessionMove(r)
  <2>1. CASE UNCHANGED status \/ r # target[c]
    BY <1>4, <2>1 DEF InitFails, SessionInv, TypeOK, SessionMove
  <2>2. CASE ~UNCHANGED status /\ r = target[c]
    <3>1. status[r] = "starting" /\ link[r] \in {"down", "up"}
      BY <1>4, <2>2 DEF InitFails, SessionInv, TypeOK, Waiting, Linked
    <3>2. status'[r] = "off" /\ link'[r] = link[r]
      BY <1>4, <2>2 DEF InitFails, SessionInv, TypeOK
    <3>3. QED
      BY <3>1, <3>2 DEF SessionMove, Session!Abandon
  <2>3. QED
    BY <2>1, <2>2
<1>5. ASSUME NEW c \in Callers, NEW registered, BeginClear(c, registered)
      PROVE  SessionMove(r)
  <2>1. CASE r = repeater /\ status[r] = "running" /\ StopRepeater(repeater)
    <3>1. status'[r] = "off" /\ link'[r] = "none"
      BY <2>1 DEF StopRepeater, SessionInv, TypeOK
    <3>2. QED
      BY <2>1, <3>1 DEF SessionMove, Session!End
  <2>2. CASE ~(r = repeater /\ status[r] = "running" /\ StopRepeater(repeater))
    BY <1>5, <2>2 DEF BeginClear, StopRepeater, sessions, SessionInv, TypeOK, SessionMove
  <2>3. QED
    BY <2>1, <2>2
<1>6. ASSUME NEW q \in Repeaters, SessionActs(q)
      PROVE  SessionMove(r)
  <2>1. \/ r # q /\ status'[r] = status[r] /\ link'[r] = link[r]
        \/ status[r] = "running" /\ status'[r] = "off" /\ link'[r] = "none"
        \/ link[r] # "none" /\ link'[r] \in {"down", "up"} /\ status'[r] = status[r]
    BY <1>6 DEF SessionActs, SessionInv, TypeOK
  <2>2. QED
    BY <2>1 DEF SessionMove, Session!End, Session!LinkChanges
<1>7. QED
    BY <1>1, <1>2, <1>3, <1>4, <1>5, <1>6 DEF Next, CallClear, Signal

(* Every repeater is used as the contract of RepeaterSession says: started *)
(* and stopped in turn, and never established over a dead link, however    *)
(* calls overlap (init, clear, Repeater.start, Repeater.stop).             *)
THEOREM KeepsContract == Spec => SessionsKeepContract
<1>1. Init => \A r \in Repeaters : Session(r)!SessionInit
    BY DEF Init, Session!SessionInit
<1>2. SessionInv /\ [Next]_vars =>
        [\A r \in Repeaters :
            Session(r)!SessionNext \/ UNCHANGED <<status[r], link[r]>>]_vars
    BY StepKeepsContract DEF SessionMove
<1>3. QED
    BY <1>1, <1>2, Sessions, PTL DEF Spec, SessionsKeepContract

(* And the other way round: whatever a session may do by itself, lose or   *)
(* regain its connection or end, the runner lets it do at any time, in the *)
(* middle of its own calls too (reconnectionFailed, handleCriticalError).  *)
THEOREM SessionsAreFree ==
    ASSUME SessionInv, NEW r \in Repeaters,
           Session(r)!End \/ Session(r)!LinkChanges,
           status' = [status EXCEPT ![r] = status'[r]],
           link' = [link EXCEPT ![r] = link'[r]],
           UNCHANGED <<manager, repeater, handlers, created, exists, failures, pc, target>>
    PROVE  [Next]_vars
<1>1. CASE Session(r)!End
  <2>1. SessionActs(r)
    BY <1>1 DEF Session!End, SessionActs
  <2>2. QED
    BY <2>1 DEF Next
<1>2. CASE Session(r)!LinkChanges
  <2>1. status' = status
    BY <1>2 DEF Session!LinkChanges, SessionInv, TypeOK
  <2>2. CASE link'[r] = link[r]
    <3>1. link' = [link EXCEPT ![r] = link[r]]
      BY <2>2
    <3>2. link' = link
      BY <3>1 DEF SessionInv, TypeOK
    <3>3. QED
      BY <2>1, <3>2 DEF vars, failures
  <2>3. CASE link'[r] # link[r]
    <3>1. link'[r] = IF link[r] = "up" THEN "down" ELSE "up"
      BY <1>2, <2>3 DEF Session!LinkChanges, SessionInv, TypeOK
    <3>2. SessionActs(r)
      BY <1>2, <2>1, <3>1 DEF Session!LinkChanges, SessionActs
    <3>3. QED
      BY <3>2 DEF Next
  <2>4. QED
    BY <2>2, <2>3
<1>3. QED
    BY <1>1, <1>2
-----------------------------------------------------------------------------
(* A call is under way; only one at a time. *)
Busy(c) == pc[c] # "idle"
Alone == \A c, d \in Callers : Busy(c) /\ Busy(d) => c = d

(* What a call knows where it awaits. *)
Awaiting(c) ==
    /\ pc[c] = "configuring" => ~manager
    /\ pc[c] = "creating" => manager /\ repeater = NoRepeater
    /\ pc[c] = "starting" =>
          manager /\ repeater \in Repeaters /\ target[c] = repeater
          /\ status[repeater] = "starting"
    /\ pc[c] = "deleting" =>
          manager /\ repeater \in Repeaters /\ target[c] = repeater
          /\ status[repeater] = "off"

(* What the runner's fields say of a repeater, its registration in the     *)
(* cloud, its session and its socket.                                      *)
Owned(r) ==
    /\ r > created => r # repeater
    /\ status[r] # "off" => r = repeater
    /\ status[r] = "starting" => \E c \in Callers : pc[c] = "starting"
    /\ r \in exists => r = repeater \/ r \in undeleted
    /\ link[r] # "none" /\ status[r] = "off" => r \in unstarted

(* The shutdown handlers are registered at most once, and not at all while *)
(* the runner is not initialized.                                          *)
Handlers == \A s \in Signals : handlers[s] <= 1 /\ (~manager => handlers[s] = 0)

IInv ==
    /\ SessionInv /\ Alone
    /\ ~manager => repeater = NoRepeater
    /\ Handlers
    /\ \A c \in Callers : Awaiting(c)
    /\ \A r \in Repeaters : Owned(r)

(* A call begins only when no other is under way.                          *)
LEMMA CallsDoNotOverlap ==
    ASSUME IInv, ~Overlap, NEW c \in Callers, MayCall(c)
    PROVE  \A d \in Callers : pc[d] = "idle"
    BY DEF MayCall

(* One caller moves on while the others, if any, are idle.                 *)
LEMMA OneMoves ==
    ASSUME IInv, NEW c \in Callers, NEW where, Go(c, where),
           Busy(c) \/ \A d \in Callers : pc[d] = "idle"
    PROVE  /\ Alone' /\ pc'[c] = where
           /\ \A d \in Callers \ {c} : pc[d] = "idle" /\ pc'[d] = "idle"
    BY DEF IInv, SessionInv, TypeOK, Alone, Busy, Go

LEMMA CallInitKeeps ==
    ASSUME IInv, ~Overlap, NEW c \in Callers, CallInit(c)
    PROVE  IInv'
<1>1. /\ Alone' /\ pc'[c] = "configuring"
      /\ \A d \in Callers \ {c} : pc[d] = "idle" /\ pc'[d] = "idle"
    BY CallsDoNotOverlap, OneMoves DEF CallInit
<1>2. SessionInv'
    BY StepKeepsSessions DEF Next, IInv
<1>3. \A r \in Repeaters : Owned(r)'
    BY CallsDoNotOverlap DEF IInv, Owned, CallInit, sessions, failures
<1>4. QED
    BY <1>1, <1>2, <1>3 DEF IInv, Awaiting, Handlers, CallInit, NotInitialized,
       sessions, failures

LEMMA ConfiguredKeeps ==
    ASSUME IInv, NEW c \in Callers, Configured(c)
    PROVE  IInv'
<1>1. /\ Alone' /\ pc'[c] = "creating"
      /\ \A d \in Callers \ {c} : pc[d] = "idle" /\ pc'[d] = "idle"
    BY OneMoves DEF Configured, Busy
<1>2. ~manager /\ repeater = NoRepeater /\ \A s \in Signals : handlers[s] = 0
    BY DEF Configured, IInv, Awaiting, Handlers
<1>3. SessionInv'
    BY StepKeepsSessions DEF Next, IInv
<1>4. \A r \in Repeaters : Owned(r)'
    BY <1>1 DEF IInv, Owned, Configured, sessions, failures
<1>5. QED
    BY <1>1, <1>2, <1>3, <1>4 DEF IInv, Awaiting, Handlers, Configured, TypeOK

LEMMA CreatedKeeps ==
    ASSUME IInv, NEW c \in Callers, Created(c)
    PROVE  IInv'
<1> DEFINE n == created + 1
<1>1. /\ Alone' /\ pc'[c] = "starting"
      /\ \A d \in Callers \ {c} : pc[d] = "idle" /\ pc'[d] = "idle"
    BY OneMoves DEF Created, Busy
<1>2. manager /\ repeater = NoRepeater
    BY DEF Created, IInv, Awaiting
<1>3. n \in Repeaters /\ created \in Nat
    BY MaxRepeatersAssumption DEF Created, IInv, SessionInv, TypeOK
<1>4. SessionInv'
    BY StepKeepsSessions DEF Next, IInv
<1>5. ASSUME NEW r \in Repeaters PROVE Owned(r)'
  <2>1. CASE r = n
    BY <2>1, <1>1, <1>3 DEF Created, Owned, IInv, SessionInv, TypeOK
  <2>2. CASE r # n
    <3>1. r # repeater
      BY <1>2 DEF Repeaters, NoRepeater
    <3>2. status'[r] = status[r] /\ link'[r] = link[r] /\ (r \in exists' <=> r \in exists)
      BY <2>2 DEF Created, IInv, SessionInv, TypeOK
    <3>3. QED
      BY <2>2, <3>1, <3>2, <1>3
      DEF Created, Owned, IInv, SessionInv, TypeOK, failures, Repeaters
  <2>3. QED
    BY <2>1, <2>2
<1>6. Awaiting(c)'
    BY <1>1, <1>2, <1>3 DEF Created, Awaiting, IInv, SessionInv, TypeOK
<1>7. QED
    BY <1>1, <1>2, <1>4, <1>5, <1>6 DEF IInv, Awaiting, Handlers, Created, failures

LEMMA StartedKeeps ==
    ASSUME IInv, NEW c \in Callers, Started(c)
    PROVE  IInv'
<1>1. /\ Alone' /\ pc'[c] = "idle"
      /\ \A d \in Callers \ {c} : pc[d] = "idle" /\ pc'[d] = "idle"
    BY OneMoves DEF Started, Busy
<1>2. manager /\ repeater \in Repeaters /\ target[c] = repeater
    BY DEF Started, IInv, Awaiting
<1>3. SessionInv'
    BY StepKeepsSessions DEF Next, IInv
<1>4. ASSUME NEW r \in Repeaters PROVE Owned(r)'
    BY <1>1, <1>2 DEF Started, Owned, IInv, SessionInv, TypeOK, failures
<1>5. QED
    BY <1>1, <1>3, <1>4 DEF IInv, Awaiting, Handlers, Started, failures

LEMMA InitFailsKeeps ==
    ASSUME IInv, NEW c \in Callers, InitFails(c)
    PROVE  IInv'
<1>1. /\ Alone' /\ pc'[c] = "idle"
      /\ \A d \in Callers \ {c} : pc[d] = "idle" /\ pc'[d] = "idle"
    BY OneMoves DEF InitFails, Busy
<1>2. CASE pc[c] \in {"configuring", "creating"}
  <2>1. UNCHANGED <<status, unstarted>>
    BY <1>2 DEF InitFails
  <2>2. SessionInv'
    BY StepKeepsSessions DEF Next, IInv
  <2>3. ASSUME NEW r \in Repeaters PROVE Owned(r)'
    BY <2>1, <1>1, <1>2 DEF IInv, Owned, InitFails
  <2>4. QED
    BY <1>1, <2>1, <2>2, <2>3 DEF IInv, Awaiting, Handlers, InitFails
<1>3. CASE pc[c] = "starting"
  <2>1. /\ status' = [status EXCEPT ![target[c]] = "off"]
        /\ unstarted' = unstarted \cup {target[c]}
        /\ target[c] = repeater /\ repeater \in Repeaters
    BY <1>3 DEF InitFails, IInv, Awaiting
  <2>2. SessionInv'
    BY StepKeepsSessions DEF Next, IInv
  <2>3. ASSUME NEW r \in Repeaters PROVE Owned(r)'
    BY <2>1, <1>1 DEF IInv, SessionInv, TypeOK, Owned, InitFails
  <2>4. QED
    BY <1>1, <2>2, <2>3 DEF IInv, Awaiting, Handlers, InitFails
<1>4. QED
    BY <1>2, <1>3 DEF InitFails

(* clear(), from its owner or from a signal, leaves one handler fewer.     *)
LEMMA BeginClearKeeps ==
    ASSUME IInv, ~Overlap, NEW c \in Callers, NEW registered \in [Signals -> Nat],
           \A s \in Signals : registered[s] <= handlers[s],
           BeginClear(c, registered)
    PROVE  IInv'
<1>0. \A d \in Callers : pc[d] = "idle"
    BY CallsDoNotOverlap DEF BeginClear
<1>1. \A r \in Repeaters : status[r] # "starting"
    BY <1>0 DEF IInv, Owned
<1>2. CASE repeater # NoRepeater /\ manager
  <2>1. /\ repeater \in Repeaters /\ StopRepeater(repeater)
        /\ target' = [target EXCEPT ![c] = repeater]
        /\ Go(c, "deleting") /\ handlers' = registered
        /\ UNCHANGED <<manager, repeater, created, exists, failures>>
    BY <1>2, MaxRepeatersAssumption
    DEF BeginClear, IInv, SessionInv, TypeOK, Repeaters, NoRepeater
  <2>2. /\ Alone' /\ pc'[c] = "deleting"
        /\ \A d \in Callers \ {c} : pc[d] = "idle" /\ pc'[d] = "idle"
    BY <2>1, <1>0, OneMoves
  <2>3. /\ status'[repeater] = "off"
        /\ status[repeater] = "running" => link'[repeater] = "none"
        /\ status[repeater] # "running" => link'[repeater] = link[repeater]
        /\ \A r \in Repeaters \ {repeater} :
              status'[r] = status[r] /\ link'[r] = link[r]
    BY <2>1, <1>1 DEF StopRepeater, IInv, SessionInv, TypeOK, sessions
  <2>4. SessionInv'
    BY BeginClearKeepsSessions DEF IInv
  <2>5. ASSUME NEW r \in Repeaters PROVE Owned(r)'
    BY <2>1, <2>3, <1>1 DEF IInv, SessionInv, TypeOK, Owned, failures
  <2>6. Awaiting(c)'
    BY <2>1, <2>2, <2>3, <1>2 DEF Awaiting, IInv, SessionInv, TypeOK
  <2>7. Handlers'
    BY <2>1, <1>2 DEF IInv, SessionInv, TypeOK, Handlers
  <2>8. QED
    BY <2>1, <2>2, <2>4, <2>5, <2>6, <2>7, <1>2 DEF IInv, Awaiting
<1>3. CASE ~(repeater # NoRepeater /\ manager)
  <2>1. /\ handlers' = RemoveHandlers(registered)
        /\ manager' = FALSE /\ repeater' = NoRepeater
        /\ UNCHANGED <<status, link, target, pc, created, exists, unstarted, undeleted>>
    BY <1>3 DEF BeginClear, sessions, failures
  <2>2. repeater = NoRepeater
    BY <1>3 DEF IInv
  <2>3. \A s \in Signals : handlers'[s] = 0
    BY <2>1 DEF RemoveHandlers, IInv, SessionInv, TypeOK, Handlers
  <2>5. SessionInv'
    BY BeginClearKeepsSessions DEF IInv
  <2>6. (\A d \in Callers : Awaiting(d))' /\ Alone'
    BY <2>1, <1>0 DEF Awaiting, Alone, Busy
  <2>7. (\A r \in Repeaters : Owned(r))'
    BY <2>1, <2>2 DEF IInv, Owned
  <2>8. QED
    BY <2>1, <2>3, <2>5, <2>6, <2>7 DEF IInv, Handlers
<1>4. QED
    BY <1>2, <1>3

LEMMA EndClearKeeps ==
    ASSUME IInv, NEW c \in Callers, EndClear(c)
    PROVE  IInv'
<1>1. /\ Alone' /\ pc'[c] = "idle"
      /\ \A d \in Callers \ {c} : pc[d] = "idle" /\ pc'[d] = "idle"
    BY OneMoves DEF EndClear, Busy
<1>2. /\ target[c] = repeater /\ repeater \in Repeaters /\ status[repeater] = "off"
      /\ manager' = FALSE /\ repeater' = NoRepeater
      /\ UNCHANGED <<created, status, link, unstarted, target>>
    BY DEF EndClear, IInv, Awaiting, sessions
<1>3. /\ exists' \subseteq exists /\ undeleted' \subseteq Repeaters
      /\ undeleted \subseteq undeleted'
      /\ repeater \in exists' => repeater \in undeleted'
    BY <1>2 DEF EndClear, Remaining, IInv, SessionInv, TypeOK
<1>4. \A s \in Signals : handlers'[s] = 0
    BY DEF EndClear, RemoveHandlers, IInv, SessionInv, TypeOK, Handlers
<1>5. SessionInv'
    BY StepKeepsSessions DEF Next, IInv
<1>6. ASSUME NEW r \in Repeaters PROVE Owned(r)'
  <2>1. r # repeater'
    BY <1>2 DEF Repeaters, NoRepeater
  <2>2. status[r] = "off"
    BY <1>2 DEF IInv, Owned
  <2>3. QED
    BY <2>1, <2>2, <1>2, <1>3 DEF IInv, Owned
<1>7. QED
    BY <1>1, <1>2, <1>4, <1>5, <1>6 DEF IInv, Awaiting, Handlers

LEMMA SessionActsKeeps ==
    ASSUME IInv, NEW r \in Repeaters, SessionActs(r)
    PROVE  IInv'
<1>1. /\ status' \in [Repeaters -> {"off", "starting", "running"}]
      /\ link' \in [Repeaters -> {"none", "down", "up"}]
      /\ \A q \in Repeaters \ {r} : status'[q] = status[q] /\ link'[q] = link[q]
      /\ \/ status[r] = "running" /\ status'[r] = "off" /\ link'[r] = "none"
         \/ link[r] # "none" /\ link'[r] # "none" /\ status'[r] = status[r]
    BY DEF SessionActs, IInv, SessionInv, TypeOK
<1>2. UNCHANGED <<manager, repeater, handlers, created, exists, unstarted, undeleted,
                  pc, target>>
    BY DEF SessionActs, failures
<1>3. SessionInv'
    BY StepKeepsSessions DEF Next, IInv
<1>4. ASSUME NEW q \in Repeaters PROVE Owned(q)'
    BY <1>1, <1>2 DEF IInv, Owned
<1>5. ASSUME NEW c \in Callers PROVE Awaiting(c)'
    BY <1>1, <1>2 DEF IInv, Awaiting
<1>6. QED
    BY <1>2, <1>3, <1>4, <1>5 DEF IInv, Alone, Busy, Handlers

(* The inductive invariant: what each await knows, and how a repeater's    *)
(* registration, session and socket follow the runner's fields.            *)
THEOREM Invariance == ASSUME ~Overlap PROVE Spec => []IInv
<1>1. Init => IInv
  <2> SUFFICES ASSUME Init PROVE IInv
    OBVIOUS
  <2>1. SessionInv
    BY InitEstablishesSessions
  <2>2. \A r \in Repeaters : Owned(r)
    BY NoneIsNoRepeater, MaxRepeatersAssumption DEF Init, Owned, Repeaters
  <2>3. QED
    BY <2>1, <2>2 DEF Init, IInv, Alone, Busy, Awaiting, Handlers
<1>2. IInv /\ [Next]_vars => IInv'
  <2> SUFFICES ASSUME IInv, [Next]_vars PROVE IInv'
    OBVIOUS
  <2>1. ASSUME NEW c \in Callers, CallClear(c) PROVE IInv'
    BY <2>1, BeginClearKeeps DEF CallClear, IInv, SessionInv, TypeOK
  <2>2. ASSUME NEW c \in Callers, NEW s \in Signals, Signal(c, s) PROVE IInv'
    <3>1. [handlers EXCEPT ![s] = @ - 1] \in [Signals -> Nat]
      BY <2>2 DEF Signal, IInv, SessionInv, TypeOK
    <3>2. \A t \in Signals : [handlers EXCEPT ![s] = @ - 1][t] <= handlers[t]
      BY <2>2 DEF IInv, SessionInv, TypeOK
    <3>3. QED
      BY <2>2, <3>1, <3>2, BeginClearKeeps DEF Signal
  <2>3. CASE UNCHANGED vars
    BY <2>3, StepKeepsSessions DEF vars, sessions, failures, IInv, Alone, Busy, Awaiting,
       Owned, Handlers
  <2>4. QED
    BY <2>1, <2>2, <2>3, CallInitKeeps, ConfiguredKeeps, CreatedKeeps, StartedKeeps,
       InitFailsKeeps, EndClearKeeps, SessionActsKeeps DEF Next
<1>3. QED
    BY <1>1, <1>2, PTL DEF Spec

(* The runner has one session at a time, the one of its repeater (init,    *)
(* clear).                                                                 *)
THEOREM HasOneSession == ASSUME ~Overlap PROVE Spec => []OneSession
<1>1. IInv => OneSession
    BY DEF IInv, Owned, OneSession
<1>2. QED
    BY <1>1, Invariance, PTL

(* A runner that was cleared leaves in the cloud only what the cloud       *)
(* refused to delete (clear).                                              *)
THEOREM RemovesRepeaters == ASSUME ~Overlap PROVE Spec => []ClearRemovesRepeaters
<1>1. IInv => ClearRemovesRepeaters
    BY DEF IInv, SessionInv, TypeOK, Owned, ClearRemovesRepeaters,
           Cleared, NoRepeater, Repeaters
<1>2. QED
    BY <1>1, Invariance, PTL

(* clear() takes the shutdown handlers away and leaves no socket open but  *)
(* those of failed starts (removeShutdownHandler, stop).                   *)
THEOREM UndoesInit == ASSUME ~Overlap PROVE Spec => []ClearUndoesInit
<1>1. IInv => ClearUndoesInit
    BY DEF IInv, SessionInv, TypeOK, Owned, Handlers, ClearUndoesInit, Cleared, NoRepeater,
       Repeaters
<1>2. QED
    BY <1>1, Invariance, PTL
=============================================================================
