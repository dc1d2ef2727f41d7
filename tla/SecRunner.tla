------------------------------ MODULE SecRunner -----------------------------
(***************************************************************************)
(* The life cycle of a SecRunner (packages/runner/src/lib/SecRunner.ts):   *)
(* init() registers a repeater in the cloud and starts it, clear(), called *)
(* by the user or by a shutdown signal, stops it and removes it.           *)
(*                                                                         *)
(* Every repeater the runner creates is a session of its own that behaves  *)
(* as RepeaterSession says; init() and clear() are split where they await. *)
(***************************************************************************)
EXTENDS Integers

CONSTANTS
    Callers,        \* asynchronous callers of init() and clear()
    Signals,        \* SHUTDOWN_SIGNALS
    MaxRepeaters,   \* bound: repeaters created
    Overlap         \* a call may begin before the previous one has returned

ASSUME MaxRepeatersAssumption == MaxRepeaters \in Nat
ASSUME OverlapAssumption == Overlap \in BOOLEAN

VARIABLES
    manager,    \* repeatersManager and repeaterFactory are set
    repeater,   \* SecRunner.repeater (NoRepeater when undefined)
    handlers,   \* registrations of beforeShutdownSignalHandler, per signal
    created,    \* repeaters created so far; their ids are 1..created
    exists,     \* the repeaters registered in the cloud
    status,     \* the status of every repeater's session
    link,       \* the socket of every repeater's session
    unstarted,  \* the repeaters whose start() was rejected
    undeleted,  \* the repeaters whose deleteRepeater() was rejected
    pc,         \* where a caller's call awaits
    target      \* the repeater that call is about

vars == <<manager, repeater, handlers, created, exists, status, link, unstarted,
          undeleted, pc, target>>
failures == <<unstarted, undeleted>>
sessions == <<status, link>>

NoRepeater == 0
Repeaters == 1..MaxRepeaters

Session(r) == INSTANCE RepeaterSession WITH status <- status[r], link <- link[r]

TypeOK ==
    /\ manager \in BOOLEAN
    /\ repeater \in 0..MaxRepeaters
    /\ handlers \in [Signals -> Nat]
    /\ created \in 0..MaxRepeaters
    /\ exists \subseteq Repeaters
    /\ status \in [Repeaters -> {"off", "starting", "running"}]
    /\ link \in [Repeaters -> {"none", "down", "up"}]
    /\ unstarted \subseteq Repeaters /\ undeleted \subseteq Repeaters
    /\ pc \in [Callers -> {"idle", "configuring", "creating", "starting", "deleting"}]
    /\ target \in [Callers -> 0..MaxRepeaters]

Init ==
    /\ manager = FALSE /\ repeater = NoRepeater
    /\ handlers = [s \in Signals |-> 0]
    /\ created = 0 /\ exists = {}
    /\ status = [r \in Repeaters |-> "off"]
    /\ link = [r \in Repeaters |-> "none"]
    /\ unstarted = {} /\ undeleted = {}
    /\ pc = [c \in Callers |-> "idle"]
    /\ target = [c \in Callers |-> NoRepeater]

MayCall(c) == pc[c] = "idle" /\ (Overlap \/ \A d \in Callers : pc[d] = "idle")

Go(c, where) == pc' = [pc EXCEPT ![c] = where]
-----------------------------------------------------------------------------
(* init() *)

(* The guard of init(), and an init() without it. *)
NoGuard == TRUE
NotInitialized == ~manager

CallInit(c) ==
    /\ MayCall(c) /\ NotInitialized
    /\ Go(c, "configuring")
    /\ UNCHANGED <<manager, repeater, handlers, created, exists, sessions,
                   failures, target>>

(* initConfiguration() is over: the fields are set, the handlers           *)
(* registered and createRepeater() is called.                              *)
Configured(c) ==
    /\ pc[c] = "configuring"
    /\ manager' = TRUE /\ handlers' = [s \in Signals |-> handlers[s] + 1]
    /\ Go(c, "creating")
    /\ UNCHANGED <<repeater, created, exists, sessions, failures, target>>

(* The repeater is registered; start() is called up to its first await. *)
Created(c) ==
    LET r == created + 1 IN
    /\ pc[c] = "creating" /\ r \in Repeaters
    /\ created' = r /\ exists' = exists \cup {r}
    /\ repeater' = r /\ target' = [target EXCEPT ![c] = r]
    /\ status' = [status EXCEPT ![r] = "starting"]
    /\ link' = [link EXCEPT ![r] = "down"]
    /\ Go(c, "starting")
    /\ UNCHANGED <<manager, handlers, failures>>

Started(c) ==
    LET r == target[c] IN
    /\ pc[c] = "starting" /\ link[r] = "up"
    /\ status' = [status EXCEPT ![r] = "running"]
    /\ Go(c, "idle")
    /\ UNCHANGED <<manager, repeater, handlers, created, exists, link, failures,
                   target>>

(* init() rejects where it awaits; nothing it has set is taken back. *)
InitFails(c) ==
    /\ \/ pc[c] \in {"configuring", "creating"} /\ UNCHANGED <<status, unstarted>>
       \/ /\ pc[c] = "starting"
          /\ status' = [status EXCEPT ![target[c]] = "off"]
          /\ unstarted' = unstarted \cup {target[c]}
    /\ Go(c, "idle")
    /\ UNCHANGED <<manager, repeater, handlers, created, exists, link, undeleted,
                   target>>
-----------------------------------------------------------------------------
(* clear() *)

(* Repeater.stop(): nothing unless RUNNING; and one that does not          *)
(* disconnect.                                                             *)
StopKeepsLink(r) ==
    /\ status' = [status EXCEPT ![r] = "off"]
    /\ UNCHANGED link
StopRepeater(r) ==
    IF status[r] = "running"
    THEN /\ status' = [status EXCEPT ![r] = "off"]
         /\ link' = [link EXCEPT ![r] = "none"]
    ELSE UNCHANGED sessions

(* removeShutdownHandler() takes one registration of every signal away. *)
KeepHandlers(registered) == registered
RemoveHandlers(registered) ==
    [s \in Signals |-> IF registered[s] > 0 THEN registered[s] - 1 ELSE 0]

(* clear() up to the await of deleteRepeater(); `registered` are the       *)
(* shutdown handlers still in place when it is called.                     *)
BeginClear(c, registered) ==
    /\ MayCall(c)
    /\ IF repeater # NoRepeater /\ manager
       THEN /\ StopRepeater(repeater)
            /\ target' = [target EXCEPT ![c] = repeater]
            /\ Go(c, "deleting")
            /\ handlers' = registered
            /\ UNCHANGED <<manager, repeater>>
       ELSE /\ handlers' = RemoveHandlers(registered)
            /\ manager' = FALSE /\ repeater' = NoRepeater
            /\ UNCHANGED <<sessions, target, pc>>
    /\ UNCHANGED <<created, exists, failures>>

CallClear(c) == BeginClear(c, handlers)

(* A signal arrives: once() takes the handler away before it calls clear(). *)
(* A handler that was registered twice runs twice.                          *)
Signal(c, s) ==
    handlers[s] > 0 /\ BeginClear(c, [handlers EXCEPT ![s] = @ - 1])

(* What the request leaves of the cloud's repeaters. *)
ForgetDelete(r) == exists
Remaining(r) == exists \ {r}

(* deleteRepeater() settles and the finally clause runs either way. *)
EndClear(c) ==
    /\ pc[c] = "deleting"
    /\ \/ exists' = Remaining(target[c]) /\ UNCHANGED undeleted
       \/ undeleted' = undeleted \cup {target[c]} /\ UNCHANGED exists
    /\ handlers' = RemoveHandlers(handlers)
    /\ manager' = FALSE /\ repeater' = NoRepeater
    /\ Go(c, "idle")
    /\ UNCHANGED <<created, sessions, unstarted, target>>
-----------------------------------------------------------------------------
(* What a session does by itself: its socket connects and disconnects, and *)
(* a critical error or a failed reconnection ends it.                      *)
SessionActs(r) ==
    /\ \/ /\ status[r] = "running"
          /\ status' = [status EXCEPT ![r] = "off"]
          /\ link' = [link EXCEPT ![r] = "none"]
       \/ /\ link[r] # "none"
          /\ link' = [link EXCEPT ![r] = IF @ = "up" THEN "down" ELSE "up"]
          /\ UNCHANGED status
    /\ UNCHANGED <<manager, repeater, handlers, created, exists, failures, pc,
                   target>>

Next ==
    \/ \E c \in Callers :
          \/ CallInit(c) \/ Configured(c) \/ Created(c) \/ Started(c)
          \/ InitFails(c)
          \/ CallClear(c) \/ EndClear(c)
          \/ \E s \in Signals : Signal(c, s)
    \/ \E r \in Repeaters : SessionActs(r)

Spec == Init /\ [][Next]_vars
-----------------------------------------------------------------------------
(* Every repeater of the runner keeps to the contract of RepeaterSession. *)
SessionsKeepContract ==
    /\ \A r \in Repeaters : Session(r)!SessionInit
    /\ [][\A r \in Repeaters :
             Session(r)!SessionNext \/ UNCHANGED <<status[r], link[r]>>]_vars

(* The runner has one session at a time, the one of its repeater, also     *)
(* when it is initialized again after a failure (init, clear).             *)
OneSession ==
    \A r \in Repeaters : status[r] # "off" => r = repeater

Cleared == ~manager /\ repeater = NoRepeater /\ \A c \in Callers : pc[c] = "idle"

(* A runner that was cleared has removed every repeater it registered, but *)
(* those the cloud refused to delete (clear).                              *)
ClearRemovesRepeaters == Cleared => exists \subseteq undeleted

(* clear() undoes init(): the signals are handled once while the runner is *)
(* initialized and not at all afterwards, and no socket is left but those  *)
(* of repeaters whose start() was rejected, for which stop() does nothing  *)
(* (setupShutdown, removeShutdownHandler, clear, stop).                    *)
ClearUndoesInit ==
    /\ \A s \in Signals : handlers[s] <= 1 /\ (~manager => handlers[s] = 0)
    /\ Cleared => \A r \in Repeaters : link[r] # "none" => r \in unstarted
=============================================================================
