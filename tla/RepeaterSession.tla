--------------------------- MODULE RepeaterSession ---------------------------
(***************************************************************************)
(* What a Repeater (packages/repeater/src/lib/Repeater.ts) promises to the *)
(* code that owns it: a session that is begun, is established or           *)
(* abandoned, and is ended, over a link that may go up and down.           *)
(*                                                                         *)
(* The module Repeater implements this specification; SecRunner is built   *)
(* on it.  The link says what the Repeater's server object holds:          *)
(*   "none"  no socket,                                                    *)
(*   "down"  a socket that is not connected,                               *)
(*   "up"    a connected socket.                                           *)
(***************************************************************************)

VARIABLES
    status,   \* Repeater.runningStatus
    link      \* the socket the Repeater holds

sessionVars == <<status, link>>

Statuses == {"off", "starting", "running"}
Links == {"none", "down", "up"}

(* A session that was begun holds a socket: start() has made one, and only *)
(* disconnect(), which ends the session, drops it.                         *)
SessionTypeOK ==
    /\ status \in Statuses /\ link \in Links
    /\ status # "off" => link # "none"

SessionInit == status = "off" /\ link = "none"

(* start() replaces whatever the server object held by a new socket. *)
Begin ==
    /\ status = "off"
    /\ status' = "starting"
    /\ link' = "down"

(* A session is established only over a connected socket. *)
Establish ==
    /\ status = "starting"
    /\ link = "up"
    /\ status' = "running"
    /\ UNCHANGED link

(* A start that fails gives the status back and keeps the socket. *)
Abandon ==
    /\ status = "starting"
    /\ status' = "off"
    /\ link' \in {"down", "up"}

(* A running session ends in one step, and its socket goes with it. *)
End ==
    /\ status = "running"
    /\ status' = "off"
    /\ link' = "none"

(* A held socket connects and loses its connection, whatever the status. *)
LinkChanges ==
    /\ link # "none"
    /\ link' \in {"down", "up"}
    /\ UNCHANGED status

SessionNext == Begin \/ Establish \/ Abandon \/ End \/ LinkChanges

SessionSpec == SessionInit /\ [][SessionNext]_sessionVars
=============================================================================
