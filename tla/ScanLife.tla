------------------------------ MODULE ScanLife ------------------------------
(***************************************************************************)
(* What a Scan object promises its callers and the cloud, whatever it      *)
(* remembers and however it polls: which verdicts it gives of the scan,    *)
(* and what it does to it.  The module Scan implements this one; the       *)
(* module SecScan takes from it what an expect() may end with.             *)
(***************************************************************************)
CONSTANT Clients    \* whoever asks for a verdict

VARIABLES
    life,       \* status, found, parked and deleted as in the module Scan
    verdict     \* the last verdict, per client

lifeVars == <<life, verdict>>

Final == {"done", "failed"}
Verdicts == {"none", "resolved", "scanAborted", "timedOut", "failed"}

LifeInit ==
    /\ life = [status |-> "running", found |-> FALSE, parked |-> FALSE,
               deleted |-> FALSE]
    /\ verdict = [c \in Clients |-> "none"]

(* A scan that is parked is not under way, and one that is final stays so. *)
CloudActs ==
    /\ ~life.deleted
    /\ \/ /\ life.status \notin Final
          /\ \E s \in Final \cup {"running", "paused"} :
                life' = [life EXCEPT !.status = s, !.parked = @ \/ s = "paused"]
       \/ life.status = "running" /\ life' = [life EXCEPT !.found = TRUE]
    /\ UNCHANGED verdict

(* stop() ends what is under way. *)
StopsScan ==
    /\ ~life.deleted /\ life.status \notin Final
    /\ life' = [life EXCEPT !.status = "failed"]
    /\ UNCHANGED verdict

(* dispose() deletes no scan that has never been anything but active. *)
Disposable == life.status \in Final \/ life.parked

DeletesScan ==
    /\ Disposable
    /\ life' = [life EXCEPT !.deleted = TRUE]
    /\ UNCHANGED verdict

(* The scan bears the verdict out when it is given. *)
BornOut(v) ==
    /\ v = "scanAborted" => life.status = "failed"
    /\ v = "resolved" => life.status = "done" \/ life.found \/ life.parked

Concludes ==
    \E c \in Clients, v \in Verdicts :
        /\ BornOut(v)
        /\ verdict' = [verdict EXCEPT ![c] = v]
        /\ UNCHANGED life

LifeNext == CloudActs \/ StopsScan \/ DeletesScan \/ Concludes

LifeSpec == LifeInit /\ [][LifeNext]_lifeVars
-----------------------------------------------------------------------------
(* What follows for good: whatever the cloud makes of the scan later, a    *)
(* verdict stays borne out, and a scan is deleted only when it is over or  *)
(* was parked (assert, dispose).                                           *)
LifeTypeOK ==
    /\ life \in [status : Final \cup {"running", "paused"}, found : BOOLEAN,
                 parked : BOOLEAN, deleted : BOOLEAN]
    /\ verdict \in [Clients -> Verdicts]
    /\ life.status = "paused" => life.parked

Kept ==
    /\ life.deleted => Disposable
    /\ \A c \in Clients : BornOut(verdict[c])
=============================================================================
