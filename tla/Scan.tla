-------------------------------- MODULE Scan --------------------------------
(***************************************************************************)
(* A Scan object (packages/scan/src/Scan.ts): several callers share one    *)
(* object, poll the cloud through it and decide on what it remembers.      *)
(*                                                                         *)
(* Every call of refreshState() is split where it awaits getScan(): the    *)
(* request leaves, the cloud answers with what it has at that moment, and  *)
(* the answer is stored when it arrives, in whatever order answers arrive. *)
(***************************************************************************)
CONSTANTS
    Callers,        \* asynchronous callers of the one Scan object
    HasTimeout      \* ScanOptions.timeout is set

ASSUME HasTimeoutAssumption == HasTimeout \in BOOLEAN

VARIABLES
    cloud,      \* the scan in the cloud: status, whether an issue the
                \* expectation is about was found, whether it was ever
                \* parked, whether it was deleted
    state,      \* Scan.state: the status and issuesBySeverity last stored
    op,         \* the call under way, per caller
    pc,         \* where that call is
    answer,     \* the answer of getScan() on its way to the caller
    failFast,   \* the option of expect()
    aborted,    \* signal.aborted of expect()
    outcome     \* how the last expect() of the caller ended

vars == <<cloud, state, op, pc, answer, failFast, aborted, outcome>>

(* One status stands for each set the code makes of them: "running" for    *)
(* ACTIVE_STATUSES, "failed" for DONE_STATUSES but DONE, and "paused" for  *)
(* PAUSED and SCHEDULED, which are in neither.                             *)
Active == {"running"}

Done == {"done", "failed"}
Statuses == {"running", "paused", "done", "failed"}

States == [status : Statuses, found : BOOLEAN]
Operations == {"expect", "issues", "stop", "dispose"}
Outcomes == {"none", "resolved", "scanAborted", "timedOut", "failed"}

TypeOK ==
    /\ cloud \in [status : Statuses, found : BOOLEAN, parked : BOOLEAN,
                  deleted : BOOLEAN]
    /\ state \in States
    /\ op \in [Callers -> Operations \cup {"none"}]
    /\ pc \in [Callers -> {"idle", "sleep", "get", "answered", "call"}]
    /\ answer \in [Callers -> States]
    /\ failFast \in [Callers -> BOOLEAN]
    /\ aborted \in [Callers -> BOOLEAN]
    /\ outcome \in [Callers -> Outcomes]
    /\ \A c \in Callers : op[c] = "none" <=> pc[c] = "idle"
    /\ \A c \in Callers : aborted[c] => op[c] = "expect"

Pending == [status |-> "running", found |-> FALSE]

Init ==
    /\ cloud = [status |-> "running", found |-> FALSE, parked |-> FALSE,
                deleted |-> FALSE]
    /\ state = Pending
    /\ op = [c \in Callers |-> "none"]
    /\ pc = [c \in Callers |-> "idle"]
    /\ answer = [c \in Callers |-> Pending]
    /\ failFast = [c \in Callers |-> TRUE]
    /\ aborted = [c \in Callers |-> FALSE]
    /\ outcome = [c \in Callers |-> "none"]
-----------------------------------------------------------------------------
(* What a caller does next.  Go moves it, Return ends its call. *)

Go(c, where) ==
    /\ pc' = [pc EXCEPT ![c] = where]
    /\ UNCHANGED <<op, failFast, aborted, outcome>>

Return(c, how) ==
    /\ pc' = [pc EXCEPT ![c] = "idle"]
    /\ op' = [op EXCEPT ![c] = "none"]
    /\ failFast' = [failFast EXCEPT ![c] = TRUE]
    /\ aborted' = [aborted EXCEPT ![c] = FALSE]
    /\ outcome' = [outcome EXCEPT ![c] = how]

(* assert() that takes every status but "done" for a failure. *)
VerdictOfStatus(status, timeoutPassed) ==
    IF status # "done" /\ ~timeoutPassed THEN "scanAborted"
    ELSE IF timeoutPassed THEN "timedOut" ELSE "resolved"

(* assert() *)
Verdict(status, timeoutPassed) ==
    IF status \in Done /\ status # "done" THEN "scanAborted"
    ELSE IF timeoutPassed THEN "timedOut" ELSE "resolved"

(* The loop of expect() without its test of the signal. *)
ExpectIgnoresSignal(c, now) ==
    IF \/ now.status \in Done
       \/ failFast[c] /\ now.found
       \/ now.status \notin Active
    THEN Return(c, Verdict(now.status, aborted[c]))
    ELSE Go(c, "sleep")

(* The body of the loop of expect() and the condition of status(). *)
ExpectGoesOn(c, now) ==
    IF \/ now.status \in Done \/ aborted[c]
       \/ failFast[c] /\ now.found
       \/ now.status \notin Active
    THEN Return(c, Verdict(now.status, aborted[c]))
    ELSE Go(c, "sleep")

(* dispose() leaves an active scan alone; and one that looks at nothing.   *)
DisposeAny(status) == TRUE
MayDispose(status) == status \notin Active

(* What follows refreshState() in each of the four methods. *)
Refreshed(c, now) ==
    CASE op[c] = "expect" -> ExpectGoesOn(c, now)
      [] op[c] = "stop" -> IF now.status \in Active THEN Go(c, "call")
                           ELSE Return(c, outcome[c])
      [] op[c] = "dispose" -> IF MayDispose(now.status) THEN Go(c, "call")
                              ELSE Return(c, outcome[c])
      [] OTHER -> Return(c, outcome[c])
-----------------------------------------------------------------------------
(* expect() up to its first await; status() yields nothing when the state  *)
(* is not an active one.                                                   *)
CallExpect(c, ff) ==
    /\ pc[c] = "idle"
    /\ IF state.status \in Active
       THEN /\ pc' = [pc EXCEPT ![c] = "sleep"]
            /\ op' = [op EXCEPT ![c] = "expect"]
            /\ failFast' = [failFast EXCEPT ![c] = ff]
            /\ outcome' = [outcome EXCEPT ![c] = "none"]
       ELSE /\ outcome' = [outcome EXCEPT ![c] = Verdict(state.status, FALSE)]
            /\ UNCHANGED <<pc, op, failFast>>
    /\ UNCHANGED <<cloud, state, answer, aborted>>

(* issues(), stop() and dispose() up to the await of refreshState(), which *)
(* asks the cloud unless the state is final.                               *)
CallOther(c, operation) ==
    /\ pc[c] = "idle"
    /\ IF state.status \notin Done \/ operation = "dispose"
       THEN /\ op' = [op EXCEPT ![c] = operation]
            /\ pc' = [pc EXCEPT ![c] =
                        IF state.status \in Done THEN "call" ELSE "get"]
       ELSE UNCHANGED <<op, pc>>
    /\ UNCHANGED <<cloud, state, answer, failFast, aborted, outcome>>

(* The polling interval is over; another caller may have stored a final    *)
(* state meanwhile, which refreshState() then returns without a request.   *)
Wake(c) ==
    /\ pc[c] = "sleep"
    /\ IF state.status \in Done THEN Refreshed(c, state) ELSE Go(c, "get")
    /\ UNCHANGED <<cloud, state, answer>>

(* The cloud answers getScan() with the scan as it is now. *)
Answer(c) ==
    /\ pc[c] = "get" /\ ~cloud.deleted
    /\ answer' = [answer EXCEPT ![c] =
                    [status |-> cloud.status, found |-> cloud.found]]
    /\ Go(c, "answered")
    /\ UNCHANGED <<cloud, state>>

(* The answer arrives, is stored, and the method goes on with it. *)
Receive(c) ==
    /\ pc[c] = "answered"
    /\ state' = answer[c]
    /\ answer' = [answer EXCEPT ![c] = Pending]
    /\ Refreshed(c, answer[c])
    /\ UNCHANGED cloud

(* getScan() rejects: expect() and issues() reject with it, stop() and     *)
(* dispose() swallow the error.                                            *)
GetFails(c) ==
    /\ pc[c] = "get"
    /\ Return(c, IF op[c] = "expect" THEN "failed" ELSE outcome[c])
    /\ UNCHANGED <<cloud, state, answer>>

(* What is remembered of the scan, which stop() does not touch; and a      *)
(* stop() that takes the scan for stopped.                                 *)
TakeForStopped(c) ==
    state' = IF op[c] = "stop" THEN [state EXCEPT !.status = "failed"] ELSE state
KeepState(c) == UNCHANGED state

(* stopScan() or deleteScan() reaches the cloud, or fails on the way. *)
CallReturns(c) ==
    /\ pc[c] = "call"
    /\ \/ op[c] = "stop" /\ cloud.status \notin Done /\ ~cloud.deleted
          /\ cloud' = [cloud EXCEPT !.status = "failed"]
       \/ op[c] = "dispose" /\ cloud' = [cloud EXCEPT !.deleted = TRUE]
       \/ UNCHANGED cloud
    /\ Return(c, outcome[c])
    /\ KeepState(c) /\ UNCHANGED answer

(* AbortSignal.timeout() fires. *)
Abort(c) ==
    /\ HasTimeout /\ op[c] = "expect" /\ ~aborted[c]
    /\ aborted' = [aborted EXCEPT ![c] = TRUE]
    /\ UNCHANGED <<cloud, state, op, pc, answer, failFast, outcome>>

(* The scan in the cloud.  A status of Done is final there. *)
CloudSuccessors(status) ==
    CASE status = "running" -> {"paused"} \cup Done
      [] status = "paused" -> {"running", "failed"}
      [] OTHER -> {}

CloudMoves ==
    /\ ~cloud.deleted
    /\ \/ \E s \in CloudSuccessors(cloud.status) :
             cloud' = [cloud EXCEPT !.status = s, !.parked = @ \/ s = "paused"]
       \/ cloud.status = "running" /\ ~cloud.found
          /\ cloud' = [cloud EXCEPT !.found = TRUE]
    /\ UNCHANGED <<state, op, pc, answer, failFast, aborted, outcome>>

GetSettles(c) == Answer(c) \/ GetFails(c)

Next ==
    \/ CloudMoves
    \/ \E c \in Callers :
          \/ \E ff \in BOOLEAN : CallExpect(c, ff)
          \/ \E operation \in Operations \ {"expect"} : CallOther(c, operation)
          \/ Wake(c) \/ GetSettles(c) \/ Receive(c) \/ CallReturns(c)
          \/ Abort(c)

Spec == Init /\ [][Next]_vars

(* Timers fire and requests settle; the cloud may leave a scan as it is. *)
Fairness ==
    \A c \in Callers :
        /\ WF_vars(Wake(c)) /\ WF_vars(GetSettles(c)) /\ WF_vars(Receive(c))
        /\ WF_vars(CallReturns(c)) /\ WF_vars(Abort(c))

FairSpec == Spec /\ Fairness
-----------------------------------------------------------------------------
(* A final state the object remembers is the scan's: no caller stops       *)
(* polling a scan that goes on (refreshState, done).                       *)
FinalStateIsTrue ==
    /\ state.status \in Done => cloud.status = state.status
    /\ state.found => cloud.found

(* The verdict of an expect() is true whatever answers the other callers   *)
(* stored meanwhile: one that blames the scan is right, and one that       *)
(* resolves is about a scan that is done or has found what was expected,   *)
(* or that the cloud has parked, for which status() stops (expect, assert).*)
VerdictIsTrue ==
    \A c \in Callers :
        /\ outcome[c] = "scanAborted" => cloud.status = "failed"
        /\ outcome[c] = "resolved" =>
              cloud.status = "done" \/ cloud.found \/ cloud.parked

(* The polling and remembering implement what a Scan promises: although    *)
(* dispose(), stop() and every expect() decide on an answer the cloud may  *)
(* have left behind, no scan is deleted that was never done nor parked,    *)
(* and every verdict is borne out when it is given (dispose, stop, assert).*)
Life == INSTANCE ScanLife WITH Clients <- Callers, life <- cloud, verdict <- outcome

ImplementsLife == Life!LifeSpec

(* An expect() with a timeout ends, whatever the cloud does with the scan  *)
(* (expect, status).                                                       *)
ExpectEnds == \A c \in Callers : op[c] = "expect" ~> op[c] = "none"
=============================================================================
