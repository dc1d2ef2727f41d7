------------------------------- MODULE SecScan -------------------------------
(***************************************************************************)
(* SecScan.run() (packages/runner/src/lib/SecScan.ts) from its call to its *)
(* end: the auxiliary target of a function scan (FunctionScanTarget), the  *)
(* entry point and the scan in the cloud (ScanFactory, DefaultDiscoveries, *)
(* DefaultScans), the expectation, and the finally clause that stops the   *)
(* scan, closes the target and reports (GitLabReporter, and in its place   *)
(* GitHubCheckRunReporter or StdReporter).                                 *)
(*                                                                         *)
(* All runs aim at one and the same endpoint of one project, for which the *)
(* cloud keeps one entry point; what it holds is named by the run that     *)
(* wrote it.  Of Scan.expect() only what ScanLife promises is used here.   *)
(***************************************************************************)
CONSTANTS
    Runs,       \* calls of run()
    Functions,  \* those that scan a function
    Formats     \* what a report is written to, see Sinks

(* A sink of the run's own: its check run, its file of test results, whose *)
(* name is made unique, or its lines of the output; and the file of code   *)
(* quality, which is one for all runs.                                     *)
Sinks == {"own", "quality"}

ASSUME FormatsAssumption == Formats \subseteq Sinks

VARIABLES
    pc,         \* what run() awaits
    error,      \* what it is going to be rejected with
    server,     \* the FunctionScanTarget ("none": the target is the user's)
    busy,       \* a request the target has not answered yet
    entry,      \* the run whose payload the entry point holds
    scan,       \* the scan in the cloud; whether it was ever parked
    attacks,    \* the payload the scan was created with
    met,        \* the runs that were under way at the same time
    unstopped,  \* the runs whose stop() failed or found the scan parked
    listed,     \* the runs whose report() has read an expected issue
    filed       \* the runs whose report stands in each sink

reports == <<listed, filed>>
vars == <<pc, error, server, busy, entry, scan, attacks, met, unstopped, reports>>

(* No entry point, and one that holds what an earlier process has written. *)
Nobody == "nobody"
Earlier == "earlier"
Writers == Runs \cup {Nobody, Earlier}

Steps == {"idle", "listen", "post", "put", "get", "create", "expect", "issues",
          "stop", "close", "report", "write", "over"}

(* "setup": before the try clause; "issue": the IssueFound of assert();    *)
(* "rejected": by expect(), by a failed request or by the report.          *)
Errors == {"none", "setup", "issue", "rejected"}

(* "ended": disrupted, failed or stopped. *)
Statuses == {"none", "active", "parked", "done", "ended"}

TypeOK ==
    /\ pc \in [Runs -> Steps]
    /\ error \in [Runs -> Errors]
    /\ server \in [Runs -> {"none", "open", "closing", "closed"}]
    /\ busy \in [Runs -> BOOLEAN]
    /\ entry \in Writers
    /\ scan \in [Runs -> [status : Statuses, found : BOOLEAN, parked : BOOLEAN]]
    /\ attacks \in [Runs -> Writers]
    /\ met \in [Runs -> SUBSET Runs]
    /\ unstopped \subseteq Runs /\ listed \subseteq Runs
    /\ filed \in [Sinks -> SUBSET Runs]
    /\ \A r \in Runs : busy[r] => server[r] # "none"

Init ==
    /\ pc = [r \in Runs |-> "idle"]
    /\ error = [r \in Runs |-> "none"]
    /\ server = [r \in Runs |-> "none"]
    /\ busy = [r \in Runs |-> FALSE]
    /\ entry \in {Nobody, Earlier}
    /\ scan = [r \in Runs |-> [status |-> "none", found |-> FALSE, parked |-> FALSE]]
    /\ attacks = [r \in Runs |-> Nobody]
    /\ met = [r \in Runs |-> {}]
    /\ unstopped = {}
    /\ listed = {}
    /\ filed = [k \in Sinks |-> {}]

Go(r, where) == pc' = [pc EXCEPT ![r] = where]

Reject(r, where, why) ==
    /\ Go(r, where)
    /\ error' = [error EXCEPT ![r] = why]
-----------------------------------------------------------------------------
(* Up to the try clause: a failure leaves run() at once. *)

Call(r) ==
    LET others == {q \in Runs : pc[q] \notin {"idle", "over"}} IN
    /\ pc[r] = "idle"
    /\ Go(r, IF r \in Functions THEN "listen" ELSE "post")
    /\ met' = [q \in Runs |-> IF q = r THEN others
                              ELSE IF q \in others THEN met[q] \cup {r} ELSE met[q]]
    /\ UNCHANGED <<error, server, busy, entry, scan, attacks, unstopped, reports>>

Listen(r) ==
    /\ pc[r] = "listen"
    /\ server' = [server EXCEPT ![r] = "open"]
    /\ Go(r, "post")
    /\ UNCHANGED <<error, busy, entry, scan, attacks, met, unstopped, reports>>

(* createEntrypoint(): a conflict is answered by PUT and GET of the entry  *)
(* point that is there, and could be by GET alone.                         *)
ConflictTaken == "get"
ConflictReplaced == "put"

Post(r) ==
    /\ pc[r] = "post"
    /\ IF entry = Nobody THEN entry' = r /\ Go(r, "create")
       ELSE UNCHANGED entry /\ Go(r, ConflictReplaced)
    /\ UNCHANGED <<error, server, busy, scan, attacks, met, unstopped, reports>>

Put(r) ==
    /\ pc[r] = "put"
    /\ entry' = r /\ Go(r, "get")
    /\ UNCHANGED <<error, server, busy, scan, attacks, met, unstopped, reports>>

Get(r) ==
    /\ pc[r] = "get" /\ Go(r, "create")
    /\ UNCHANGED <<error, server, busy, entry, scan, attacks, met, unstopped, reports>>

Create(r) ==
    /\ pc[r] = "create"
    /\ scan' = [scan EXCEPT ![r].status = "active"]
    /\ attacks' = [attacks EXCEPT ![r] = entry]
    /\ Go(r, "expect")
    /\ UNCHANGED <<error, server, busy, entry, met, unstopped, reports>>

(* A request fails; the cloud may have carried it out all the same. *)
SetupFails(r) ==
    /\ pc[r] \in {"listen", "post", "put", "get", "create"}
    /\ entry' \in {entry} \cup (IF pc[r] \in {"post", "put"} THEN {r} ELSE {})
    /\ \/ pc[r] = "create" /\ scan' = [scan EXCEPT ![r].status = "active"]
                            /\ attacks' = [attacks EXCEPT ![r] = entry]
       \/ UNCHANGED <<scan, attacks>>
    /\ Reject(r, "over", "setup")
    /\ UNCHANGED <<server, busy, met, unstopped, reports>>
-----------------------------------------------------------------------------
(* The try clause. *)

(* expect() may reject at any time: by its timeout, by a request that      *)
(* fails or because the scan has ended.  It may resolve late, for a scan   *)
(* that has been parked and goes on by now (ScanLife!BornOut).             *)
Expect(r) ==
    /\ pc[r] = "expect"
    /\ \/ /\ scan[r].status = "done" \/ scan[r].found \/ scan[r].parked
          /\ Go(r, "issues") /\ UNCHANGED error
       \/ Reject(r, "stop", "rejected")
    /\ UNCHANGED <<server, busy, entry, scan, attacks, met, unstopped, reports>>

(* assert() rejects for an issue it finds and for a request that fails.    *)
(* findExpectedIssue(), and one that takes a scan that is done for clean. *)
FoundWhileActive(r) == scan[r].found /\ scan[r].status # "done"
Found(r) == scan[r].found

Assert(r) ==
    /\ pc[r] = "issues"
    /\ \/ Reject(r, "stop", "rejected")
       \/ Found(r) /\ Reject(r, "stop", "issue")
       \/ ~Found(r) /\ Go(r, "stop") /\ UNCHANGED error
    /\ UNCHANGED <<server, busy, entry, scan, attacks, met, unstopped, reports>>
-----------------------------------------------------------------------------
(* The finally clause. *)

(* stop() acts on active scans and swallows its errors. *)
StopWhenDone(status) == IF status = "done" THEN "ended" ELSE status
Stopped(status) == IF status = "active" THEN "ended" ELSE status

StopScan(r) ==
    /\ pc[r] = "stop"
    /\ \/ /\ scan' = [scan EXCEPT ![r].status = Stopped(@)]
          /\ unstopped' = IF scan[r].status = "parked" THEN unstopped \cup {r}
                          ELSE unstopped
       \/ unstopped' = unstopped \cup {r} /\ UNCHANGED scan
    /\ server' = [server EXCEPT ![r] = IF @ = "open" THEN "closing" ELSE @]
    /\ Go(r, "close")
    /\ UNCHANGED <<error, busy, entry, attacks, met, reports>>

(* close() waits for the requests the target has accepted. *)
NotDrained(r) == TRUE
Drained(r) == ~busy[r]

CloseTarget(r) ==
    /\ pc[r] = "close" /\ Drained(r)
    /\ server' = [server EXCEPT ![r] = IF @ = "closing" THEN "closed" ELSE @]
    /\ Go(r, "report")
    /\ UNCHANGED <<error, busy, entry, scan, attacks, met, unstopped, reports>>

(* report() asks for the issues again and writes them all, those below the *)
(* threshold too; without any it writes nothing.  What it is rejected with *)
(* replaces the error under way.                                           *)
Report(r) ==
    /\ pc[r] = "report"
    /\ \/ Found(r) /\ Go(r, "write") /\ listed' = listed \cup {r} /\ UNCHANGED error
       \/ ~Found(r) /\ (Go(r, "write") \/ Go(r, "over")) /\ UNCHANGED <<error, listed>>
       \/ Reject(r, "over", "rejected") /\ UNCHANGED listed
    /\ UNCHANGED <<server, busy, entry, scan, attacks, met, unstopped, filed>>

(* The reports are written side by side, and all must be; and a report     *)
(* that waits for all to settle.                                           *)
AllSettled(written) == TRUE
AllWritten(written) == written = Formats

Write(r) ==
    /\ pc[r] = "write"
    /\ \E written \in SUBSET Formats :
          /\ filed' = [k \in Sinks |-> IF k \notin written THEN filed[k]
                                       ELSE IF k = "own" THEN filed[k] \cup {r} ELSE {r}]
          /\ IF AllWritten(written) THEN Go(r, "over") /\ UNCHANGED error
             ELSE Reject(r, "over", "rejected")
    /\ UNCHANGED <<server, busy, entry, scan, attacks, met, unstopped, listed>>
-----------------------------------------------------------------------------
(* The target is attacked while it listens, by the scan through the        *)
(* repeater; a server that is closing accepts no more requests.            *)
AcceptsWhileClosing(r) == server[r] \in {"open", "closing"}
Accepts(r) == server[r] = "open"

TargetRequest(r) ==
    /\ Accepts(r) /\ scan[r].status # "none" /\ ~busy[r]
    /\ busy' = [busy EXCEPT ![r] = TRUE]
    /\ UNCHANGED <<pc, error, server, entry, scan, attacks, met, unstopped, reports>>

(* handleRequest(): the function's result, or its error with status 500. *)
TargetAnswers(r) ==
    /\ busy[r]
    /\ busy' = [busy EXCEPT ![r] = FALSE]
    /\ UNCHANGED <<pc, error, server, entry, scan, attacks, met, unstopped, reports>>

CloudMoves(r) ==
    /\ \/ /\ scan[r].status = "active"
          /\ \E status \in {"done", "ended", "parked"} :
                scan' = [scan EXCEPT ![r].status = status,
                                     ![r].parked = @ \/ status = "parked"]
       \/ scan[r].status = "parked" /\ scan' = [scan EXCEPT ![r].status = "active"]
       \/ /\ scan[r].status = "active" /\ ~scan[r].found
          /\ scan' = [scan EXCEPT ![r].found = TRUE]
    /\ UNCHANGED <<pc, error, server, busy, entry, attacks, met, unstopped, reports>>

(* What run() awaits comes to an end. *)
Proceed(r) ==
    \/ Listen(r) \/ Post(r) \/ Put(r) \/ Get(r) \/ Create(r) \/ SetupFails(r)
    \/ Expect(r) \/ Assert(r) \/ StopScan(r) \/ CloseTarget(r)
    \/ Report(r) \/ Write(r)

Next ==
    \E r \in Runs :
        \/ Call(r) \/ Proceed(r)
        \/ TargetRequest(r) \/ TargetAnswers(r) \/ CloudMoves(r)

Spec == Init /\ [][Next]_vars

(* Requests settle, expect() ends by its timeout (Scan!ExpectEnds) and the *)
(* function under test returns.                                            *)
Fairness == \A r \in Runs : WF_vars(Proceed(r)) /\ WF_vars(TargetAnswers(r))
FairSpec == Spec /\ Fairness
-----------------------------------------------------------------------------
(* run() resolves only for a scan that has found nothing and is done, or   *)
(* was parked before it could be (run, assert).                            *)
ResolvedMeansClean ==
    \A r \in Runs :
        pc[r] = "over" /\ error[r] = "none" =>
            \/ scan[r].status = "done" /\ ~scan[r].found
            \/ scan[r].parked

(* No scan goes on when run() has returned, but one that stop() could not  *)
(* reach or found parked (the finally clause, Scan.stop).                  *)
NoScanLeft ==
    \A r \in Runs :
        pc[r] \in {"report", "write", "over"} /\ scan[r].status = "active"
          => r \in unstopped \/ error[r] = "setup"

(* A run that got as far as its scan leaves no target and no unanswered    *)
(* request behind, whatever failed (the finally clause, FunctionScanTarget).*)
TargetClosed ==
    \A r \in Runs :
        pc[r] = "over" /\ error[r] # "setup"
          => server[r] \in {"none", "closed"} /\ ~busy[r]

(* What is reported agrees with the verdict, although the issues are asked *)
(* for twice, the scan stopped in between: the issue a run is rejected for *)
(* stands in all its reports, but in the one file for all runs when        *)
(* another has written its own there; a run that resolves has reported     *)
(* none at or above its threshold, unless the scan was parked (assert,     *)
(* report).                                                                *)
ReportAgrees ==
    \A r \in Runs : pc[r] = "over" =>
        /\ error[r] = "issue" => r \in listed /\ \A k \in Formats :
              r \in filed[k] \/ (k = "quality" /\ \E q \in Runs : filed[k] = {q})
        /\ error[r] = "none" /\ r \in listed => scan[r].parked

(* A scan attacks what its own run described, or what a run that overlaps  *)
(* with it did: never what an earlier run has left in the entry point      *)
(* (createEntrypoint, handleConflictError).                                *)
OwnEntryPoint ==
    \A r \in Runs : attacks[r] \in {r, Nobody} \cup met[r]

(* What a run knows of its scan, and what its finally clause does to it,   *)
(* is what ScanLife allows: the verdict it has of expect() stands until it *)
(* is rejected for another reason, and stop() leaves a scan that is over   *)
(* as it is (run, Scan.expect, Scan.stop).                                 *)
AsLife ==
    [none |-> "running", active |-> "running", parked |-> "paused",
     done |-> "done", ended |-> "failed"]
Resolved(r) ==
    \/ pc[r] = "issues"
    \/ pc[r] \in {"stop", "close", "report", "write", "over"} /\ error[r] \in {"none", "issue"}

LifeOf(r) ==
    [status |-> AsLife[scan[r].status], found |-> scan[r].found,
     parked |-> scan[r].parked, deleted |-> FALSE]
VerdictOf(r) == [c \in {r} |-> IF Resolved(r) THEN "resolved" ELSE "none"]

Life(r) ==
    INSTANCE ScanLife WITH Clients <- {r}, life <- LifeOf(r), verdict <- VerdictOf(r)

UsesLife ==
    /\ \A r \in Runs : Life(r)!LifeInit
    /\ [][\A r \in Runs : Life(r)!LifeNext \/ UNCHANGED Life(r)!lifeVars]_vars

(* Every run ends, with the target still under fire when it is closed (run,*)
(* FunctionScanTarget.stop).                                               *)
RunEnds == \A r \in Runs : pc[r] = "listen" ~> pc[r] = "over"
=============================================================================
