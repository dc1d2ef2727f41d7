---------------------------- MODULE SecScan_proofs ---------------------------
(***************************************************************************)
(* The safety of SecScan.run(), for any set of runs.                       *)
(***************************************************************************)
EXTENDS SecScan, TLAPS

UnderWay(r) == pc[r] \notin {"idle", "over"}

(* The verdict under way: what a run knows of its scan when it asserts,    *)
(* and what it relies on when it is going to resolve.                      *)
VerdictHolds(r) ==
    /\ scan[r].status = "parked" => scan[r].parked
    /\ pc[r] = "issues" => scan[r].status = "done" \/ scan[r].found \/ scan[r].parked
    /\ pc[r] \in {"stop", "close", "report", "write", "over"} /\ error[r] = "none" =>
          (scan[r].status = "done" /\ ~scan[r].found) \/ scan[r].parked

(* What the finally clause has dealt with so far. *)
CleanUp(r) ==
    /\ error[r] = "setup" => pc[r] = "over"
    /\ /\ pc[r] \in {"close", "report", "write", "over"}
       /\ scan[r].status \in {"active", "parked"}
       => r \in unstopped \/ error[r] = "setup"
    /\ pc[r] = "close" => server[r] # "open"
    /\ pc[r] \in {"report", "write", "over"} /\ error[r] # "setup" =>
          server[r] \in {"none", "closed"} /\ ~busy[r]

(* An issue a run is rejected for is read again by its report, and what    *)
(* the report has read says what the run was told.                         *)
Standing(r, k) ==
    r \in filed[k] \/ (k = "quality" /\ \E q \in Runs : filed[k] = {q})

Filed(r) ==
    /\ error[r] = "issue" =>
          /\ scan[r].found
          /\ pc[r] \in {"stop", "close", "report", "write", "over"}
          /\ pc[r] \in {"write", "over"} => r \in listed
          /\ pc[r] = "over" => \A k \in Formats : Standing(r, k)
    /\ r \in listed =>
          /\ pc[r] \in {"write", "over"}
          /\ error[r] = "none" => scan[r].parked

(* Runs under way have met, so that whoever writes to the entry point a    *)
(* run is about to use is one it has met.                                  *)
EntryShared ==
    /\ \A r, q \in Runs : r # q /\ UnderWay(r) /\ UnderWay(q) => q \in met[r]
    /\ \A r \in Runs : pc[r] \in {"get", "create"} => entry \in {r} \cup met[r]
    /\ \A r \in Runs : pc[r] = "idle" => met[r] = {}

IInv ==
    /\ TypeOK
    /\ \A r \in Runs : VerdictHolds(r) /\ CleanUp(r) /\ Filed(r)
    /\ EntryShared /\ OwnEntryPoint

(* The steps of one run leave what belongs to the others alone.            *)
Local(r) ==
    /\ \A q \in Runs \ {r} :
          /\ pc'[q] = pc[q] /\ error'[q] = error[q] /\ server'[q] = server[q]
          /\ busy'[q] = busy[q] /\ scan'[q] = scan[q] /\ attacks'[q] = attacks[q]
          /\ q \in unstopped => q \in unstopped'
          /\ q \in listed <=> q \in listed'
    /\ \A k \in Formats, q \in Runs : Standing(q, k) => Standing(q, k)'

LEMMA LocalKeeps ==
    ASSUME IInv, NEW r \in Runs, Local(r), VerdictHolds(r)', CleanUp(r)', Filed(r)'
    PROVE  \A q \in Runs : VerdictHolds(q)' /\ CleanUp(q)' /\ Filed(q)'
<1> SUFFICES ASSUME NEW q \in Runs \ {r}
             PROVE  VerdictHolds(q)' /\ CleanUp(q)' /\ Filed(q)'
    OBVIOUS
<1>1. VerdictHolds(q)' /\ CleanUp(q)'
    BY DEF IInv, Local, VerdictHolds,
       CleanUp, Filed, Standing, reports
<1>2. Filed(q)'
    BY DEF IInv, Local, Filed
<1>3. QED
    BY <1>1, <1>2

(* A run that goes on, writes the entry point only when it is under way,   *)
(* and uses it only after it wrote it.                                     *)
LEMMA EntryKeeps ==
    ASSUME IInv, NEW r \in Runs, Local(r), UNCHANGED met,
           UnderWay(r)' => UnderWay(r),
           pc'[r] = "idle" => pc[r] = "idle",
           entry' = entry \/ (entry' = r /\ UnderWay(r)),
           pc'[r] \in {"get", "create"} => pc[r] \in {"get", "create"} \/ entry' = r,
           attacks'[r] = attacks[r] \/ (pc[r] = "create" /\ attacks'[r] = entry)
    PROVE  EntryShared' /\ OwnEntryPoint'
<1>1. \A q, p \in Runs : q # p /\ UnderWay(q)' /\ UnderWay(p)' => p \in met'[q]
    BY DEF IInv, EntryShared, UnderWay, Local
<1>2. \A q \in Runs : pc'[q] \in {"get", "create"} => entry' \in {q} \cup met'[q]
    BY DEF IInv, EntryShared, UnderWay, Local
<1>3. \A q \in Runs : pc'[q] = "idle" => met'[q] = {}
    BY DEF IInv, EntryShared, Local
<1>4. OwnEntryPoint'
    BY DEF IInv, EntryShared, OwnEntryPoint, Local
<1>5. QED
    BY <1>1, <1>2, <1>3, <1>4 DEF EntryShared

(* The new run meets all that are under way. *)
LEMMA CallKeeps == ASSUME IInv, NEW r \in Runs, Call(r) PROVE IInv'
<1>1. TypeOK'
    BY DEF IInv, TypeOK, Call, Go, Steps, reports
<1>2. Local(r) /\ VerdictHolds(r)' /\ CleanUp(r)' /\ Filed(r)'
    BY DEF IInv, TypeOK, Call, Go, Local, VerdictHolds,
       CleanUp, Filed, Standing, reports
<1>3. \A q \in Runs : met[q] \subseteq met'[q]
    BY DEF IInv, TypeOK, Call, UnderWay, EntryShared
<1>4. EntryShared' /\ OwnEntryPoint'
  <2>1. \A q, p \in Runs : q # p /\ UnderWay(q)' /\ UnderWay(p)' => p \in met'[q]
    BY DEF IInv, TypeOK, Call, Go, UnderWay, EntryShared
  <2>2. \A q \in Runs : pc'[q] \in {"get", "create"} => entry' \in {q} \cup met'[q]
    BY <1>3 DEF IInv, TypeOK, Call, Go, EntryShared
  <2>3. \A q \in Runs : pc'[q] = "idle" => met'[q] = {}
    BY DEF IInv, TypeOK, Call, Go, EntryShared
  <2>4. OwnEntryPoint'
    BY <1>3 DEF IInv, OwnEntryPoint, Call
  <2>5. QED
    BY <2>1, <2>2, <2>3, <2>4 DEF EntryShared
<1>5. QED
    BY <1>1, <1>2, <1>4, LocalKeeps DEF IInv

(* Up to the try clause. *)
LEMMA SetupKeeps ==
    ASSUME IInv, NEW r \in Runs,
           Listen(r) \/ Post(r) \/ Put(r) \/ Get(r) \/ Create(r) \/ SetupFails(r)
    PROVE  IInv'
<1> USE DEF Go, Reject, ConflictReplaced, UnderWay, reports
<1>1. TypeOK'
  <2>1. CASE Listen(r)
    BY <2>1 DEF IInv, TypeOK, Steps, Listen
  <2>2. CASE Post(r)
    BY <2>2 DEF IInv, TypeOK, Steps, Writers, Post
  <2>3. CASE Put(r) \/ Get(r)
    BY <2>3 DEF IInv, TypeOK, Steps, Writers, Put, Get
  <2>4. CASE Create(r)
    BY <2>4 DEF IInv, TypeOK, Steps, Statuses, Create
  <2>5. CASE SetupFails(r)
    <3>1. entry' \in Writers
      BY <2>5 DEF IInv, TypeOK, Writers, SetupFails
    <3>2. /\ scan' \in [Runs -> [status : Statuses, found : BOOLEAN, parked : BOOLEAN]]
          /\ attacks' \in [Runs -> Writers]
      <4>1. CASE /\ scan' = [scan EXCEPT ![r].status = "active"]
                 /\ attacks' = [attacks EXCEPT ![r] = entry]
        BY <4>1 DEF IInv, TypeOK, Statuses
      <4>2. CASE UNCHANGED <<scan, attacks>>
        BY <4>2 DEF IInv, TypeOK
      <4>3. QED
        BY <2>5, <4>1, <4>2 DEF SetupFails
    <3>3. pc' \in [Runs -> Steps] /\ error' \in [Runs -> Errors]
      BY <2>5 DEF IInv, TypeOK, Steps, Errors, SetupFails
    <3>4. QED
      BY <2>5, <3>1, <3>2, <3>3 DEF IInv, TypeOK, SetupFails
  <2>6. QED
    BY <2>1, <2>2, <2>3, <2>4, <2>5
<1>2. Local(r) /\ VerdictHolds(r)' /\ CleanUp(r)' /\ Filed(r)'
  <2>1. CASE Listen(r) \/ Post(r) \/ Put(r) \/ Get(r)
    BY <2>1 DEF IInv, TypeOK, Listen, Post, Put, Get, Local, VerdictHolds,
       CleanUp, Filed, Standing, reports
  <2>2. CASE Create(r)
    BY <2>2 DEF IInv, TypeOK, Create, Local, VerdictHolds,
       CleanUp, Filed, Standing, reports
  <2>3. CASE SetupFails(r)
    BY <2>3 DEF IInv, TypeOK, SetupFails, Local, VerdictHolds,
       CleanUp, Filed, Standing, reports
  <2>4. QED
    BY <2>1, <2>2, <2>3
<1>3. /\ UNCHANGED met /\ UnderWay(r) /\ pc'[r] # "idle"
      /\ entry' = entry \/ entry' = r
      /\ pc'[r] \in {"get", "create"} => pc[r] \in {"get", "create"} \/ entry' = r
      /\ attacks'[r] = attacks[r] \/ (pc[r] = "create" /\ attacks'[r] = entry)
    BY DEF IInv, TypeOK, Listen, Post, Put, Get, Create, SetupFails
<1>4. EntryShared' /\ OwnEntryPoint'
    BY <1>2, <1>3, EntryKeeps
<1>5. QED
    BY <1>1, <1>2, <1>4, LocalKeeps DEF IInv

(* The try and the finally clause, and what the cloud and the target do.   *)
LEMMA RestKeeps ==
    ASSUME IInv, NEW r \in Runs,
           \/ Expect(r) \/ Assert(r) \/ StopScan(r) \/ CloseTarget(r)
           \/ Report(r) \/ Write(r)
           \/ TargetRequest(r) \/ TargetAnswers(r) \/ CloudMoves(r)
    PROVE  IInv'
<1> USE DEF Go, Reject, UnderWay, reports
<1>1. CASE Expect(r) \/ Assert(r)
  <2>1. TypeOK'
    <3>1. pc' \in [Runs -> Steps] /\ error' \in [Runs -> Errors]
      BY <1>1 DEF IInv, TypeOK, Steps, Errors, Expect, Assert
    <3>2. QED
      BY <1>1, <3>1 DEF IInv, TypeOK, Expect, Assert
  <2>2. Local(r) /\ VerdictHolds(r)' /\ CleanUp(r)' /\ Filed(r)'
    <3>1. Local(r)
      BY <1>1 DEF IInv, TypeOK, Expect, Assert, Local, Standing
    <3>2. VerdictHolds(r)'
      BY <1>1 DEF IInv, TypeOK, Expect, Assert, Found, VerdictHolds
    <3>3. CleanUp(r)'
      BY <1>1 DEF IInv, TypeOK, Expect, Assert, CleanUp
    <3>4. Filed(r)'
      BY <1>1 DEF IInv, TypeOK, Expect, Assert, Found, VerdictHolds, Filed, Standing
    <3>5. QED
      BY <3>1, <3>2, <3>3, <3>4
  <2>3. EntryShared' /\ OwnEntryPoint'
    BY <1>1, <2>2, EntryKeeps DEF IInv, TypeOK, Expect, Assert
  <2>4. QED
    BY <2>1, <2>2, <2>3, LocalKeeps DEF IInv
<1>2. CASE StopScan(r)
  <2>1. TypeOK'
    BY <1>2 DEF IInv, TypeOK, Steps, Statuses, StopScan, Stopped
  <2>2. Local(r) /\ VerdictHolds(r)' /\ CleanUp(r)' /\ Filed(r)'
    BY <1>2 DEF IInv, TypeOK, StopScan, Stopped, Local, VerdictHolds,
       CleanUp, Filed, Standing, reports
  <2>3. EntryShared' /\ OwnEntryPoint'
    BY <1>2, <2>2, EntryKeeps DEF IInv, TypeOK, StopScan
  <2>4. QED
    BY <2>1, <2>2, <2>3, LocalKeeps DEF IInv
<1>3. CASE CloseTarget(r) \/ Report(r)
  <2>1. TypeOK'
    <3>1. pc' \in [Runs -> Steps] /\ error' \in [Runs -> Errors]
      <4>1. /\ \E where \in {"report", "write", "over"} : pc' = [pc EXCEPT ![r] = where]
            /\ error' \in {error, [error EXCEPT ![r] = "rejected"]}
        BY <1>3 DEF CloseTarget, Report
      <4>2. QED
        BY <4>1 DEF IInv, TypeOK, Steps, Errors
    <3>2. server' \in [Runs -> {"none", "open", "closing", "closed"}]
      BY <1>3 DEF IInv, TypeOK, CloseTarget, Report
    <3>3. \A q \in Runs : server[q] = "none" <=> server'[q] = "none"
      BY <1>3 DEF IInv, TypeOK, CloseTarget, Report
    <3>4. QED
      BY <1>3, <3>1, <3>2, <3>3 DEF IInv, TypeOK, CloseTarget, Report
  <2>2. Local(r) /\ VerdictHolds(r)' /\ CleanUp(r)' /\ Filed(r)'
    <3>1. Local(r)
      BY <1>3 DEF IInv, TypeOK, CloseTarget, Drained, Report, Local, Standing
    <3>2. VerdictHolds(r)'
      BY <1>3 DEF IInv, TypeOK, CloseTarget, Drained, Report, Found, VerdictHolds
    <3>3. CleanUp(r)'
      BY <1>3 DEF IInv, TypeOK, CloseTarget, Drained, Report, CleanUp
    <3>4. Filed(r)'
      BY <1>3
      DEF IInv, TypeOK, CloseTarget, Drained, Report, Found, VerdictHolds, Filed, Standing
    <3>5. QED
      BY <3>1, <3>2, <3>3, <3>4
  <2>3. EntryShared' /\ OwnEntryPoint'
    BY <1>3, <2>2, EntryKeeps DEF IInv, TypeOK, CloseTarget, Report
  <2>4. QED
    BY <2>1, <2>2, <2>3, LocalKeeps DEF IInv
<1>4. CASE TargetRequest(r) \/ TargetAnswers(r)
  <2>1. TypeOK'
    BY <1>4 DEF IInv, TypeOK, TargetRequest, Accepts, TargetAnswers
  <2>2. Local(r) /\ VerdictHolds(r)' /\ CleanUp(r)' /\ Filed(r)'
    BY <1>4 DEF IInv, TypeOK, TargetRequest, Accepts, TargetAnswers, Local, VerdictHolds,
       CleanUp, Filed, Standing, reports
  <2>3. EntryShared' /\ OwnEntryPoint'
    BY <1>4, <2>2, EntryKeeps DEF TargetRequest, TargetAnswers
  <2>4. QED
    BY <2>1, <2>2, <2>3, LocalKeeps DEF IInv
<1>5. CASE CloudMoves(r)
  <2>1. TypeOK'
    <3>1. scan[r] \in [status : Statuses, found : BOOLEAN, parked : BOOLEAN]
      BY DEF IInv, TypeOK
    <3>2. \E now \in [status : Statuses, found : BOOLEAN, parked : BOOLEAN] :
             scan' = [scan EXCEPT ![r] = now]
      <4>1. CASE \E status \in {"done", "ended", "parked"} :
                    scan' = [scan EXCEPT ![r].status = status,
                                         ![r].parked = @ \/ status = "parked"]
        BY <3>1, <4>1 DEF IInv, TypeOK, Statuses
      <4>2. CASE \/ scan' = [scan EXCEPT ![r].status = "active"]
                 \/ scan' = [scan EXCEPT ![r].found = TRUE]
        BY <3>1, <4>2 DEF IInv, TypeOK, Statuses
      <4>3. QED
        BY <1>5, <4>1, <4>2 DEF CloudMoves
    <3>3. QED
      BY <1>5, <3>2 DEF IInv, TypeOK, CloudMoves
  <2>2. Local(r) /\ VerdictHolds(r)' /\ CleanUp(r)' /\ Filed(r)'
    BY <1>5 DEF IInv, TypeOK, CloudMoves, Local, VerdictHolds,
       CleanUp, Filed, Standing, reports
  <2>3. EntryShared' /\ OwnEntryPoint'
    BY <1>5, <2>2, EntryKeeps DEF CloudMoves
  <2>4. QED
    BY <2>1, <2>2, <2>3, LocalKeeps DEF IInv
<1>6. CASE Write(r)
  <2>1. PICK written \in SUBSET Formats :
          /\ filed' = [k \in Sinks |-> IF k \notin written THEN filed[k]
                                       ELSE IF k = "own" THEN filed[k] \cup {r} ELSE {r}]
          /\ IF AllWritten(written) THEN Go(r, "over") /\ UNCHANGED error
             ELSE Reject(r, "over", "rejected")
    BY <1>6 DEF Write
  <2>2. filed' \in [Sinks -> SUBSET Runs]
    BY <2>1 DEF IInv, TypeOK
  <2>3. pc' = [pc EXCEPT ![r] = "over"] /\ error' \in {error, [error EXCEPT ![r] = "rejected"]}
    BY <2>1
  <2>4. TypeOK'
    <3>1. pc' \in [Runs -> Steps] /\ error' \in [Runs -> Errors]
      BY <2>3 DEF IInv, TypeOK, Steps, Errors
    <3>2. QED
      BY <1>6, <2>2, <3>1 DEF IInv, TypeOK, Write
  <2>5. \A k \in Formats, q \in Runs : Standing(q, k) => Standing(q, k)'
    BY <2>1, FormatsAssumption DEF Standing, Sinks
  <2>6. Local(r)
    BY <1>6, <2>3, <2>5 DEF IInv, TypeOK, Write, Local
  <2>7. VerdictHolds(r)' /\ CleanUp(r)'
    BY <1>6, <2>3 DEF IInv, TypeOK, Write, VerdictHolds, CleanUp
  <2>8. error'[r] = "issue" => \A k \in Formats : Standing(r, k)'
    <3>1. SUFFICES ASSUME error'[r] = "issue" PROVE \A k \in Formats : r \in filed'[k]
      BY DEF Standing
    <3>2. written = Formats
      BY <2>1, <3>1 DEF IInv, TypeOK, AllWritten
    <3>3. QED
      BY <2>1, <3>2, FormatsAssumption DEF Sinks
  <2>9. Filed(r)'
    BY <1>6, <2>3, <2>8 DEF IInv, TypeOK, Write, VerdictHolds, Filed
  <2>10. EntryShared' /\ OwnEntryPoint'
    BY <1>6, <2>3, <2>6, EntryKeeps DEF IInv, TypeOK, Write
  <2>11. QED
    BY <2>4, <2>6, <2>7, <2>9, <2>10, LocalKeeps DEF IInv
<1>7. QED
    BY <1>1, <1>2, <1>3, <1>4, <1>5, <1>6

(* The inductive invariant: what a run knows, what its finally clause has  *)
(* dealt with, and who may have written to the entry point it uses (run,   *)
(* createEntrypoint).                                                      *)
THEOREM Invariance == Spec => []IInv
<1>1. Init => IInv
    BY DEF Init, IInv, TypeOK, Steps, Errors, Statuses, Writers, Sinks, VerdictHolds,
           CleanUp, Filed, EntryShared, UnderWay, OwnEntryPoint
<1>2. IInv /\ [Next]_vars => IInv'
  <2> SUFFICES ASSUME IInv, [Next]_vars PROVE IInv'
    OBVIOUS
  <2>1. CASE Next
    BY <2>1, CallKeeps, SetupKeeps, RestKeeps DEF Next, Proceed
  <2>2. CASE UNCHANGED vars
    BY <2>2 DEF vars, reports, IInv, TypeOK, VerdictHolds, CleanUp, Filed, Standing,
                EntryShared, UnderWay, OwnEntryPoint
  <2>3. QED
    BY <2>1, <2>2
<1>3. QED
    BY <1>1, <1>2, PTL DEF Spec

(* Every variable keeps its type (run, FunctionScanTarget). *)
THEOREM Types == Spec => []TypeOK
<1>1. IInv => TypeOK
    BY DEF IInv
<1>2. QED
    BY <1>1, Invariance, PTL

(* run() resolves only for a scan that is done and clean, or was parked    *)
(* (run, assert).                                                          *)
THEOREM CleanVerdict == Spec => []ResolvedMeansClean
<1>1. IInv => ResolvedMeansClean
    BY DEF IInv, VerdictHolds, ResolvedMeansClean
<1>2. QED
    BY <1>1, Invariance, PTL

(* No scan goes on but one that stop() could not reach or found parked     *)
(* (the finally clause).                                                   *)
THEOREM StopsScans == Spec => []NoScanLeft
<1>1. IInv => NoScanLeft
    BY DEF IInv, CleanUp, NoScanLeft
<1>2. QED
    BY <1>1, Invariance, PTL

(* A run that got as far as its scan closes its target (the finally        *)
(* clause).                                                                *)
THEOREM ClosesTarget == Spec => []TargetClosed
<1>1. IInv => TargetClosed
    BY DEF IInv, CleanUp, TargetClosed
<1>2. QED
    BY <1>1, Invariance, PTL

(* While a run waits for its target to close, no request joins those it    *)
(* waits for, although the scan may go on attacking: what RunEnds needs of *)
(* the order in which the finally clause stops scan and target             *)
(* (FunctionScanTarget.stop).                                              *)
THEOREM TargetDrains ==
    Spec => [][\A r \in Runs : pc[r] = "close" /\ busy'[r] => busy[r]]_vars
<1> DEFINE Drains == \A r \in Runs : pc[r] = "close" /\ busy'[r] => busy[r]
<1>1. ASSUME IInv, Next PROVE Drains
  <2>1. PICK q \in Runs :
           Call(q) \/ Proceed(q) \/ TargetRequest(q) \/ TargetAnswers(q) \/ CloudMoves(q)
    BY <1>1 DEF Next
  <2>2. CASE TargetRequest(q)
    <3>1. pc[q] # "close" /\ busy' = [busy EXCEPT ![q] = TRUE]
      BY <1>1, <2>2 DEF IInv, CleanUp, TargetRequest, Accepts
    <3>2. QED
      BY <1>1, <3>1 DEF IInv, TypeOK
  <2>3. CASE TargetAnswers(q)
    BY <1>1, <2>3 DEF IInv, TypeOK, TargetAnswers
  <2>4. CASE Call(q) \/ Proceed(q) \/ CloudMoves(q)
    <3>1. busy' = busy
      BY <2>4 DEF Call, Proceed, Listen, Post, Put, Get, Create, SetupFails, Expect, Assert,
         StopScan, CloseTarget, Report, Write, CloudMoves
    <3>2. QED
      BY <3>1
  <2>5. QED
    BY <2>1, <2>2, <2>3, <2>4
<1>2. IInv /\ [Next]_vars => [Drains]_vars
    BY <1>1
<1>3. QED
    BY <1>2, Invariance, PTL DEF Spec

(* The reports agree with the verdicts (assert, report).                   *)
THEOREM ReportsAgree == Spec => []ReportAgrees
<1>1. IInv => ReportAgrees
    BY DEF IInv, Filed, Standing, ReportAgrees
<1>2. QED
    BY <1>1, Invariance, PTL

(* A scan attacks what its own run or one that overlaps with it described  *)
(* (createEntrypoint, handleConflictError).                                *)
THEOREM AttacksOwn == Spec => []OwnEntryPoint
<1>1. IInv => OwnEntryPoint
    BY DEF IInv
<1>2. QED
    BY <1>1, Invariance, PTL
-----------------------------------------------------------------------------
(* What a step leaves alone of the scans and the verdicts of other runs.   *)
LEMMA OthersKeep ==
    ASSUME TypeOK, NEW q \in Runs, NEW r \in Runs \ {q},
           Call(q) \/ Proceed(q) \/ TargetRequest(q) \/ TargetAnswers(q) \/ CloudMoves(q)
    PROVE  pc'[r] = pc[r] /\ error'[r] = error[r] /\ scan'[r] = scan[r]
<1> USE DEF Go, Reject, TypeOK
<1>1. CASE Listen(q) \/ Post(q) \/ Put(q) \/ Get(q) \/ Create(q) \/ SetupFails(q)
    BY <1>1 DEF Listen, Post, Put, Get, Create, SetupFails
<1>2. CASE Expect(q) \/ Assert(q) \/ StopScan(q) \/ CloseTarget(q) \/ Report(q)
    BY <1>2 DEF Expect, Assert, StopScan, CloseTarget, Report
<1>3. CASE Write(q)
    BY <1>3 DEF Write
<1>4. CASE Call(q) \/ TargetRequest(q) \/ TargetAnswers(q) \/ CloudMoves(q)
    BY <1>4 DEF Call, TargetRequest, TargetAnswers, CloudMoves
<1>5. QED
    BY <1>1, <1>2, <1>3, <1>4 DEF Proceed

(* A run has no scan before it has asked for one.                          *)
Before == {"idle", "listen", "post", "put", "get", "create"}
ScanIsNew == \A r \in Runs : pc[r] \in Before => scan[r].status = "none"

LEMMA ScanIsNewKept ==
    ASSUME IInv, ScanIsNew, [Next]_vars
    PROVE  ScanIsNew'
<1> SUFFICES ASSUME NEW r \in Runs, pc'[r] \in Before
             PROVE  scan'[r].status = "none"
    BY DEF ScanIsNew
<1>0. TypeOK
    BY DEF IInv
<1>1. ASSUME NEW q \in Runs \ {r},
             Call(q) \/ Proceed(q) \/ TargetRequest(q) \/ TargetAnswers(q) \/ CloudMoves(q)
      PROVE  scan'[r].status = "none"
    BY <1>0, <1>1, OthersKeep DEF ScanIsNew
<1>2. CASE Call(r) \/ Listen(r) \/ Post(r) \/ Put(r) \/ Get(r)
    BY <1>0, <1>2 DEF TypeOK, Call, Listen, Post, Put, Get, Before, ScanIsNew
<1>3. CASE Create(r) \/ SetupFails(r) \/ Expect(r) \/ Assert(r) \/ StopScan(r) \/ CloseTarget(r)
    BY <1>0, <1>3 DEF TypeOK, Go, Reject, Create, SetupFails, Expect, Assert, StopScan,
       CloseTarget, Before
<1>4. CASE Report(r) \/ Write(r)
    BY <1>0, <1>4 DEF TypeOK, Go, Reject, Report, Write, Before
<1>5. CASE TargetRequest(r) \/ TargetAnswers(r) \/ CloudMoves(r) \/ UNCHANGED vars
    BY <1>0, <1>5 DEF TypeOK, TargetRequest, TargetAnswers, CloudMoves, vars, ScanIsNew
<1>6. QED
    BY <1>1, <1>2, <1>3, <1>4, <1>5 DEF Next, Proceed

(* A step that leaves the scan alone gives a verdict the scan bears out,   *)
(* takes one back, or none of the two.                                     *)
LEMMA VerdictIsGiven ==
    ASSUME NEW r \in Runs, scan'[r] = scan[r],
           Resolved(r)' => Resolved(r) \/ scan[r].status = "done" \/ scan[r].found
                           \/ scan[r].parked
    PROVE  Life(r)!LifeNext \/ UNCHANGED Life(r)!lifeVars
<1>1. LifeOf(r)' = LifeOf(r)
    BY DEF LifeOf
<1>2. CASE Resolved(r)' <=> Resolved(r)
  <2>1. VerdictOf(r)' = VerdictOf(r)
    BY <1>2 DEF VerdictOf
  <2>2. QED
    BY <1>1, <2>1 DEF Life!lifeVars
<1>3. CASE Resolved(r)' /\ ~Resolved(r)
  <2>1. VerdictOf(r)' = [VerdictOf(r) EXCEPT ![r] = "resolved"]
    BY <1>3 DEF VerdictOf
  <2>2. LifeOf(r).status = "done" \/ LifeOf(r).found \/ LifeOf(r).parked
    BY <1>3 DEF LifeOf, AsLife
  <2>3. Life(r)!BornOut("resolved")
    BY <2>2 DEF Life!BornOut
  <2>4. QED
    BY <1>1, <2>1, <2>3 DEF Life!LifeNext, Life!Concludes, Life!Verdicts
<1>4. CASE ~Resolved(r)' /\ Resolved(r)
  <2>1. VerdictOf(r)' = [VerdictOf(r) EXCEPT ![r] = "none"]
    BY <1>4 DEF VerdictOf
  <2>2. QED
    BY <1>1, <2>1 DEF Life!LifeNext, Life!Concludes, Life!Verdicts, Life!BornOut
<1>5. QED
    BY <1>2, <1>3, <1>4

(* How a scan as ScanLife has it is written in one or two of its fields.   *)
IsLife(l) ==
    l = [status |-> l.status, found |-> l.found, parked |-> l.parked, deleted |-> l.deleted]

LEMMA StatusWritten ==
    ASSUME NEW l, IsLife(l), NEW k, IsLife(k), NEW x,
           k.status = x, k.found = l.found, k.parked = l.parked, k.deleted = l.deleted
    PROVE  k = [l EXCEPT !.status = x]
    BY DEF IsLife

LEMMA ParkedWritten ==
    ASSUME NEW l, IsLife(l), NEW k, IsLife(k), NEW x,
           k.status = x, k.found = l.found, k.deleted = l.deleted,
           k.parked = (l.parked \/ x = "paused")
    PROVE  k = [l EXCEPT !.status = x, !.parked = @ \/ x = "paused"]
<1>1. k = [l EXCEPT !.status = k.status, !.parked = k.parked]
    BY DEF IsLife
<1>2. QED
    BY <1>1

LEMMA FoundWritten ==
    ASSUME NEW l, IsLife(l), NEW k, IsLife(k), NEW x,
           k.status = l.status, k.found = x, k.parked = l.parked, k.deleted = l.deleted
    PROVE  k = [l EXCEPT !.found = x]
    BY DEF IsLife

(* The status of a scan as ScanLife has it.                                *)
LEMMA StatusOfLife ==
    ASSUME NEW r \in Runs
    PROVE  /\ IsLife(LifeOf(r)) /\ LifeOf(r).status = AsLife[scan[r].status]
           /\ LifeOf(r).found = scan[r].found /\ LifeOf(r).parked = scan[r].parked
           /\ LifeOf(r).deleted = FALSE
           /\ AsLife["none"] = "running" /\ AsLife["active"] = "running"
           /\ AsLife["parked"] = "paused" /\ AsLife["done"] = "done"
           /\ AsLife["ended"] = "failed"
    BY DEF LifeOf, AsLife, IsLife

LEMMA NextLife ==
    ASSUME NEW r \in Runs
    PROVE  /\ IsLife(LifeOf(r)') /\ LifeOf(r)'.status = AsLife[scan'[r].status]
           /\ LifeOf(r)'.found = scan'[r].found /\ LifeOf(r)'.parked = scan'[r].parked
           /\ LifeOf(r)'.deleted = FALSE
    BY DEF LifeOf, IsLife

(* What becomes of a life when the scan changes in one field.             *)
LEMMA LifeStatus ==
    ASSUME NEW r \in Runs, NEW x, AsLife[scan'[r].status] = x,
           scan'[r].found = scan[r].found, scan'[r].parked = scan[r].parked
    PROVE  LifeOf(r)' = [LifeOf(r) EXCEPT !.status = x]
<1>1. IsLife(LifeOf(r)) /\ IsLife(LifeOf(r)')
    BY StatusOfLife, NextLife
<1>2. LifeOf(r)'.status = x /\ LifeOf(r)'.found = LifeOf(r).found
    BY StatusOfLife, NextLife
<1>3. LifeOf(r)'.parked = LifeOf(r).parked /\ LifeOf(r)'.deleted = LifeOf(r).deleted
    BY StatusOfLife, NextLife
<1>4. QED
    BY <1>1, <1>2, <1>3, StatusWritten

LEMMA LifeParked ==
    ASSUME NEW r \in Runs, NEW x, AsLife[scan'[r].status] = x,
           scan'[r].found = scan[r].found,
           scan'[r].parked = (scan[r].parked \/ x = "paused")
    PROVE  LifeOf(r)' = [LifeOf(r) EXCEPT !.status = x, !.parked = @ \/ x = "paused"]
<1>1. IsLife(LifeOf(r)) /\ IsLife(LifeOf(r)')
    BY StatusOfLife, NextLife
<1>2. LifeOf(r)'.status = x /\ LifeOf(r)'.found = LifeOf(r).found
    BY StatusOfLife, NextLife
<1>3. /\ LifeOf(r)'.parked = (LifeOf(r).parked \/ x = "paused")
      /\ LifeOf(r)'.deleted = LifeOf(r).deleted
    BY StatusOfLife, NextLife
<1>4. QED
    BY <1>1, <1>2, <1>3, ParkedWritten

LEMMA LifeFound ==
    ASSUME NEW r \in Runs, scan'[r].found = TRUE,
           scan'[r].status = scan[r].status, scan'[r].parked = scan[r].parked
    PROVE  LifeOf(r)' = [LifeOf(r) EXCEPT !.found = TRUE]
<1>1. IsLife(LifeOf(r)) /\ IsLife(LifeOf(r)')
    BY StatusOfLife, NextLife
<1>2. LifeOf(r)'.status = LifeOf(r).status /\ LifeOf(r)'.found = TRUE
    BY StatusOfLife, NextLife
<1>3. LifeOf(r)'.parked = LifeOf(r).parked /\ LifeOf(r)'.deleted = LifeOf(r).deleted
    BY StatusOfLife, NextLife
<1>4. QED
    BY <1>1, <1>2, <1>3, FoundWritten

LEMMA StepLives ==
    ASSUME IInv, ScanIsNew, Next, NEW r \in Runs
    PROVE  Life(r)!LifeNext \/ UNCHANGED Life(r)!lifeVars
<1>0. /\ TypeOK /\ error[r] \in Errors /\ pc[r] \in Steps
      /\ scan[r] \in [status : Statuses, found : BOOLEAN, parked : BOOLEAN]
    BY DEF IInv, TypeOK
<1> USE DEF Go, Reject
<1>1. ASSUME NEW q \in Runs \ {r},
             Call(q) \/ Proceed(q) \/ TargetRequest(q) \/ TargetAnswers(q) \/ CloudMoves(q)
      PROVE  Life(r)!LifeNext \/ UNCHANGED Life(r)!lifeVars
  <2>1. pc'[r] = pc[r] /\ error'[r] = error[r] /\ scan'[r] = scan[r]
    BY <1>0, <1>1, OthersKeep
  <2>2. QED
    BY <2>1, VerdictIsGiven DEF Resolved
<1>2. CASE Call(r) \/ Listen(r) \/ Post(r) \/ Put(r) \/ Get(r)
  <2>1. scan'[r] = scan[r] /\ ~Resolved(r)'
    BY <1>0, <1>2 DEF TypeOK, Call, Listen, Post, Put, Get, ConflictReplaced, Resolved
  <2>2. QED
    BY <2>1, VerdictIsGiven
<1>3. CASE Create(r) \/ SetupFails(r)
  <2>1. ~Resolved(r) /\ ~Resolved(r)'
    BY <1>0, <1>3 DEF TypeOK, Create, SetupFails, Resolved
  <2>2. CASE scan'[r] = scan[r]
    BY <2>1, <2>2, VerdictIsGiven
  <2>3. CASE scan'[r] # scan[r]
    <3>1. /\ pc[r] = "create" /\ scan'[r].status = "active"
          /\ scan'[r].found = scan[r].found /\ scan'[r].parked = scan[r].parked
      BY <1>0, <1>3, <2>3 DEF TypeOK, Create, SetupFails
    <3>2. scan[r].status = "none"
      BY <3>1 DEF ScanIsNew, Before
    <3>3. LifeOf(r)' = LifeOf(r)
      BY <3>1, <3>2, StatusOfLife DEF LifeOf
    <3>4. VerdictOf(r)' = VerdictOf(r)
      BY <2>1 DEF VerdictOf
    <3>5. QED
      BY <3>3, <3>4 DEF Life!lifeVars
  <2>4. QED
    BY <2>2, <2>3
<1>4. CASE Expect(r) \/ Assert(r)
  <2>1. /\ scan'[r] = scan[r]
        /\ Resolved(r)' => Resolved(r) \/ scan[r].status = "done" \/ scan[r].found
                           \/ scan[r].parked
    BY <1>0, <1>4 DEF TypeOK, Expect, Assert, Resolved
  <2>2. QED
    BY <2>1, VerdictIsGiven
<1>5. CASE StopScan(r)
  <2>1. Resolved(r)' <=> Resolved(r)
    BY <1>0, <1>5 DEF TypeOK, StopScan, Resolved
  <2>2. CASE scan'[r] = scan[r]
    BY <2>1, <2>2, VerdictIsGiven
  <2>3. CASE scan'[r] # scan[r]
    <3>1. scan'[r] = [scan[r] EXCEPT !.status = Stopped(@)]
      BY <1>0, <1>5, <2>3 DEF TypeOK, StopScan
    <3>2. scan[r].status = "active" /\ scan'[r] = [scan[r] EXCEPT !.status = "ended"]
      BY <1>0, <3>1, <2>3 DEF Stopped
    <3>3. /\ scan'[r].status = "ended"
          /\ scan'[r].found = scan[r].found /\ scan'[r].parked = scan[r].parked
      BY <1>0, <3>2
    <3>4. LifeOf(r)' = [LifeOf(r) EXCEPT !.status = "failed"]
      <4>1. AsLife[scan'[r].status] = "failed"
        BY <3>3, StatusOfLife
      <4>2. QED
        BY <3>3, <4>1, LifeStatus
    <3>5. VerdictOf(r)' = VerdictOf(r)
      BY <2>1 DEF VerdictOf
    <3>6. QED
      BY <3>2, <3>4, <3>5, StatusOfLife DEF Life!LifeNext, Life!StopsScan, Life!Final
  <2>4. QED
    BY <2>2, <2>3
<1>6. CASE CloseTarget(r) \/ Report(r) \/ Write(r)
  <2>1. scan'[r] = scan[r]
    BY <1>6 DEF CloseTarget, Report, Write
  <2>2. Resolved(r)' => Resolved(r)
    <3>1. CASE CloseTarget(r) \/ Report(r)
      BY <1>0, <3>1 DEF TypeOK, CloseTarget, Report, Resolved
    <3>2. CASE Write(r)
      BY <1>0, <3>2 DEF TypeOK, Write, Resolved
    <3>3. QED
      BY <1>6, <3>1, <3>2
  <2>3. QED
    BY <2>1, <2>2, VerdictIsGiven
<1>7. CASE TargetRequest(r) \/ TargetAnswers(r)
  <2>1. scan'[r] = scan[r] /\ (Resolved(r)' <=> Resolved(r))
    BY <1>7 DEF TargetRequest, TargetAnswers, Resolved
  <2>2. QED
    BY <2>1, VerdictIsGiven
<1>8. CASE CloudMoves(r)
  <2>1. VerdictOf(r)' = VerdictOf(r)
    BY <1>8 DEF CloudMoves, Resolved, VerdictOf
  <2>2. ASSUME NEW status \in {"done", "ended", "parked"}, scan[r].status = "active",
               scan' = [scan EXCEPT ![r].status = status,
                                    ![r].parked = @ \/ status = "parked"]
        PROVE  Life(r)!CloudActs
    <3>1. /\ scan'[r].status = status /\ scan'[r].found = scan[r].found
          /\ scan'[r].parked = (scan[r].parked \/ status = "parked")
      BY <1>0, <2>2 DEF TypeOK
    <3>2. LifeOf(r)' = [LifeOf(r) EXCEPT !.status = AsLife[status],
                                         !.parked = @ \/ AsLife[status] = "paused"]
      <4>1. AsLife[status] = "paused" <=> status = "parked"
        BY StatusOfLife
      <4>2. QED
        BY <3>1, <4>1, LifeParked
    <3>3. AsLife[status] \in {"done", "failed", "running", "paused"}
      BY DEF AsLife
    <3>4. QED
      BY <2>1, <2>2, <3>2, <3>3, StatusOfLife DEF Life!CloudActs, Life!Final
  <2>3. CASE scan[r].status = "parked" /\ scan' = [scan EXCEPT ![r].status = "active"]
    <3>1. /\ scan'[r].status = "active"
          /\ scan'[r].found = scan[r].found /\ scan'[r].parked = scan[r].parked
          /\ scan[r].parked \in BOOLEAN
      BY <1>0, <2>3 DEF TypeOK
    <3>2. LifeOf(r)' = [LifeOf(r) EXCEPT !.status = "running",
                                         !.parked = @ \/ "running" = "paused"]
      <4>1. AsLife[scan'[r].status] = "running"
        BY <3>1, StatusOfLife
      <4>2. scan'[r].parked = (scan[r].parked \/ "running" = "paused")
        BY <3>1
      <4>3. QED
        BY <3>1, <4>1, <4>2, LifeParked
    <3>3. Life(r)!CloudActs
      BY <2>1, <2>3, <3>2, StatusOfLife DEF Life!CloudActs, Life!Final
    <3>4. QED
      BY <3>3 DEF Life!LifeNext
  <2>4. CASE scan[r].status = "active" /\ scan' = [scan EXCEPT ![r].found = TRUE]
    <3>1. /\ scan'[r].status = scan[r].status
          /\ scan'[r].found = TRUE /\ scan'[r].parked = scan[r].parked
      BY <1>0, <2>4 DEF TypeOK
    <3>2. LifeOf(r)' = [LifeOf(r) EXCEPT !.found = TRUE]
      BY <3>1, LifeFound
    <3>3. Life(r)!CloudActs
      BY <2>1, <2>4, <3>2, StatusOfLife DEF Life!CloudActs
    <3>4. QED
      BY <3>3 DEF Life!LifeNext
  <2>5. QED
    BY <1>8, <2>2, <2>3, <2>4 DEF CloudMoves, Life!LifeNext
<1>9. QED
    BY <1>1, <1>2, <1>3, <1>4, <1>5, <1>6, <1>7, <1>8 DEF Next, Proceed

LEMMA InitLives ==
    ASSUME Init, NEW r \in Runs
    PROVE  ScanIsNew /\ Life(r)!LifeInit
    BY DEF Init, ScanIsNew, Resolved, AsLife, LifeOf, VerdictOf, Life!LifeInit

(* A run uses its scan as ScanLife promises and allows, for any number of  *)
(* runs (run, Scan.expect, Scan.stop).                                     *)
THEOREM UsesItsScan == Spec => UsesLife
<1>1. Init => ScanIsNew /\ \A r \in Runs : Life(r)!LifeInit
    BY InitLives DEF ScanIsNew
<1>2. IInv /\ ScanIsNew /\ [Next]_vars => ScanIsNew'
    BY ScanIsNewKept
<1>3. IInv /\ ScanIsNew /\ [Next]_vars =>
        [\A r \in Runs : Life(r)!LifeNext \/ UNCHANGED Life(r)!lifeVars]_vars
    BY StepLives
<1>4. QED
    BY <1>1, <1>2, <1>3, Invariance, PTL DEF Spec, UsesLife
=============================================================================
