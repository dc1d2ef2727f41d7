----------------------------- MODULE Scan_proofs -----------------------------
(***************************************************************************)
(* What a Scan object remembers and says of its scan is true, for any      *)
(* number of callers and in whatever order answers arrive.                 *)
(***************************************************************************)
EXTENDS Scan, TLAPS

(* An answer of the cloud, which may be old: what is final in it is so     *)
(* still, and what it saw has happened.                                    *)
Happened(seen) ==
    /\ seen.status \in Done => cloud.status = seen.status
    /\ seen.found => cloud.found
    /\ seen.status = "paused" => cloud.parked

IInv ==
    /\ TypeOK
    /\ cloud.status = "paused" => cloud.parked
    /\ Happened(state)
    /\ \A c \in Callers : Happened(answer[c])
    /\ VerdictIsTrue

(* A verdict the scan in the cloud bears out. *)
True(verdict, scan) ==
    /\ verdict = "scanAborted" => scan.status = "failed"
    /\ verdict = "resolved" => scan.status = "done" \/ scan.found \/ scan.parked

(* The life of the scan only goes on. *)
CloudGoesOn ==
    /\ cloud' \in [status : Statuses, found : BOOLEAN, parked : BOOLEAN, deleted : BOOLEAN]
    /\ cloud.status \in Done => cloud'.status = cloud.status
    /\ cloud.found => cloud'.found
    /\ cloud.parked => cloud'.parked
    /\ cloud'.status = "paused" => cloud'.parked

LEMMA GoesOnKeeps ==
    ASSUME IInv, TypeOK', CloudGoesOn, UNCHANGED answer,
           state' = state,
           \A c \in Callers : outcome'[c] = outcome[c] \/ True(outcome'[c], cloud')
    PROVE  IInv'
<1>1. Happened(state)' /\ \A c \in Callers : Happened(answer[c])'
    BY DEF IInv, CloudGoesOn, Happened
<1>2. VerdictIsTrue'
  <2> SUFFICES ASSUME NEW c \in Callers PROVE True(outcome'[c], cloud')
    BY DEF VerdictIsTrue, True
  <2>1. True(outcome[c], cloud)
    BY DEF IInv, VerdictIsTrue, True
  <2>2. True(outcome[c], cloud')
    BY <2>1 DEF True, CloudGoesOn, Done
  <2>3. QED
    BY <2>2
<1>3. QED
    BY <1>1, <1>2 DEF IInv, CloudGoesOn

(* A call ends with a verdict that what it has seen bears out. *)
LEMMA RefreshedIsTrue ==
    ASSUME IInv, NEW c \in Callers, NEW now \in States, Happened(now),
           Refreshed(c, now), op[c] # "none"
    PROVE  /\ op' \in [Callers -> Operations \cup {"none"}]
           /\ pc' \in [Callers -> {"idle", "sleep", "get", "answered", "call"}]
           /\ failFast' \in [Callers -> BOOLEAN]
           /\ aborted' \in [Callers -> BOOLEAN]
           /\ outcome' \in [Callers -> Outcomes]
           /\ \A d \in Callers : op'[d] = "none" <=> pc'[d] = "idle"
           /\ \A d \in Callers : aborted'[d] => op'[d] = "expect"
           /\ \A d \in Callers : outcome'[d] = outcome[d] \/ True(outcome'[d], cloud)
<1>1. CASE \E where \in {"sleep", "call"} : Go(c, where)
    BY <1>1 DEF IInv, TypeOK, Go
<1>2. CASE \E how \in Outcomes : Return(c, how) /\ (how = outcome[c] \/ True(how, cloud))
    BY <1>2 DEF IInv, TypeOK, Return
<1>3. \/ \E where \in {"sleep", "call"} : Go(c, where)
      \/ \E how \in Outcomes : Return(c, how) /\ (how = outcome[c] \/ True(how, cloud))
  <2>1. outcome[c] \in Outcomes /\ op[c] \in Operations
    BY DEF IInv, TypeOK
  <2>2. CASE op[c] = "expect"
    <3>1. ExpectGoesOn(c, now)
      BY <2>2 DEF Refreshed
    <3>2. Verdict(now.status, aborted[c]) \in Outcomes
      BY DEF Verdict, Outcomes
    <3>3. ASSUME Return(c, Verdict(now.status, aborted[c])),
                 \/ now.status \in Done \/ aborted[c] \/ now.found
                 \/ now.status \notin Active
          PROVE  True(Verdict(now.status, aborted[c]), cloud)
      BY <3>3 DEF Happened, Verdict, True, Done, Active, States, Statuses
    <3>4. QED
      BY <3>1, <3>2, <3>3 DEF ExpectGoesOn
  <2>3. CASE op[c] # "expect"
    BY <2>1, <2>3 DEF Refreshed
  <2>4. QED
    BY <2>2, <2>3
<1>4. QED
    BY <1>1, <1>2, <1>3

LEMMA CallExpectKeeps ==
    ASSUME IInv, NEW c \in Callers, NEW ff \in BOOLEAN, CallExpect(c, ff) PROVE IInv'
<1>1. Verdict(state.status, FALSE) \in Outcomes
    BY DEF Verdict, Outcomes
<1>2. state.status \notin Active => True(Verdict(state.status, FALSE), cloud)
    BY DEF IInv, TypeOK, Happened, Verdict, True, Done, Active, States, Statuses
<1>3. TypeOK'
  <2>1. CASE state.status \in Active
    BY <2>1 DEF IInv, TypeOK, CallExpect, Operations, Outcomes
  <2>2. CASE state.status \notin Active
    BY <1>1, <2>2 DEF IInv, TypeOK, CallExpect
  <2>3. QED
    BY <2>1, <2>2
<1>4. \A d \in Callers : outcome'[d] \in {outcome[d], "none"} \/ True(outcome'[d], cloud)
    BY <1>2 DEF IInv, TypeOK, CallExpect
<1>5. \A d \in Callers : outcome'[d] = outcome[d] \/ True(outcome'[d], cloud')
    BY <1>4 DEF True, CallExpect
<1>6. CloudGoesOn
    BY DEF IInv, TypeOK, CallExpect, CloudGoesOn
<1>7. QED
    BY <1>3, <1>5, <1>6, GoesOnKeeps DEF CallExpect

LEMMA CallOtherKeeps ==
    ASSUME IInv, NEW c \in Callers, NEW operation \in Operations \ {"expect"},
           CallOther(c, operation)
    PROVE  IInv'
<1>1. TypeOK'
    BY DEF IInv, TypeOK, CallOther, Operations
<1>2. CloudGoesOn
    BY DEF IInv, TypeOK, CallOther, CloudGoesOn
<1>3. QED
    BY <1>1, <1>2, GoesOnKeeps DEF CallOther

LEMMA WakeKeeps == ASSUME IInv, NEW c \in Callers, Wake(c) PROVE IInv'
<1>1. op[c] # "none" /\ state \in States /\ Happened(state)
    BY DEF IInv, TypeOK, Wake
<1>2. CloudGoesOn
    BY DEF IInv, TypeOK, Wake, CloudGoesOn
<1>3. CASE Refreshed(c, state)
  <2>1. TypeOK'
    BY <1>1, <1>3, RefreshedIsTrue DEF IInv, TypeOK, Wake
  <2>2. \A d \in Callers : outcome'[d] = outcome[d] \/ True(outcome'[d], cloud')
    BY <1>1, <1>3, RefreshedIsTrue DEF True, Wake
  <2>3. QED
    BY <1>2, <2>1, <2>2, GoesOnKeeps DEF Wake
<1>4. CASE Go(c, "get")
  <2>1. TypeOK'
    BY <1>1, <1>4 DEF IInv, TypeOK, Wake, Go
  <2>2. QED
    BY <1>2, <1>4, <2>1, GoesOnKeeps DEF Wake, Go
<1>5. QED
    BY <1>3, <1>4 DEF Wake

LEMMA AnswerKeeps == ASSUME IInv, NEW c \in Callers, Answer(c) PROVE IInv'
<1> DEFINE seen == [status |-> cloud.status, found |-> cloud.found]
<1>1. seen \in States /\ Happened(seen)
    BY DEF IInv, TypeOK, States, Happened
<1>2. TypeOK'
    BY <1>1 DEF IInv, TypeOK, Answer, Go
<1>3. \A d \in Callers : Happened(answer'[d])
    BY <1>1 DEF IInv, TypeOK, Answer
<1>4. QED
    BY <1>2, <1>3 DEF IInv, Happened, VerdictIsTrue, Answer, Go

LEMMA ReceiveKeeps == ASSUME IInv, NEW c \in Callers, Receive(c) PROVE IInv'
<1>1. op[c] # "none" /\ answer[c] \in States /\ Happened(answer[c])
    BY DEF IInv, TypeOK, Receive
<1>2. Pending \in States /\ Happened(Pending)
    BY DEF Pending, States, Statuses, Happened, Done
<1>3. TypeOK'
    BY <1>1, <1>2, RefreshedIsTrue DEF IInv, TypeOK, Receive
<1>4. Happened(state') /\ \A d \in Callers : Happened(answer'[d])
    BY <1>1, <1>2 DEF IInv, TypeOK, Receive
<1>5. VerdictIsTrue'
    BY <1>1, RefreshedIsTrue DEF IInv, VerdictIsTrue, True, Receive
<1>6. QED
    BY <1>3, <1>4, <1>5 DEF IInv, Happened, Receive

LEMMA EndKeeps ==
    ASSUME IInv, NEW c \in Callers, GetFails(c) \/ CallReturns(c) PROVE IInv'
<1>1. CloudGoesOn
  <2>1. cloud' = cloud \/ (cloud.status \notin Done /\ cloud' = [cloud EXCEPT !.status = "failed"])
        \/ cloud' = [cloud EXCEPT !.deleted = TRUE]
    BY DEF GetFails, CallReturns
  <2>2. QED
    BY <2>1 DEF IInv, TypeOK, CloudGoesOn, Statuses
<1>2. \E how \in Outcomes : Return(c, how) /\ how \in {outcome[c], "failed"}
    BY DEF IInv, TypeOK, GetFails, CallReturns, Outcomes
<1>3. TypeOK'
    BY <1>1, <1>2 DEF IInv, TypeOK, Return, GetFails, CallReturns, KeepState, CloudGoesOn
<1>4. \A d \in Callers : outcome'[d] \in {outcome[d], "failed"}
    BY <1>2 DEF IInv, TypeOK, Return
<1>5. \A d \in Callers : outcome'[d] = outcome[d] \/ True(outcome'[d], cloud')
    BY <1>4 DEF True
<1>6. state' = state /\ answer' = answer
    BY DEF GetFails, CallReturns, KeepState
<1>7. QED
    BY <1>1, <1>3, <1>5, <1>6, GoesOnKeeps

LEMMA AbortKeeps == ASSUME IInv, NEW c \in Callers, Abort(c) PROVE IInv'
<1>1. TypeOK'
    BY DEF IInv, TypeOK, Abort
<1>2. CloudGoesOn
    BY DEF IInv, TypeOK, Abort, CloudGoesOn
<1>3. QED
    BY <1>1, <1>2, GoesOnKeeps DEF Abort

LEMMA CloudKeeps == ASSUME IInv, CloudMoves PROVE IInv'
<1>1. CloudGoesOn
  <2>1. CASE \E s \in CloudSuccessors(cloud.status) :
                cloud' = [cloud EXCEPT !.status = s, !.parked = @ \/ s = "paused"]
    <3>1. PICK s \in CloudSuccessors(cloud.status) :
                cloud' = [cloud EXCEPT !.status = s, !.parked = @ \/ s = "paused"]
      BY <2>1
    <3>2. s \in Statuses /\ cloud.status \notin Done
      BY <3>1 DEF CloudSuccessors, Statuses, Done
    <3>3. QED
      BY <3>1, <3>2 DEF IInv, TypeOK, CloudGoesOn
  <2>2. CASE cloud' = [cloud EXCEPT !.found = TRUE]
    BY <2>2 DEF IInv, TypeOK, CloudGoesOn
  <2>3. QED
    BY <2>1, <2>2 DEF CloudMoves
<1>2. TypeOK'
    BY <1>1 DEF IInv, TypeOK, CloudMoves, CloudGoesOn
<1>3. QED
    BY <1>1, <1>2, GoesOnKeeps DEF CloudMoves

(* The inductive invariant: what was seen of the scan has happened, and    *)
(* the verdicts follow from it (refreshState, expect, assert).             *)
THEOREM Invariance == Spec => []IInv
<1>1. Init => IInv
    BY DEF Init, IInv, TypeOK, States, Statuses, Operations, Outcomes, Pending, Happened,
           Done, VerdictIsTrue
<1>2. IInv /\ [Next]_vars => IInv'
  <2> SUFFICES ASSUME IInv, [Next]_vars PROVE IInv'
    OBVIOUS
  <2>1. CASE Next
    BY <2>1, CloudKeeps, CallExpectKeeps, CallOtherKeeps, WakeKeeps, AnswerKeeps,
       ReceiveKeeps, EndKeeps, AbortKeeps
    DEF Next, GetSettles
  <2>2. CASE UNCHANGED vars
    BY <2>2 DEF vars, IInv, TypeOK, Happened, VerdictIsTrue
  <2>3. QED
    BY <2>1, <2>2
<1>3. QED
    BY <1>1, <1>2, PTL DEF Spec

(* Every variable keeps its type, and a fired signal belongs to an         *)
(* expect() under way (expect).                                            *)
THEOREM Types == Spec => []TypeOK
<1>1. IInv => TypeOK
    BY DEF IInv
<1>2. QED
    BY <1>1, Invariance, PTL

(* A final state that is remembered is the scan's (refreshState).          *)
THEOREM FinalIsTrue == Spec => []FinalStateIsTrue
<1>1. IInv => FinalStateIsTrue
    BY DEF IInv, Happened, FinalStateIsTrue
<1>2. QED
    BY <1>1, Invariance, PTL

(* The verdicts of all callers are true (expect, assert).                  *)
THEOREM VerdictsAreTrue == Spec => []VerdictIsTrue
<1>1. IInv => VerdictIsTrue
    BY DEF IInv
<1>2. QED
    BY <1>1, Invariance, PTL
-----------------------------------------------------------------------------
(* A caller that gets a verdict and changes nothing else of the scan.      *)
LEMMA VerdictConcludes ==
    ASSUME IInv, IInv', NEW c \in Callers, NEW v, UNCHANGED cloud,
           outcome' = [outcome EXCEPT ![c] = v]
    PROVE  Life!Concludes
<1>1. outcome'[c] = v /\ v \in Outcomes
    BY DEF IInv, TypeOK
<1>2. Life!BornOut(v)
    BY <1>1 DEF IInv, VerdictIsTrue, Life!BornOut
<1>3. QED
    BY <1>1, <1>2 DEF Life!Concludes, Life!Verdicts, Outcomes

LEMMA RefreshedConcludes ==
    ASSUME IInv, IInv', NEW c \in Callers, NEW now, UNCHANGED cloud, Refreshed(c, now)
    PROVE  Life!Concludes \/ UNCHANGED Life!lifeVars
<1>1. \/ \E where \in {"sleep", "call"} : Go(c, where)
      \/ \E how : Return(c, how)
    BY DEF Refreshed, ExpectGoesOn
<1>2. CASE \E where \in {"sleep", "call"} : Go(c, where)
    BY <1>2 DEF Go, Life!lifeVars
<1>3. CASE \E how : Return(c, how)
    BY <1>3, VerdictConcludes DEF Return
<1>4. QED
    BY <1>1, <1>2, <1>3

(* dispose() calls only for a scan it has seen out of an active status.    *)
Calls ==
    \A c \in Callers :
        pc[c] = "call" /\ op[c] = "dispose" => cloud.status \in Done \/ cloud.parked

LEMMA CallsKept == IInv /\ IInv' /\ Calls /\ [Next]_vars => Calls'
<1> SUFFICES ASSUME IInv, IInv', Calls, [Next]_vars PROVE Calls'
    OBVIOUS
<1>1. cloud.status \in Done \/ cloud.parked => cloud'.status \in Done \/ cloud'.parked
  <2>1. CASE UNCHANGED cloud
    BY <2>1
  <2>2. CASE CloudMoves
    BY <2>2 DEF IInv, TypeOK, CloudMoves, CloudSuccessors, Done
  <2>3. CASE \E c \in Callers : CallReturns(c)
    BY <2>3 DEF IInv, TypeOK, CallReturns, Done
  <2>4. QED
    BY <2>1, <2>2, <2>3
    DEF Next, vars, CallExpect, CallOther, Wake, GetSettles, Answer, GetFails, Receive, Abort
<1> SUFFICES ASSUME NEW d \in Callers, pc'[d] = "call", op'[d] = "dispose",
                    ~(pc[d] = "call" /\ op[d] = "dispose")
             PROVE  cloud'.status \in Done \/ cloud'.parked
    BY <1>1 DEF Calls
<1>2. CASE UNCHANGED <<op, pc>>
    BY <1>2
<1>3. CASE \E operation \in Operations : CallOther(d, operation)
    BY <1>3 DEF IInv, TypeOK, Happened, CallOther
<1>4. ASSUME NEW now \in States, Happened(now), Refreshed(d, now), op[d] # "none"
      PROVE  cloud.status \in Done \/ cloud.parked
  <2>1. op[d] = "dispose" /\ MayDispose(now.status)
    BY <1>4 DEF IInv, TypeOK, Refreshed, ExpectGoesOn, Go, Return
  <2>2. QED
    BY <1>4, <2>1 DEF MayDispose, Active, Happened, Done, States, Statuses
<1>5. CASE Wake(d)
  <2>1. state \in States /\ Happened(state) /\ op[d] # "none"
    BY <1>5 DEF IInv, TypeOK, Wake
  <2>2. ~Go(d, "get")
    BY DEF IInv, TypeOK, Go
  <2>3. QED
    BY <1>1, <1>4, <1>5, <2>1, <2>2 DEF Wake
<1>6. CASE Receive(d)
  <2>1. answer[d] \in States /\ Happened(answer[d]) /\ op[d] # "none"
    BY <1>6 DEF IInv, TypeOK, Receive
  <2>2. QED
    BY <1>1, <1>4, <1>6, <2>1 DEF Receive
<1>7. CASE Answer(d) \/ GetFails(d) \/ CallReturns(d) \/ \E ff \in BOOLEAN : CallExpect(d, ff)
  <2>1. CASE Answer(d)
    BY <2>1 DEF IInv, TypeOK, Answer, Go
  <2>2. CASE GetFails(d) \/ CallReturns(d)
    BY <2>2 DEF IInv, TypeOK, GetFails, CallReturns, Return
  <2>3. CASE \E ff \in BOOLEAN : CallExpect(d, ff)
    <3>1. pc[d] = "idle" /\ (pc' = [pc EXCEPT ![d] = "sleep"] \/ UNCHANGED <<op, pc>>)
      BY <2>3 DEF CallExpect
    <3>2. QED
      BY <3>1 DEF IInv, TypeOK
  <2>4. QED
    BY <1>7, <2>1, <2>2, <2>3
<1>8. CASE \E c \in Callers \ {d} :
              \/ \E ff \in BOOLEAN : CallExpect(c, ff)
              \/ \E operation \in Operations : CallOther(c, operation)
              \/ Wake(c) \/ GetSettles(c) \/ Receive(c) \/ CallReturns(c)
  <2>1. PICK c \in Callers \ {d} :
              \/ \E ff \in BOOLEAN : CallExpect(c, ff)
              \/ \E operation \in Operations : CallOther(c, operation)
              \/ Wake(c) \/ GetSettles(c) \/ Receive(c) \/ CallReturns(c)
    BY <1>8
  <2>2. ASSUME NEW now, Refreshed(c, now) PROVE pc'[d] = pc[d] /\ op'[d] = op[d]
    BY <2>2 DEF IInv, TypeOK, Refreshed, ExpectGoesOn, Go, Return
  <2>3. CASE \E ff \in BOOLEAN : CallExpect(c, ff)
    <3>1. \/ pc' = [pc EXCEPT ![c] = "sleep"] /\ op' = [op EXCEPT ![c] = "expect"]
          \/ UNCHANGED <<op, pc>>
      BY <2>3 DEF CallExpect
    <3>2. QED
      BY <3>1 DEF IInv, TypeOK
  <2>4. CASE ~\E ff \in BOOLEAN : CallExpect(c, ff)
    BY <2>1, <2>2, <2>4
    DEF IInv, TypeOK, CallOther, Wake, GetSettles, Answer, GetFails, Receive,
        CallReturns, Go, Return
  <2>5. QED
    BY <2>3, <2>4
<1>9. QED
    BY <1>2, <1>3, <1>5, <1>6, <1>7, <1>8 DEF Next, vars, GetSettles, CloudMoves, Abort

LEMMA StepLives ==
    ASSUME IInv, IInv', Calls, [Next]_vars
    PROVE  [Life!LifeNext]_Life!lifeVars
<1>1. CASE CloudMoves
  <2>1. CASE \E s \in CloudSuccessors(cloud.status) :
                cloud' = [cloud EXCEPT !.status = s, !.parked = @ \/ s = "paused"]
    <3>1. cloud.status \notin Life!Final
      BY <2>1 DEF CloudSuccessors, Life!Final
    <3>2. CloudSuccessors(cloud.status) \subseteq Life!Final \cup {"running", "paused"}
      BY DEF CloudSuccessors, Life!Final, Done
    <3>3. QED
      BY <1>1, <2>1, <3>1, <3>2 DEF CloudMoves, Life!CloudActs, Life!LifeNext
  <2>2. CASE cloud.status = "running" /\ cloud' = [cloud EXCEPT !.found = TRUE]
    BY <1>1, <2>2 DEF CloudMoves, Life!CloudActs, Life!LifeNext
  <2>3. QED
    BY <1>1, <2>1, <2>2 DEF CloudMoves
<1>2. CASE \E c \in Callers : CallReturns(c)
  <2>1. PICK c \in Callers : CallReturns(c)
    BY <1>2
  <2>2. outcome' = outcome
    BY <2>1 DEF IInv, TypeOK, CallReturns, Return
  <2>3. CASE op[c] = "stop" /\ cloud.status \notin Done /\ ~cloud.deleted
             /\ cloud' = [cloud EXCEPT !.status = "failed"]
    BY <2>2, <2>3 DEF Life!StopsScan, Life!LifeNext, Life!Final, Done
  <2>4. CASE op[c] = "dispose" /\ cloud' = [cloud EXCEPT !.deleted = TRUE]
    BY <2>1, <2>2, <2>4
    DEF Calls, CallReturns, Life!DeletesScan, Life!Disposable, Life!LifeNext, Life!Final, Done
  <2>5. QED
    BY <2>1, <2>2, <2>3, <2>4 DEF CallReturns, Life!lifeVars
<1>3. CASE \E c \in Callers, ff \in BOOLEAN : CallExpect(c, ff)
  <2>1. PICK c \in Callers, ff \in BOOLEAN : CallExpect(c, ff)
    BY <1>3
  <2>2. UNCHANGED cloud /\ \E v : outcome' = [outcome EXCEPT ![c] = v]
    BY <2>1 DEF CallExpect
  <2>3. QED
    BY <2>2, VerdictConcludes DEF Life!LifeNext
<1>4. CASE \E c \in Callers : Wake(c) \/ Receive(c)
  <2>1. PICK c \in Callers : Wake(c) \/ Receive(c)
    BY <1>4
  <2>2. UNCHANGED cloud /\ (Go(c, "get") \/ \E now : Refreshed(c, now))
    BY <2>1 DEF Wake, Receive
  <2>3. CASE Go(c, "get")
    BY <2>2, <2>3 DEF Go, Life!lifeVars
  <2>4. QED
    BY <2>2, <2>3, RefreshedConcludes DEF Life!LifeNext
<1>5. CASE \E c \in Callers : GetFails(c)
  <2>1. PICK c \in Callers : GetFails(c)
    BY <1>5
  <2>2. UNCHANGED cloud /\ \E v : outcome' = [outcome EXCEPT ![c] = v]
    BY <2>1 DEF GetFails, Return
  <2>3. QED
    BY <2>2, VerdictConcludes DEF Life!LifeNext
<1>6. CASE \/ UNCHANGED vars
           \/ \E c \in Callers : \/ Answer(c) \/ Abort(c)
                                 \/ \E operation \in Operations : CallOther(c, operation)
    BY <1>6 DEF vars, Answer, Go, Abort, CallOther, Life!lifeVars
<1>7. QED
    BY <1>1, <1>2, <1>3, <1>4, <1>5, <1>6 DEF Next, GetSettles

(* Scan implements what its callers rely on: nothing is deleted that was   *)
(* never done nor parked, and verdicts are borne out (dispose, stop,       *)
(* expect, assert).                                                        *)
THEOREM Refinement == Spec => ImplementsLife
<1>1. Init => Calls /\ Life!LifeInit
    BY DEF Init, Calls, Life!LifeInit
<1>2. QED
    BY <1>1, Invariance, CallsKept, StepLives, PTL
    DEF Spec, ImplementsLife, Life!LifeSpec

(* Whatever the cloud makes of the scan later, a verdict stays borne out   *)
(* and a deleted scan was one that may be deleted: proved of ScanLife      *)
(* alone, and so of every module that implements it (assert, dispose).     *)
LEMMA LifeIsKept ==
    Life!LifeSpec => [](Life!LifeTypeOK /\ Life!Kept)
<1> USE DEF Life!LifeTypeOK, Life!Kept, Life!Final, Life!Verdicts, Life!Disposable,
            Life!BornOut
<1>1. Life!LifeInit => Life!LifeTypeOK /\ Life!Kept
    BY DEF Life!LifeInit
<1>2. ASSUME Life!LifeTypeOK, Life!Kept, [Life!LifeNext]_(Life!lifeVars)
      PROVE  (Life!LifeTypeOK /\ Life!Kept)'
  <2>1. CASE Life!CloudActs
    BY <1>2, <2>1 DEF Life!CloudActs
  <2>2. CASE Life!StopsScan
    BY <1>2, <2>2 DEF Life!StopsScan
  <2>3. CASE Life!DeletesScan
    BY <1>2, <2>3 DEF Life!DeletesScan
  <2>4. CASE Life!Concludes
    BY <1>2, <2>4 DEF Life!Concludes
  <2>5. CASE UNCHANGED Life!lifeVars
    BY <1>2, <2>5 DEF Life!lifeVars
  <2>6. QED
    BY <1>2, <2>1, <2>2, <2>3, <2>4, <2>5 DEF Life!LifeNext
<1>3. QED
    BY <1>1, <1>2, PTL DEF Life!LifeSpec

(* A scan that was deleted was over or had been parked, although dispose() *)
(* decides on what it has been told a while ago (dispose, refreshState).   *)
THEOREM DeletesOnlyOver ==
    Spec => [](cloud.deleted => cloud.status \in Done \/ cloud.parked)
<1>1. Life!Kept => (cloud.deleted => cloud.status \in Done \/ cloud.parked)
    BY DEF Life!Kept, Life!Disposable, Life!Final, Done
<1>2. QED
    BY <1>1, Refinement, LifeIsKept, PTL DEF ImplementsLife
=============================================================================
