------------------------ MODULE Configuration_proofs ------------------------
(***************************************************************************)
(* Configuration loads each field once and forgets a load that failed, for *)
(* any callers, any providers and any number of loads.                     *)
(***************************************************************************)
EXTENDS Configuration, TLAPS

(* A load is under way only while there is nothing to load it over.        *)
LoadsOnDemand == \A f \in Fields : promise[f] = "pending" => value[f] = None

(* While a load is under way none of its sources has ended the race, and   *)
(* one at least is still to come to a result.                              *)
Racing ==
    /\ \A f \in Fields : promise[f] = "pending" =>
          /\ \A s \in Sources(f) : result[f][s] \in {"pending", "nothing"}
          /\ \A s \in AllSources \ Sources(f) : result[f][s] = "none"
          /\ \E s \in Sources(f) : result[f][s] = "pending"
    /\ value["credentials"] = None => Providers # {}

IInv == TypeOK /\ LoadsOnDemand /\ FailuresForgotten /\ Racing

LEMMA InitKeeps == Init => IInv
BY MaxLoadsAssumption
   DEF Init, IInv, Racing, TypeOK, LoadsOnDemand, FailuresForgotten, Fields, AllSources,
       Given, None, Results

(* A call that finds a value, a promise, or neither.                       *)
LEMMA LoadKeeps ==
    ASSUME NEW c \in Callers, NEW f \in Fields, IInv, Load(c, f) PROVE IInv'
<1> USE DEF IInv
<1>1. CASE value[f] # None
  <2>1. TypeOK' /\ LoadsOnDemand' /\ FailuresForgotten'
    BY <1>1 DEF Load, Return, TypeOK, LoadsOnDemand, FailuresForgotten
  <2>2. UNCHANGED <<value, promise, result>>
    BY <1>1 DEF Load
  <2>3. QED
    BY <2>1, <2>2 DEF Racing
<1>2. CASE value[f] = None /\ ~NoPromise(f)
  <2>1. TypeOK' /\ LoadsOnDemand' /\ FailuresForgotten'
    BY <1>2 DEF Load, Return, Await, NoPromise, TypeOK, LoadsOnDemand, FailuresForgotten
  <2>2. UNCHANGED <<value, promise, result>>
    BY <1>2 DEF Load
  <2>3. QED
    BY <2>1, <2>2 DEF Racing
<1>3. CASE value[f] = None /\ NoPromise(f)
  <2>1. /\ loads[f] < MaxLoads /\ loads' = [loads EXCEPT ![f] = @ + 1]
        /\ RefusedAtOnce(c, f) \/ Begin(c, f)
        /\ awaits[c] = "none" /\ promise[f] = "none"
    BY <1>3 DEF Load, NoPromise
  <2>2. loads' \in [Fields -> 0..MaxLoads]
    BY <2>1, MaxLoadsAssumption DEF TypeOK
  <2>3. CASE RefusedAtOnce(c, f)
    <3>1. TypeOK'
      BY <2>1, <2>2, <2>3 DEF RefusedAtOnce, Return, TypeOK
    <3>2. LoadsOnDemand'
      BY <2>3 DEF RefusedAtOnce, TypeOK, LoadsOnDemand
    <3>3. FailuresForgotten'
      BY <2>3 DEF RefusedAtOnce, TypeOK, FailuresForgotten, Sources, AllSources, Fields
    <3>4. Racing'
      BY <2>3 DEF RefusedAtOnce, TypeOK, Racing
    <3>5. QED
      BY <3>1, <3>2, <3>3, <3>4
  <2>4. CASE Begin(c, f)
    <3>1. TypeOK'
      BY <2>1, <2>2, <2>4 DEF Begin, StorePromise, Await, TypeOK
    <3>2. LoadsOnDemand'
      BY <1>3, <2>4 DEF Begin, StorePromise, TypeOK, LoadsOnDemand
    <3>3. FailuresForgotten'
      BY <2>4 DEF Begin, StorePromise, TypeOK, FailuresForgotten
    <3>4. /\ result' = [result EXCEPT ![f] =
               [s \in AllSources |-> IF s \in Sources(f) THEN "pending" ELSE "none"]]
          /\ promise' = [promise EXCEPT ![f] = "pending"] /\ value' = value
      BY <2>4 DEF Begin, StorePromise
    <3>5. \E s \in Sources(f) : s \in AllSources
      BY <1>3 DEF Racing, Sources, AllSources, Fields
    <3>6. Racing'
      <4>1. ASSUME NEW g \in Fields \ {f}
            PROVE  promise'[g] = promise[g] /\ result'[g] = result[g]
        BY <3>4 DEF TypeOK
      <4>2. /\ \A s \in Sources(f) : s \in AllSources => result'[f][s] = "pending"
            /\ \A s \in AllSources \ Sources(f) : result'[f][s] = "none"
        BY <3>4 DEF TypeOK
      <4>3. Sources(f) \subseteq AllSources
        BY DEF Sources, AllSources
      <4>4. ASSUME NEW g \in Fields, promise'[g] = "pending"
            PROVE  /\ \A s \in Sources(g) : result'[g][s] \in {"pending", "nothing"}
                   /\ \A s \in AllSources \ Sources(g) : result'[g][s] = "none"
                   /\ \E s \in Sources(g) : result'[g][s] = "pending"
        <5>1. CASE g = f
          BY <5>1, <3>5, <4>2, <4>3
        <5>2. CASE g # f
          BY <5>2, <4>1, <4>4 DEF Racing
        <5>3. QED
          BY <5>1, <5>2
      <4>5. QED
        BY <3>4, <4>4 DEF Racing
    <3>7. QED
      BY <3>1, <3>2, <3>3, <3>6
  <2>5. QED
    BY <2>1, <2>3, <2>4
<1>4. QED
    BY <1>1, <1>2, <1>3

(* What a source that settles does to the field it is asked for.           *)
LEMMA SettleSteps ==
    ASSUME NEW f \in Fields, NEW s \in AllSources, NEW what \in Results,
           TypeOK, Settle(f, s, what)
    PROVE  \/ UNCHANGED <<value, promise, awaits, outcome>>
           \/ promise[f] = "pending" /\ Succeed(f, s)
           \/ promise[f] = "pending" /\ Fail(f)
BY DEF Settle, RaceOpen

(* What it does to the race: the source that wins or fails ends it, and so *)
(* does the last one that finds nothing; any other leaves a source to wait *)
(* for.                                                                    *)
LEMMA SettleRaces ==
    ASSUME NEW f \in Fields, NEW s \in AllSources, NEW what \in Results,
           TypeOK, Racing, Settle(f, s, what)
    PROVE  Racing'
<1>1. /\ result' = [result EXCEPT ![f] = [result[f] EXCEPT ![s] = what]]
      /\ result[f] \in [AllSources -> Results \cup {"pending", "none"}]
    BY DEF Settle, TypeOK
<1>2. /\ result'[f][s] = what
      /\ \A t \in AllSources \ {s} : result'[f][t] = result[f][t]
      /\ \A g \in Fields \ {f} : result'[g] = result[g]
    BY <1>1 DEF TypeOK
<1>3. ASSUME NEW g \in Fields, promise'[g] = "pending"
      PROVE  /\ \A t \in Sources(g) : result'[g][t] \in {"pending", "nothing"}
             /\ \A t \in AllSources \ Sources(g) : result'[g][t] = "none"
             /\ \E t \in Sources(g) : result'[g][t] = "pending"
  <2>1. promise[g] = "pending"
    BY <1>3, SettleSteps DEF Succeed, Fail, ForgetFailure, TypeOK
  <2>2. CASE g # f
    BY <2>1, <2>2, <1>2 DEF Racing
  <2>3. CASE g = f
    <3>1. what = "nothing" /\ ~AllEmpty(result'[f])
      BY <1>3, <2>1, <2>3
      DEF Settle, RaceOpen, Succeed, Fail, ForgetFailure, TypeOK, Results
    <3>2. /\ \A t \in Sources(f) : result'[f][t] \in {"pending", "nothing"}
          /\ \A t \in AllSources \ Sources(f) : result'[f][t] = "none"
      BY <2>1, <2>3, <3>1, <1>2 DEF Racing, Settle, Sources, AllSources
    <3>3. PICK t \in DOMAIN result'[f] : result'[f][t] \notin {"nothing", "none"}
      BY <3>1 DEF AllEmpty
    <3>4. t \in AllSources
      BY <3>3, <1>1 DEF TypeOK
    <3>5. QED
      BY <2>3, <3>2, <3>3, <3>4
  <2>4. QED
    BY <2>2, <2>3
<1>4. value'["credentials"] = None => value["credentials"] = None
    BY SettleSteps, ProvidersAssumption
    DEF Succeed, Fail, TypeOK, Fields, AllSources, None, Request
<1>5. QED
    BY <1>3, <1>4 DEF Racing

LEMMA SettleKeeps ==
    ASSUME NEW f \in Fields, NEW s \in AllSources, NEW what \in Results,
           IInv, Settle(f, s, what)
    PROVE  IInv'
<1> USE SettleRaces DEF IInv
<1>1. /\ result[f][s] = "pending" /\ loads' = loads
      /\ result' = [result EXCEPT ![f][s] = what]
    BY DEF Settle
<1>2. result' \in [Fields -> [AllSources -> Results \cup {"pending", "none"}]]
    BY <1>1 DEF TypeOK
<1>3. \A g \in Fields, t \in AllSources :
         result[g][t] = "none" => result'[g][t] = "none"
    BY <1>1 DEF TypeOK
<1>4. CASE UNCHANGED <<value, promise, awaits, outcome>>
  <2>1. TypeOK' /\ LoadsOnDemand'
    BY <1>1, <1>2, <1>4 DEF TypeOK, LoadsOnDemand
  <2>2. FailuresForgotten'
    BY <1>3, <1>4 DEF FailuresForgotten, Sources, AllSources
  <2>3. QED
    BY <2>1, <2>2
<1>5. CASE promise[f] = "pending" /\ Succeed(f, s)
  <2>1. TypeOK'
    BY <1>1, <1>2, <1>5 DEF Succeed, Resume, TypeOK
  <2>2. LoadsOnDemand'
    BY <1>5 DEF Succeed, TypeOK, LoadsOnDemand
  <2>3. FailuresForgotten'
    BY <1>3, <1>5 DEF Succeed, TypeOK, FailuresForgotten, Sources, AllSources
  <2>4. QED
    BY <2>1, <2>2, <2>3
<1>6. CASE promise[f] = "pending" /\ Fail(f)
  <2>1. TypeOK'
    BY <1>1, <1>2, <1>6 DEF Fail, ForgetFailure, Resume, TypeOK
  <2>2. LoadsOnDemand'
    BY <1>6 DEF Fail, ForgetFailure, TypeOK, LoadsOnDemand
  <2>3. FailuresForgotten'
    BY <1>3, <1>6 DEF Fail, ForgetFailure, TypeOK, FailuresForgotten, Sources, AllSources
  <2>4. QED
    BY <2>1, <2>2, <2>3
<1>7. QED
    BY <1>4, <1>5, <1>6, SettleSteps

LEMMA NextKeeps == IInv /\ [Next]_vars => IInv'
<1> SUFFICES ASSUME IInv, [Next]_vars PROVE IInv'
    OBVIOUS
<1>1. CASE \E f \in Fields, c \in Callers : Load(c, f)
    BY <1>1, LoadKeeps
<1>2. CASE \E f \in Fields, s \in AllSources : SettleSomehow(f, s)
    BY <1>2, SettleKeeps DEF SettleSomehow
<1>3. CASE UNCHANGED vars
    BY <1>3 DEF vars, IInv, TypeOK, LoadsOnDemand, FailuresForgotten, Racing
<1>4. QED
    BY <1>1, <1>2, <1>3 DEF Next

(* The inductive invariant: a load is under way only while the field holds *)
(* no value, and a promise that stays rejected never asked a source        *)
(* (loadCredentials, fetchProjectId).                                      *)
THEOREM Invariance == Spec => []IInv
<1>1. QED
    BY InitKeeps, NextKeeps, PTL DEF Spec

(* Every variable keeps its type, and a caller awaits only a load that is  *)
(* under way (loadCredentials, fetchProjectId).                            *)
THEOREM Types == Spec => []TypeOK
<1>1. IInv => TypeOK
    BY DEF IInv
<1>2. QED
    BY <1>1, Invariance, PTL

(* A caller that waits waits for a source that is still to come to a       *)
(* result: no mixture of values, rejections and nothing from the others    *)
(* leaves it waiting for a race that is over (first, loadCredentials,      *)
(* fetchProjectId).                                                        *)
THEOREM NobodyWaitsInVain ==
    Spec => [](\A c \in Callers : awaits[c] # "none" =>
                  \E s \in Sources(awaits[c]) : result[awaits[c]][s] = "pending")
<1>1. IInv => \A c \in Callers : awaits[c] # "none" =>
                 \E s \in Sources(awaits[c]) : result[awaits[c]][s] = "pending"
    BY DEF IInv, TypeOK, Racing
<1>2. QED
    BY <1>1, Invariance, PTL

(* A load that asked its sources and failed is forgotten (the catch        *)
(* clauses).                                                               *)
THEOREM Forgets == Spec => []FailuresForgotten
<1>1. IInv => FailuresForgotten
    BY DEF IInv
<1>2. QED
    BY <1>1, Invariance, PTL

(* A field is loaded once and what was loaded stays (first,                *)
(* loadCredentials, fetchProjectId).                                       *)
THEOREM OnlyOnce == Spec => LoadedOnce
<1> DEFINE Once ==
      \A f \in Fields :
         /\ value[f] # None => value'[f] = value[f]
         /\ promise[f] = "pending" \/ value[f] # None => loads'[f] = loads[f]
<1>1. ASSUME IInv, [Next]_vars PROVE [Once]_vars
  <2>1. ASSUME NEW c \in Callers, NEW f \in Fields, Load(c, f) PROVE Once
    <3>1. value' = value
      BY <2>1 DEF Load, RefusedAtOnce, Begin
    <3>2. \/ loads' = loads
          \/ /\ value[f] = None /\ promise[f] = "none"
             /\ loads' = [loads EXCEPT ![f] = @ + 1]
      BY <2>1 DEF Load, NoPromise
    <3>3. QED
      BY <1>1, <3>1, <3>2 DEF IInv, TypeOK
  <2>2. ASSUME NEW f \in Fields, NEW s \in AllSources, NEW what \in Results,
               Settle(f, s, what)
        PROVE  Once
    <3>1. loads' = loads
      BY <2>2 DEF Settle
    <3>2. \/ value' = value
          \/ promise[f] = "pending" /\ value' = [value EXCEPT ![f] = s]
      BY <1>1, <2>2, SettleSteps DEF IInv, Succeed, Fail
    <3>3. promise[f] = "pending" => value[f] = None
      BY <1>1 DEF IInv, LoadsOnDemand
    <3>4. QED
      BY <1>1, <3>1, <3>2, <3>3 DEF IInv, TypeOK
  <2>3. QED
    BY <1>1, <2>1, <2>2 DEF Next, SettleSomehow
<1>2. QED
    BY <1>1, Invariance, PTL DEF Spec, LoadedOnce
=============================================================================
