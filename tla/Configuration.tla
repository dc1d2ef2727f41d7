---------------------------- MODULE Configuration ----------------------------
(***************************************************************************)
(* What a Configuration (packages/core/src/configuration/Configuration.ts) *)
(* loads at run time, the credentials and the id of the default project,   *)
(* for callers that may overlap.                                           *)
(*                                                                         *)
(* Both are loaded the same way: the promise of the load under way is kept *)
(* in a field and shared.  The sources of the credentials are the          *)
(* credential providers, raced by first(); the project has one source, the *)
(* request of getDefaultProject().                                         *)
(***************************************************************************)
EXTENDS Integers

CONSTANTS
    Callers,        \* asynchronous callers of loadCredentials() and fetchProjectId()
    Providers,      \* credentialProviders, numbered in their order
    MaxLoads        \* bound: how often each of the two is loaded

ASSUME ProvidersAssumption == Providers \subseteq Nat \ {0}
ASSUME MaxLoadsAssumption == MaxLoads \in Nat

VARIABLES
    value,      \* _credentials and _projectId: the source that supplied them
    promise,    \* _loadCredentialsPromise and _fetchProjectIdPromise
    result,     \* what the sources of the latest load have come to
    loads,      \* loads begun
    awaits,     \* the field whose promise a caller awaits
    outcome     \* how the caller's last call ended

vars == <<value, promise, result, loads, awaits, outcome>>

Fields == {"credentials", "project"}

(* What the options of the constructor gave, and nothing. *)
Given == 0
None == -1

Request == 1
Sources(f) == IF f = "credentials" THEN Providers ELSE {Request}
AllSources == Providers \cup {Request}

(* "invalid": a token the Credentials constructor does not recognise. *)
Results == {"found", "nothing", "invalid", "rejected"}

TypeOK ==
    /\ value \in [Fields -> AllSources \cup {Given, None}]
    /\ promise \in [Fields -> {"none", "pending", "fulfilled", "rejected"}]
    /\ result \in [Fields -> [AllSources -> Results \cup {"pending", "none"}]]
    /\ loads \in [Fields -> 0..MaxLoads]
    /\ awaits \in [Callers -> Fields \cup {"none"}]
    /\ outcome \in [Callers -> {"none", "loaded", "failed"}]
    /\ \A c \in Callers : awaits[c] # "none" => promise[awaits[c]] = "pending"

(* The constructor wants credentials or a provider of them. *)
Init ==
    /\ value \in [Fields -> {Given, None}]
    /\ value["credentials"] = None => Providers # {}
    /\ promise = [f \in Fields |-> "none"]
    /\ result = [f \in Fields |-> [s \in AllSources |-> "none"]]
    /\ loads = [f \in Fields |-> 0]
    /\ awaits = [c \in Callers |-> "none"]
    /\ outcome = [c \in Callers |-> "none"]

Return(c, how) ==
    /\ outcome' = [outcome EXCEPT ![c] = how]
    /\ UNCHANGED awaits

Await(c, f) ==
    /\ awaits' = [awaits EXCEPT ![c] = f]
    /\ outcome' = [outcome EXCEPT ![c] = "none"]
-----------------------------------------------------------------------------
(* A load begins when the field holds no promise.  The sources may refuse  *)
(* at once: the API client wants credentials when it is resolved, a        *)
(* provider may throw.                                                     *)
NoPromise(f) == promise[f] = "none"

(* The catch clause has already run when the promise is stored. *)
RefusedAtOnce(c, f) ==
    /\ f = "project" => value["credentials"] = None
    /\ promise' = [promise EXCEPT ![f] = "rejected"]
    /\ result' = [result EXCEPT ![f] = [s \in AllSources |-> "none"]]
    /\ Return(c, "failed")
    /\ UNCHANGED value

StorePromise(f) == promise' = [promise EXCEPT ![f] = "pending"]

Begin(c, f) ==
    /\ f = "project" => value["credentials"] # None
    /\ StorePromise(f)
    /\ result' = [result EXCEPT ![f] =
                    [s \in AllSources |-> IF s \in Sources(f) THEN "pending" ELSE "none"]]
    /\ Await(c, f)
    /\ UNCHANGED value

(* loadCredentials() and fetchProjectId(). *)
Load(c, f) ==
    /\ awaits[c] = "none"
    /\ \/ /\ value[f] # None
          /\ Return(c, "loaded")
          /\ UNCHANGED <<value, promise, result, loads>>
       \/ /\ value[f] = None /\ NoPromise(f) /\ loads[f] < MaxLoads
          /\ loads' = [loads EXCEPT ![f] = @ + 1]
          /\ RefusedAtOnce(c, f) \/ Begin(c, f)
       \/ /\ value[f] = None /\ ~NoPromise(f)
          /\ IF promise[f] = "pending" THEN Await(c, f) ELSE Return(c, "failed")
          /\ UNCHANGED <<value, promise, result, loads>>
-----------------------------------------------------------------------------
(* first(): the race is over with the first value, the first rejection or  *)
(* when every source has found nothing.                                    *)
NeverEmpty(now) == FALSE
AllEmpty(now) == \A s \in DOMAIN now : now[s] \in {"nothing", "none"}

RaceIgnored(f) == TRUE
RaceOpen(f) == promise[f] = "pending"

(* The field forgets a promise that was rejected. *)
RememberFailure(f) == promise' = [promise EXCEPT ![f] = "rejected"]
ForgetFailure(f) == promise' = [promise EXCEPT ![f] = "none"]

Resume(f, how) ==
    /\ awaits' = [c \in Callers |-> IF awaits[c] = f THEN "none" ELSE awaits[c]]
    /\ outcome' = [c \in Callers |-> IF awaits[c] = f THEN how ELSE outcome[c]]

Succeed(f, s) ==
    /\ value' = [value EXCEPT ![f] = s]
    /\ promise' = [promise EXCEPT ![f] = "fulfilled"]
    /\ Resume(f, "loaded")

Fail(f) ==
    /\ ForgetFailure(f)
    /\ Resume(f, "failed")
    /\ UNCHANGED value

(* A source comes to a result; one that comes too late changes nothing. *)
Settle(f, s, what) ==
    /\ result[f][s] = "pending"
    /\ f = "project" => what # "invalid"
    /\ result' = [result EXCEPT ![f][s] = what]
    /\ IF ~RaceOpen(f) THEN UNCHANGED <<value, promise, awaits, outcome>>
       ELSE \/ what = "found" /\ Succeed(f, s)
            \/ what \in {"invalid", "rejected"} /\ Fail(f)
            \/ /\ what = "nothing"
               /\ IF AllEmpty(result'[f]) THEN Fail(f)
                  ELSE UNCHANGED <<value, promise, awaits, outcome>>
    /\ UNCHANGED loads

SettleSomehow(f, s) == \E what \in Results : Settle(f, s, what)

Next ==
    \E f \in Fields :
        \/ \E c \in Callers : Load(c, f)
        \/ \E s \in AllSources : SettleSomehow(f, s)

Spec == Init /\ [][Next]_vars

(* Every provider and the request come to a result. *)
Fairness == \A f \in Fields, s \in AllSources : WF_vars(SettleSomehow(f, s))
FairSpec == Spec /\ Fairness
-----------------------------------------------------------------------------
(* A field is loaded once: callers that overlap share the load, no source  *)
(* is asked again while it is under way or after it has succeeded, and     *)
(* neither a provider that answers late nor a second load replaces what    *)
(* was loaded (first, loadCredentials, fetchProjectId).                    *)
LoadedOnce ==
    [][\A f \in Fields :
         /\ value[f] # None => value'[f] = value[f]
         /\ promise[f] = "pending" \/ value[f] # None => loads'[f] = loads[f]]_vars

(* A load that asked its sources and failed is forgotten, so that the next *)
(* call asks them again; only a load that was refused before it asked any  *)
(* is remembered (the catch clauses).                                      *)
FailuresForgotten ==
    \A f \in Fields :
        promise[f] = "rejected" => \A s \in Sources(f) : result[f][s] = "none"

(* Every caller is answered, whatever mixture of values, failures and      *)
(* nothing the sources come to (first).                                    *)
CallersAnswered == \A c \in Callers : awaits[c] # "none" ~> awaits[c] = "none"

(* What the message of the credentials getter promises: with credentials   *)
(* the project is asked for, and not refused without a request.            *)
LoadingCredentialsHelps ==
    [][\A c \in Callers :
         ~(/\ Load(c, "project") /\ value["credentials"] # None
           /\ outcome'[c] = "failed")]_vars

(* What the README says of credentialProviders: a provider counts only     *)
(* when those before it have found nothing.                                *)
EarlierProvidersFirst ==
    value["credentials"] \in Providers
      => \A p \in Providers :
            p < value["credentials"] => result["credentials"][p] = "nothing"
=============================================================================
