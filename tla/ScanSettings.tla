---------------------------- MODULE ScanSettings ----------------------------
(***************************************************************************)
(* ScanFactory.createScan() (packages/scan/src): the settings are checked  *)
(* and completed, the target is stored as an entry point, and the settings *)
(* are brought into the form of the backend.  What the requests may fail   *)
(* at is left to SecScan.                                                  *)
(***************************************************************************)
EXTENDS Target, Integers

CONSTANTS
    TestNames,      \* names of tests
    Auths,          \* what the options of a configurable test hold
    MaxTests        \* bound: tests per scan

ASSUME AuthsAssumption == "none" \notin Auths
ASSUME TestNamesAssumption == TestNames # {}
ASSUME MaxTestsAssumption == MaxTests \in Nat \ {0}

VARIABLES
    given,          \* the ScanSettingsOptions of the caller
    pc,             \* how far createScan() is
    settings,       \* the ScanSettings, once there are any
    entrypoint,     \* the entry point, once there is one
    config          \* what the scan was created with, once it was

vars == <<given, pc, settings, entrypoint, config>>

NoAuth == "none"
Plain(name) == [name |-> name, auth |-> NoAuth]
Tests == [name : TestNames, auth : Auths \cup {NoAuth}]
Configurable == "broken_access_control"

Locations == {"body", "query", "fragment", "header", "path"}
DefaultLocations == {"body", "query", "fragment"}

(* A name is known by its length, 0 is none. *)
Defaults ==
    [target |-> [method |-> "POST", search |-> <<>>, fragment |-> FALSE,
                 query |-> "none", body |-> "object", header |-> NoMime],
     tests |-> <<Plain(CHOOSE name \in TestNames : TRUE)>>,
     locations |-> {}, name |-> 0, poolSize |-> 50, requestsRateLimit |-> 0]

(* The options of which one group varies at a time. *)
LocationInputs == {{}, {"query"}, {"header", "cookie"}}
Aimed(t, l) == [Defaults EXCEPT !.target = t, !.locations = l]
TargetInputs == {Aimed(t, l) : t \in TargetOptions, l \in LocationInputs}
TestInputs ==
    {[Defaults EXCEPT !.tests = ts] : ts \in UNION {[1..n -> Tests] : n \in 0..MaxTests}}
LimitInputs ==
    {[Defaults EXCEPT !.name = n, !.poolSize = p, !.requestsRateLimit = r] :
        n \in {0, 200, 201}, p \in {0, 1, 50, 51}, r \in {-1, 0, 1000, 1001}}
Inputs == TargetInputs \cup TestInputs \cup LimitInputs

Init ==
    /\ given \in Inputs
    /\ pc = "new"
    /\ settings = {} /\ entrypoint = {} /\ config = {}
-----------------------------------------------------------------------------
OffByOne(value, min, max) == value >= min /\ value <= max + 1
CheckBoundaries(value, min, max) == value >= min /\ value <= max

(* A configured test is refused when its name came before it; and a check  *)
(* that looks at the plain tests only.                                     *)
RepeatsPlain(tests, i) ==
    tests[i].auth # NoAuth /\ \E j \in 1..(i - 1) : tests[j] = Plain(tests[i].name)
Repeats(tests, i) ==
    tests[i].auth # NoAuth /\ \E j \in 1..(i - 1) : tests[j].name = tests[i].name

(* The setters that throw, that of the target among them. *)
Refused(o) ==
    \/ BodyRefused(o.target)
    \/ o.name > 200
    \/ ~CheckBoundaries(o.poolSize, 1, 50)
    \/ ~CheckBoundaries(o.requestsRateLimit, 0, 1000)
    \/ o.tests = <<>> \/ \E i \in DOMAIN o.tests : Repeats(o.tests, i)
    \/ ~(o.locations \subseteq Locations)

(* The members of a finite set of numbers, the least one first. *)
Ascending(S) ==
    CHOOSE f \in [1..Cardinality(S) -> S] : \A i, j \in DOMAIN f : i < j => f[i] < f[j]

(* The plain tests, each where it came first, and then the configured ones.*)
PlainTests(tests) ==
    {i \in DOMAIN tests :
        tests[i].auth = NoAuth /\ \A j \in 1..(i - 1) : tests[j] # tests[i]}
ConfiguredTests(tests) == {i \in DOMAIN tests : tests[i].auth # NoAuth}
Order(tests) == Ascending(PlainTests(tests)) \o Ascending(ConfiguredTests(tests))
UniqueTests(tests) == [k \in DOMAIN Order(tests) |-> tests[Order(tests)[k]]]

(* Whether there is a body to attack; and a test of the method only.       *)
MayHaveBody(t) == t.method \notin {"GET", "HEAD"}
HasBody(t) == t.body # NoBody /\ t.method \notin {"GET", "HEAD"}

(* detectAttackParamLocations() looks at the query option, not at the URL. *)
Detected(t) ==
    {l \in DefaultLocations : \/ l = "body" /\ HasBody(t)
                              \/ l = "query" /\ t.query # "none"
                              \/ l = "fragment" /\ t.fragment}

ResolveLocations(o, t) ==
    CASE o.locations # {} -> o.locations
      [] o.locations = {} /\ Detected(t) # {} -> Detected(t)
      [] OTHER -> DefaultLocations

(* new ScanSettings(). *)
NewSettings(o) ==
    LET t == MakeTarget(o.target)
    IN  [o EXCEPT !.target = t, !.tests = UniqueTests(@),
                  !.locations = ResolveLocations(o, t)]

Construct ==
    /\ pc = "new"
    /\ IF Refused(given) THEN pc' = "refused" /\ UNCHANGED settings
       ELSE pc' = "settings" /\ settings' = {NewSettings(given)}
    /\ UNCHANGED <<given, entrypoint, config>>

(* createScanConfig(): the entry point is that of a copy of the target. *)
CreateEntrypoint ==
    /\ pc = "settings"
    /\ entrypoint' = {Request(Copy(s.target)) : s \in settings}
    /\ pc' = "entrypoint"
    /\ UNCHANGED <<given, settings, config>>

(* What convertToBackendFormat() makes of the tests: their names, and the  *)
(* metadata of the configured ones, where a later one replaces an earlier. *)
Names(tests) == [i \in DOMAIN tests |-> tests[i].name]
Metadata(tests) ==
    {tests[i] : i \in {j \in DOMAIN tests :
        /\ tests[j].auth # NoAuth
        /\ \A k \in DOMAIN tests : k > j => tests[k].name # tests[j].name}}

Unsupported(tests) ==
    \E i \in DOMAIN tests : tests[i].auth # NoAuth /\ tests[i].name # Configurable

Created(s) ==
    [tests |-> Names(s.tests), metadata |-> Metadata(s.tests), locations |-> s.locations]

CreateScan ==
    /\ pc = "entrypoint"
    /\ \E s \in settings :
          IF Unsupported(s.tests) THEN pc' = "unsupported" /\ UNCHANGED config
          ELSE pc' = "created" /\ config' = {Created(s)}
    /\ UNCHANGED <<given, settings, entrypoint>>

Next == Construct \/ CreateEntrypoint \/ CreateScan

Spec == Init /\ [][Next]_vars
-----------------------------------------------------------------------------
(* Settings that exist keep every limit the backend has (the setters).     *)
TypeOK ==
    /\ given \in Inputs
    /\ pc \in {"new", "refused", "settings", "entrypoint", "unsupported", "created"}
    /\ \A s \in settings :
          /\ s.poolSize \in 1..50 /\ s.requestsRateLimit \in 0..1000
          /\ s.name \in 0..200
          /\ s.tests \in Seq(Tests) /\ Len(s.tests) \in 1..MaxTests
          /\ s.locations \subseteq Locations /\ s.locations # {}
          /\ s.target.method \in KnownMethods
          /\ s.target.search \in Seq({"url", "given"})
          /\ s.target.body # NoBody => s.target.method \notin {"GET", "HEAD"}
    /\ \A e \in entrypoint : e.header \in MimeTypes \cup {NoMime}

(* The entry point is the request of the target that was described, though *)
(* the target is built twice and the second time from the getters of the   *)
(* first; the one exception is a string that looks like JSON (Target,      *)
(* createScanConfig).                                                      *)
EntryPointIsTarget ==
    \A s \in settings, e \in entrypoint :
        \/ e = Request(s.target)
        \/ s.target.body = "jsonString" /\ s.target.header = NoMime

(* What the tests of Target say of a string: it is sent as it is. *)
StringBodyAsGiven ==
    \A e \in entrypoint :
        given.target.body \in Strings /\ given.target.header = NoMime
            => e.text = "String"

(* Every test reaches the backend, once, and every configuration with it,  *)
(* but for a plain test that repeats a configured one before it (tests,    *)
(* convertToBackendFormat).                                                *)
TestsReachBackend ==
    \A c \in config :
        /\ \A i \in DOMAIN given.tests :
              /\ given.tests[i].name \in ToSet(c.tests)
              /\ given.tests[i].auth # NoAuth => given.tests[i] \in c.metadata
        /\ \A i, j \in DOMAIN c.tests : i # j /\ c.tests[i] = c.tests[j] =>
              \E k, l \in DOMAIN given.tests :
                  /\ k < l /\ given.tests[k].auth # NoAuth
                  /\ given.tests[l] = Plain(c.tests[i]) /\ given.tests[k].name = c.tests[i]

(* A query that stands in the URL of a request with a body or a fragment.  *)
QueryOverlooked(e) ==
    given.target.query = "none" /\ (e.text # NoBody \/ e.fragment)

(* Unless told otherwise a scan attacks every part the stored request has, *)
(* but for a query that stands in the URL next to other parts: one that    *)
(* stands there alone is attacked, since nothing is detected then          *)
(* (detectAttackParamLocations, resolveAttackParamLocations,               *)
(* createScanConfig).                                                      *)
PartsAttacked ==
    \A c \in config, e \in entrypoint : given.locations = {} =>
        /\ e.text # NoBody => "body" \in c.locations
        /\ e.fragment => "fragment" \in c.locations
        /\ e.search # <<>> => "query" \in c.locations \/ QueryOverlooked(e)
=============================================================================
