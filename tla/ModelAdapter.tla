---------------------------- MODULE ModelAdapter ----------------------------
(***************************************************************************)
(* The model adapter: the circuit breakers of src/adapter/                 *)
(* circuit_breaker.rs, the registry that holds them (provider.rs) and the  *)
(* resolution of requests to providers (resolver.rs).                      *)
(*                                                                         *)
(* The repository implements the parts and not the ModelAdapter trait.     *)
(* Send composes them the way resolve() asks its caller to: the available  *)
(* ids are those is_available() admits, the last provider is the one used  *)
(* last.  Requests stay in flight until the provider answers, and what the *)
(* answer does depends on the breaker's state at that later time.          *)
(*                                                                         *)
(* Data left out: payloads, endpoints, latencies (always 0 in the code),   *)
(* retry and budget settings, which no code reads.                         *)
(***************************************************************************)
EXTENDS Naturals

CONSTANTS
    N,             \* number of configured providers
    Config,        \* ProviderConfig of each: rank, zones, context, tier, features
    Request,       \* the AdapterRequests: zone, context, tier, features, different
    FailureThreshold, OpenDuration, ProbeSuccessCount,  \* CircuitBreakerConfig
    MaxInFlight    \* bound: requests in flight at one provider

Provider == 1..N    \* positions in the list of providers

ASSUME AdapterAssumption ==
    /\ N \in Nat
    /\ FailureThreshold \in Nat /\ OpenDuration \in Nat
    /\ ProbeSuccessCount \in Nat /\ MaxInFlight \in Nat
    /\ \A p \in Provider : Config[p].rank \in Nat

VARIABLES
    breaker,     \* the CircuitBreaker of each provider
    inflight,    \* requests each provider has not answered
    resolved,    \* the last ResolvedProvider, provider 0 before the first
    reported     \* the last AdapterStatus since the clock moved, or "none"

vars == <<breaker, inflight, resolved, reported>>

CircuitState     == {"Closed", "HalfOpen", "Open"}
DegradationLevel == {"None", "Mild", "Significant"}
AdapterStatus    == {"Healthy", "Degraded", "AllProvidersDown"}

-----------------------------------------------------------------------------
(* CircuitBreaker.  age is last_state_change.elapsed(), which matters only *)
(* while Open and only up to open_duration.                                *)

\* new(), recovering() and transition(): counters and clock start afresh.
Fresh(s) == [state |-> s, failures |-> 0, successes |-> 0, age |-> 0]

\* state(): Open turns into HalfOpen once open_duration has passed.
Settled(b) == IF b.state = "Open" /\ b.age >= OpenDuration THEN Fresh("HalfOpen") ELSE b

AllowsRequest(b) == Settled(b).state \in {"Closed", "HalfOpen"}

\* Mutant: a late success is taken as a sign that probing may start.
SuccessEndsCooling(b) ==
    IF b.state = "Open" THEN Fresh("HalfOpen") ELSE [b EXCEPT !.failures = 0]

\* Mutant: enough probes succeed and the breaker is not closed.
SuccessNeverCloses(b) ==
    [b EXCEPT !.failures = 0,
              !.successes = IF b.state = "HalfOpen" THEN ProbeSuccessCount ELSE @]

\* record_success, in whatever state the breaker is by now.
AfterSuccess(b) ==
    CASE b.state = "HalfOpen" ->
           IF b.successes + 1 >= ProbeSuccessCount THEN Fresh("Closed")
           ELSE [b EXCEPT !.failures = 0, !.successes = @ + 1]
      [] OTHER -> [b EXCEPT !.failures = 0]

\* record_failure, likewise: an open breaker only counts it.
AfterFailure(b) ==
    IF \/ b.state = "HalfOpen"
       \/ b.state = "Closed" /\ b.failures + 1 >= FailureThreshold
    THEN Fresh("Open")
    ELSE [b EXCEPT !.successes = 0, !.failures = @ + 1]

-----------------------------------------------------------------------------
(* resolve() *)

MeetsCapabilities(r, p) ==
    /\ Config[p].context >= r.context
    /\ r.features \subseteq Config[p].features   \* streaming, tool_use, vision
    /\ Config[p].tier >= r.tier

\* Who may serve r, the breakers aside: zone, capabilities, adversarial rule.
Suitable(r) ==
    {p \in Provider :
        /\ r.zone \in Config[p].zones
        /\ MeetsCapabilities(r, p)
        /\ r.different => resolved.provider # p}

\* Mutant: the breakers' states are read without letting them expire.
CandidatesStale(r) == {p \in Suitable(r) : breaker[p].state # "Open"}

Candidates(r) == {p \in Suitable(r) : AllowsRequest(breaker[p])}

\* The sort by fallback_rank is stable: ties go to the earlier in the list.
Precedes(p, q) ==
    Config[p].rank < Config[q].rank \/ (Config[p].rank = Config[q].rank /\ p < q)

Best(S) == CHOOSE p \in S : \A q \in S \ {p} : Precedes(p, q)

Degradation(p) ==
    CASE Config[p].rank <= 1 -> "None"
      [] Config[p].rank = 2  -> "Mild"
      [] OTHER               -> "Significant"

-----------------------------------------------------------------------------
(* The operations of the registry and its caller *)

Refused(r) ==
    /\ Candidates(r) = {}
    /\ breaker' = [p \in Provider |-> Settled(breaker[p])]
    /\ UNCHANGED <<inflight, resolved, reported>>

\* is_available() of every provider, resolve(), and the request is sent.
Send(r) ==
    /\ Candidates(r) # {}
    /\ LET p == Best(Candidates(r)) IN
         /\ inflight[p] < MaxInFlight
         /\ inflight' = [inflight EXCEPT ![p] = @ + 1]
         /\ resolved' = [provider |-> p, degradation |-> Degradation(p)]
    /\ breaker' = [p \in Provider |-> Settled(breaker[p])]
    /\ UNCHANGED reported

Succeeds(p) ==
    /\ inflight[p] > 0
    /\ inflight' = [inflight EXCEPT ![p] = @ - 1]
    /\ breaker' = [breaker EXCEPT ![p] = AfterSuccess(@)]
    /\ UNCHANGED <<resolved, reported>>

Fails(p) ==
    /\ inflight[p] > 0
    /\ inflight' = [inflight EXCEPT ![p] = @ - 1]
    /\ breaker' = [breaker EXCEPT ![p] = AfterFailure(@)]
    /\ UNCHANGED <<resolved, reported>>

\* Mutant: one open breaker is enough to report that all are down.
StatusOfAny(open) == IF open # {} THEN "AllProvidersDown" ELSE "Healthy"

StatusOf(open) ==
    IF open = Provider THEN "AllProvidersDown"
    ELSE IF open # {} THEN "Degraded" ELSE "Healthy"

\* health(): reads every breaker through state(), so it may move them.
Health ==
    /\ breaker' = [p \in Provider |-> Settled(breaker[p])]
    /\ reported' = StatusOf({p \in Provider : breaker'[p].state = "Open"})
    /\ UNCHANGED <<inflight, resolved>>

\* Time passes for the open breakers; an earlier report is out of date.
Tick ==
    /\ \E p \in Provider : breaker[p].state = "Open" /\ breaker[p].age < OpenDuration
    /\ breaker' = [p \in Provider |->
                     IF breaker[p].state = "Open" /\ breaker[p].age < OpenDuration
                     THEN [breaker[p] EXCEPT !.age = @ + 1] ELSE breaker[p]]
    /\ reported' = "none"
    /\ UNCHANGED <<inflight, resolved>>

Nothing == [provider |-> 0, degradation |-> "None"]

\* The sidecar restarts: every breaker recovering(), answers go nowhere.
Restart ==
    /\ breaker' = [p \in Provider |-> Fresh("HalfOpen")]
    /\ inflight' = [p \in Provider |-> 0]
    /\ resolved' = Nothing
    /\ reported' = "none"

Init ==
    /\ breaker = [p \in Provider |-> Fresh("Closed")]
    /\ inflight = [p \in Provider |-> 0]
    /\ resolved = Nothing
    /\ reported = "none"

Next ==
    \/ \E r \in Request : Send(r) \/ Refused(r)
    \/ \E p \in Provider : Succeeds(p) \/ Fails(p)
    \/ Health \/ Tick \/ Restart

Spec == Init /\ [][Next]_vars

\* Time passes, and every provider sooner or later answers what it was sent.
FairSpec ==
    /\ Spec
    /\ WF_vars(Tick)
    /\ \A p \in Provider : WF_vars(Succeeds(p) \/ Fails(p))

-----------------------------------------------------------------------------
(* Properties *)

\* Types of the breakers and of the caller's state.
TypeOK ==
    /\ breaker \in [Provider -> [state : CircuitState, failures : Nat,
                                 successes : Nat, age : Nat]]
    /\ inflight \in [Provider -> Nat]
    /\ resolved \in [provider : {0} \union Provider, degradation : DegradationLevel]
    /\ reported \in AdapterStatus \union {"none"}

Cooling(p) == breaker[p].state = "Open" /\ breaker[p].age < OpenDuration

\* Until open_duration has passed, whatever late answers of requests sent
\* before the breaker opened arrive, in whatever order, it stays open and
\* its provider is sent nothing; only a restart of the sidecar ends it.
OpenHolds ==
    [][\A p \in Provider :
          Cooling(p) /\ ~Restart =>
              breaker'[p].state = "Open" /\ inflight'[p] <= inflight[p]]_vars

\* While the report says that all providers are down and no time passes, no
\* provider can be chosen, whatever was in flight when health() was called.
DownMeansRefused ==
    reported = "AllProvidersDown" => \A r \in Request : Candidates(r) = {}

\* A request is served in a degraded way only if every suitable provider
\* that comes before the chosen one in the fallback chain is cooling: a
\* breaker whose time is up never costs quality.
FallbackJustified ==
    [][\A r \in Request : Send(r) =>
          \A p \in Suitable(r) :
              Config[p].rank < Config[resolved'.provider].rank => Cooling(p)]_vars

\* A provider that stops failing is used again: if from some point on it does
\* not fail and the sidecar is not restarted, while requests for which it
\* comes first keep being sent, its breaker closes for good.
Recovers ==
    \A p \in Provider :
        /\ <>[][~Fails(p) /\ ~Restart]_vars
        /\ []<><<\E r \in Request :
                   /\ Send(r) \/ Refused(r)
                   /\ p \in Suitable(r)
                   /\ \A q \in Suitable(r) \ {p} : Precedes(p, q)>>_vars
        => <>[](breaker[p].state = "Closed")
=============================================================================
