--------------------------- MODULE AdapterProofs ---------------------------
(***************************************************************************)
(* The model adapter for any number of providers, any configuration and    *)
(* any set of requests in flight.  That a provider recovers is checked by  *)
(* TLC only.                                                               *)
(***************************************************************************)
EXTENDS ModelAdapter, TLAPS, WellFoundedInduction

\* A set of natural numbers has a least element.
LEMMA LeastElement ==
    ASSUME NEW T \in SUBSET Nat, T # {}
    PROVE  \E m \in T : \A x \in T : m <= x
<1> DEFINE R == {ss \in Nat \X Nat : ss[1] < ss[2]}
<1>1. IsWellFoundedOn(R, Nat)
  BY NatLessThanWellFounded DEF OpToRel
<1> HIDE DEF R
<1>2. PICK m \in T : \A x \in T : ~(<<x, m>> \in R)
  BY <1>1, WFMin
<1>3. ASSUME NEW x \in T PROVE m <= x
  <2>1. m \in Nat /\ x \in Nat /\ ~(<<x, m>> \in R)
    BY <1>2
  <2>2. ~(x < m)
    BY <2>1 DEF R
  <2> QED
    BY <2>1, <2>2
<1> QED
  BY <1>3

\* The stable sort by rank has a first element: resolve() chooses one of the
\* candidates, and one that no other comes before.
LEMMA BestIsFirst ==
    ASSUME NEW S \in SUBSET Provider, S # {}
    PROVE  Best(S) \in S /\ \A q \in S \ {Best(S)} : Precedes(Best(S), q)
<1> USE AdapterAssumption DEF Provider
<1> DEFINE ranks == {Config[p].rank : p \in S}
<1>1. PICK m \in ranks : \A x \in ranks : m <= x
  <2>1. ranks \in SUBSET Nat /\ ranks # {}
    OBVIOUS
  <2> QED
    BY <2>1, LeastElement
<1> DEFINE first == {p \in S : Config[p].rank = m}
<1>2. PICK b \in first : \A p \in first : b <= p
  <2>1. PICK a \in S : Config[a].rank = m
    BY <1>1
  <2>2. a \in first
    BY <2>1
  <2>3. first \in SUBSET Nat
    <3>1. S \subseteq Nat
      OBVIOUS
    <3>2. first \subseteq S
      OBVIOUS
    <3> QED
      BY <3>1, <3>2
  <2> QED
    BY <2>2, <2>3, LeastElement
<1>3. \A q \in S \ {b} : Precedes(b, q)
  <2> SUFFICES ASSUME NEW q \in S \ {b} PROVE Precedes(b, q)
    OBVIOUS
  <2>1. m <= Config[q].rank /\ Config[b].rank = m /\ m \in Nat /\ Config[q].rank \in Nat
    BY <1>1, <1>2
  <2>2. CASE m < Config[q].rank
    BY <2>1, <2>2 DEF Precedes
  <2>3. CASE m = Config[q].rank
    BY <1>2, <2>1, <2>3 DEF Precedes
  <2> QED
    BY <2>1, <2>2, <2>3
<1>4. \E p \in S : \A q \in S \ {p} : Precedes(p, q)
  BY <1>2, <1>3
<1> QED
  BY <1>4 DEF Best

-----------------------------------------------------------------------------
(* Types *)

Breaker == [state : CircuitState, failures : Nat, successes : Nat, age : Nat]

\* The breaker's operations give breakers.
LEMMA BreakerType ==
    ASSUME NEW b \in Breaker
    PROVE  /\ Settled(b) \in Breaker
           /\ AfterSuccess(b) \in Breaker
           /\ AfterFailure(b) \in Breaker
<1> USE AdapterAssumption DEF Breaker
<1>1. \A s \in CircuitState : Fresh(s) \in Breaker
  BY DEF Fresh
<1>2. Settled(b) \in Breaker
  BY <1>1 DEF Settled, CircuitState
<1>3. AfterSuccess(b) \in Breaker
  <2>1. [b EXCEPT !.failures = 0] \in Breaker
    OBVIOUS
  <2>2. [b EXCEPT !.failures = 0, !.successes = @ + 1] \in Breaker
    <3> DEFINE n == b.successes + 1
    <3>1. n \in Nat
      OBVIOUS
    <3> HIDE DEF n
    <3>2. [b EXCEPT !.failures = 0, !.successes = n] \in Breaker
      BY <3>1
    <3> QED
      BY <3>2 DEF n
  <2> QED
    BY <1>1, <2>1, <2>2 DEF AfterSuccess, CircuitState
<1>4. AfterFailure(b) \in Breaker
  <2>1. [b EXCEPT !.successes = 0, !.failures = @ + 1] \in Breaker
    <3> DEFINE n == b.failures + 1
    <3>1. n \in Nat
      OBVIOUS
    <3> HIDE DEF n
    <3>2. [b EXCEPT !.successes = 0, !.failures = n] \in Breaker
      BY <3>1
    <3> QED
      BY <3>2 DEF n
  <2> QED
    BY <1>1, <2>1 DEF AfterFailure, CircuitState
<1> QED
  BY <1>2, <1>3, <1>4

\* Every step keeps the types.
LEMMA TypeStep == TypeOK /\ [Next]_vars => TypeOK'
<1> SUFFICES ASSUME TypeOK, [Next]_vars PROVE TypeOK'
  OBVIOUS
<1> USE DEF TypeOK, Breaker
<1>0. [p \in Provider |-> Settled(breaker[p])] \in [Provider -> Breaker]
  BY BreakerType
<1>1. ASSUME NEW r \in Request, Send(r) PROVE TypeOK'
  <2>1. Candidates(r) \in SUBSET Provider /\ Candidates(r) # {}
    BY <1>1 DEF Send, Candidates, Suitable
  <2> DEFINE p == Best(Candidates(r))
  <2>2. p \in Provider
    BY <2>1, BestIsFirst
  <2> HIDE DEF p
  <2>3. /\ inflight' = [inflight EXCEPT ![p] = @ + 1]
        /\ resolved' = [provider |-> p, degradation |-> Degradation(p)]
        /\ breaker' = [q \in Provider |-> Settled(breaker[q])]
        /\ UNCHANGED reported
    BY <1>1 DEF Send, p
  <2>4. Degradation(p) \in DegradationLevel
    BY DEF Degradation, DegradationLevel
  <2> QED
    BY <1>0, <2>2, <2>3, <2>4
<1>2. ASSUME NEW r \in Request, Refused(r) PROVE TypeOK'
  BY <1>0, <1>2 DEF Refused
<1>3. ASSUME NEW p \in Provider, Succeeds(p) PROVE TypeOK'
  BY <1>3, BreakerType DEF Succeeds
<1>4. ASSUME NEW p \in Provider, Fails(p) PROVE TypeOK'
  BY <1>4, BreakerType DEF Fails
<1>5. CASE Health
  BY <1>0, <1>5 DEF Health, StatusOf, AdapterStatus
<1>6. CASE Tick
  BY <1>6 DEF Tick
<1>7. CASE Restart
  BY <1>7 DEF Restart, Fresh, CircuitState, Nothing, DegradationLevel
<1>8. CASE UNCHANGED vars
  BY <1>8 DEF vars
<1> QED
  BY <1>1, <1>2, <1>3, <1>4, <1>5, <1>6, <1>7, <1>8 DEF Next

\* Breakers, requests in flight and reports keep their types.
THEOREM TypeCorrect == Spec => []TypeOK
<1>1. Init => TypeOK
  BY DEF Init, TypeOK, Fresh, CircuitState, Nothing, DegradationLevel
<1> QED
  BY <1>1, TypeStep, PTL DEF Spec

-----------------------------------------------------------------------------
(* Cooling breakers *)

\* A cooling breaker is what state() leaves alone, and admits nothing; late
\* answers leave it cooling.
LEMMA CoolingStays ==
    ASSUME TypeOK, NEW p \in Provider, Cooling(p)
    PROVE  /\ Settled(breaker[p]) = breaker[p]
           /\ ~AllowsRequest(breaker[p])
           /\ AfterSuccess(breaker[p]).state = "Open"
           /\ AfterSuccess(breaker[p]).age = breaker[p].age
           /\ AfterFailure(breaker[p]).state = "Open"
           /\ AfterFailure(breaker[p]).age = breaker[p].age
<1>1. /\ breaker[p] \in Breaker /\ breaker[p].state = "Open"
      /\ ~(breaker[p].age >= OpenDuration)
  BY AdapterAssumption DEF TypeOK, Breaker, Cooling
<1> QED
  BY <1>1 DEF Settled, AllowsRequest, AfterSuccess, AfterFailure, Breaker

\* A breaker that does not admit requests is cooling.
LEMMA NotAllowedCools ==
    ASSUME TypeOK, NEW p \in Provider, ~AllowsRequest(breaker[p])
    PROVE  Cooling(p)
<1>1. breaker[p] \in Breaker
  BY DEF TypeOK, Breaker
<1> QED
  BY <1>1, AdapterAssumption
     DEF AllowsRequest, Settled, Fresh, Cooling, Breaker, CircuitState

\* One step other than a restart keeps a cooling breaker open and sends its
\* provider nothing.
LEMMA OpenStep ==
    ASSUME TypeOK, [Next]_vars, NEW p \in Provider, Cooling(p), ~Restart
    PROVE  breaker'[p].state = "Open" /\ inflight'[p] <= inflight[p]
<1> USE DEF TypeOK
<1>0. breaker[p].state = "Open" /\ inflight[p] \in Nat
  BY DEF Cooling
<1>1. ASSUME NEW r \in Request, Send(r)
      PROVE  breaker'[p].state = "Open" /\ inflight'[p] <= inflight[p]
  <2>1. Candidates(r) \in SUBSET Provider /\ Candidates(r) # {}
    BY <1>1 DEF Send, Candidates, Suitable
  <2>2. Best(Candidates(r)) \in Candidates(r)
    BY <2>1, BestIsFirst
  <2>3. Best(Candidates(r)) # p
    BY <2>2, CoolingStays DEF Candidates
  <2>4. inflight'[p] = inflight[p]
    BY <1>1, <2>1, <2>2, <2>3 DEF Send
  <2>5. breaker'[p] = breaker[p]
    BY <1>1, CoolingStays DEF Send
  <2> QED
    BY <1>0, <2>4, <2>5
<1>2. ASSUME NEW r \in Request, Refused(r)
      PROVE  breaker'[p].state = "Open" /\ inflight'[p] <= inflight[p]
  BY <1>0, <1>2, CoolingStays DEF Refused
<1>3. ASSUME NEW q \in Provider, Succeeds(q)
      PROVE  breaker'[p].state = "Open" /\ inflight'[p] <= inflight[p]
  BY <1>0, <1>3, CoolingStays DEF Succeeds
<1>4. ASSUME NEW q \in Provider, Fails(q)
      PROVE  breaker'[p].state = "Open" /\ inflight'[p] <= inflight[p]
  BY <1>0, <1>4, CoolingStays DEF Fails
<1>5. CASE Health
  BY <1>0, <1>5, CoolingStays DEF Health
<1>6. CASE Tick
  BY <1>0, <1>6 DEF Tick
<1>7. CASE UNCHANGED vars
  BY <1>0, <1>7 DEF vars
<1> QED
  BY <1>1, <1>2, <1>3, <1>4, <1>5, <1>6, <1>7 DEF Next

\* An open breaker holds for open_duration, whatever was in flight.
THEOREM OpenBreakersHold == Spec => OpenHolds
<1>1. TypeOK /\ [Next]_vars =>
        [\A p \in Provider : Cooling(p) /\ ~Restart =>
            breaker'[p].state = "Open" /\ inflight'[p] <= inflight[p]]_vars
  BY OpenStep
<1> QED
  BY <1>1, TypeCorrect, PTL DEF Spec, OpenHolds

\* The first candidate passes over a provider only while that one cools.
LEMMA FallbackStep ==
    ASSUME TypeOK, NEW r \in Request, Send(r), NEW p \in Suitable(r),
           Config[p].rank < Config[resolved'.provider].rank
    PROVE  Cooling(p)
<1> USE AdapterAssumption
<1> DEFINE b == Best(Candidates(r))
<1>1. Candidates(r) \in SUBSET Provider /\ Candidates(r) # {} /\ p \in Provider
  BY DEF Send, Candidates, Suitable
<1>2. b \in Candidates(r) /\ \A q \in Candidates(r) \ {b} : Precedes(b, q)
  BY <1>1, BestIsFirst
<1> HIDE DEF b
<1>3. resolved'.provider = b
  BY DEF Send, b
<1>4. ~Precedes(b, p) /\ p # b
  <2>1. Config[b].rank \in Nat /\ Config[p].rank \in Nat
    BY <1>1, <1>2
  <2> QED
    BY <1>3, <2>1 DEF Precedes
<1>5. p \notin Candidates(r)
  BY <1>2, <1>4
<1>6. ~AllowsRequest(breaker[p])
  BY <1>5 DEF Candidates
<1> QED
  BY <1>1, <1>6, NotAllowedCools

\* For any fallback chain a request is degraded only past cooling breakers.
THEOREM FallbackHolds == Spec => FallbackJustified
<1>1. TypeOK /\ [Next]_vars =>
        [\A r \in Request : Send(r) =>
           \A p \in Suitable(r) :
              Config[p].rank < Config[resolved'.provider].rank => Cooling(p)]_vars
  BY FallbackStep
<1> QED
  BY <1>1, TypeCorrect, PTL DEF Spec, FallbackJustified

-----------------------------------------------------------------------------
(* The report that all providers are down *)

\* The strengthening: after such a report every breaker is cooling.
AllCool == reported = "AllProvidersDown" => \A p \in Provider : Cooling(p)

\* Only time and a restart end that, and both take the report back.
LEMMA AllCoolStep == TypeOK /\ AllCool /\ [Next]_vars => AllCool'
<1> SUFFICES ASSUME TypeOK, AllCool, [Next]_vars, reported' = "AllProvidersDown",
                    NEW p \in Provider
             PROVE  Cooling(p)'
  BY DEF AllCool
<1> USE AdapterAssumption DEF TypeOK
<1>0. ASSUME UNCHANGED reported PROVE Cooling(p)
  BY <1>0 DEF AllCool
<1>1. ASSUME UNCHANGED reported,
             breaker'[p] = Settled(breaker[p]) \/ breaker'[p] = breaker[p]
      PROVE  Cooling(p)'
  BY <1>0, <1>1, CoolingStays DEF Cooling
<1>2. ASSUME NEW r \in Request, Send(r) \/ Refused(r) PROVE Cooling(p)'
  BY <1>1, <1>2 DEF Send, Refused
<1>3. ASSUME NEW q \in Provider, Succeeds(q) PROVE Cooling(p)'
  <2>1. Cooling(p) /\ UNCHANGED reported
    BY <1>0, <1>3 DEF Succeeds
  <2>2. breaker'[p] = breaker[p] \/ breaker'[p] = AfterSuccess(breaker[p])
    BY <1>3 DEF Succeeds
  <2> QED
    BY <2>1, <2>2, CoolingStays DEF Cooling
<1>4. ASSUME NEW q \in Provider, Fails(q) PROVE Cooling(p)'
  <2>1. Cooling(p) /\ UNCHANGED reported
    BY <1>0, <1>4 DEF Fails
  <2>2. breaker'[p] = breaker[p] \/ breaker'[p] = AfterFailure(breaker[p])
    BY <1>4 DEF Fails
  <2> QED
    BY <2>1, <2>2, CoolingStays DEF Cooling
<1>5. CASE Health
  <2>1. breaker'[p] = Settled(breaker[p])
    BY <1>5 DEF Health
  <2>2. breaker'[p].state = "Open"
    BY <1>5 DEF Health, StatusOf
  <2>3. ~AllowsRequest(breaker[p])
    BY <2>1, <2>2 DEF AllowsRequest
  <2> QED
    BY <2>1, <2>3, NotAllowedCools, CoolingStays DEF Cooling
<1>6. CASE Tick \/ Restart
  BY <1>6 DEF Tick, Restart
<1>7. CASE UNCHANGED vars
  BY <1>1, <1>7 DEF vars
<1> QED
  BY <1>2, <1>3, <1>4, <1>5, <1>6, <1>7 DEF Next

\* "All providers down" and a provider that would be chosen exclude each
\* other until time passes.
THEOREM DownHolds == Spec => []DownMeansRefused
<1>1. Init => AllCool
  BY DEF Init, AllCool
<1>2. TypeOK /\ AllCool => DownMeansRefused
  BY CoolingStays DEF AllCool, DownMeansRefused, Candidates, Suitable
<1> QED
  BY <1>1, <1>2, AllCoolStep, TypeCorrect, PTL DEF Spec
=============================================================================
