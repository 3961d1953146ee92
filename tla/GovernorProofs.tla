--------------------------- MODULE GovernorProofs ---------------------------
(***************************************************************************)
(* What the governor's counters guarantee for any tiers, budgets and       *)
(* envelopes and any number of racing submissions.                         *)
(*                                                                         *)
(* The types rest on the exact count: active_tasks stays a natural number  *)
(* only because every subtraction belongs to an earlier addition.  The     *)
(* limit is not inductive: a task that has passed the check has already    *)
(* used up its place, so RoomLeft counts it before it is started.          *)
(*                                                                         *)
(* The exact RSS is the same argument with sums for counts, and needs the  *)
(* laws of SumOf.  The ceiling needs a history: the sum over the tiers is  *)
(* no snapshot, and only the order in which the tasks began their sums     *)
(* tells which of them each admission has taken into account.              *)
(***************************************************************************)
EXTENDS Governor, FiniteSetTheorems, TLAPS

\* The values of pc.
Labels == Checking \union {"idle", "startRss", "running", "endRss"}

\* Sets of tasks are finite, and one task more or less changes their
\* cardinality by one.
LEMMA TaskSets ==
    ASSUME NEW S, S \subseteq Task
    PROVE  /\ IsFiniteSet(S) /\ Cardinality(S) \in Nat
           /\ \A k : k \notin S => Cardinality(S \union {k}) = Cardinality(S) + 1
           /\ \A k \in S : Cardinality(S \ {k}) = Cardinality(S) - 1
<1>1. IsFiniteSet(S)
  BY GovernorAssumption, FS_Subset
<1>2. Cardinality(S) \in Nat
  BY <1>1, FS_CardinalityType
<1>3. ASSUME NEW k, k \notin S PROVE Cardinality(S \union {k}) = Cardinality(S) + 1
  BY <1>1, <1>3, FS_AddElement
<1>4. ASSUME NEW k \in S PROVE Cardinality(S \ {k}) = Cardinality(S) - 1
  BY <1>1, <1>4, FS_RemoveElement
<1> QED
  BY <1>1, <1>2, <1>3, <1>4

\* A smaller set of tasks has no more elements.
LEMMA TaskSubsets ==
    ASSUME NEW S, NEW R, S \subseteq Task, R \subseteq S
    PROVE  /\ Cardinality(R) \in Nat /\ Cardinality(S) \in Nat
           /\ Cardinality(R) <= Cardinality(S)
<1>1. IsFiniteSet(S)
  BY TaskSets
<1> QED
  BY <1>1, FS_Subset, FS_CardinalityType

-----------------------------------------------------------------------------
(* The exact count *)

\* Steps that move no task in or out of the counted ones keep the count.
LEMMA CountKept ==
    ASSUME ActiveExact, UNCHANGED active, pc \in [Task -> Labels],
           \A k \in Task : pc[k] \in {"startRss", "running"}
                             <=> pc'[k] \in {"startRss", "running"}
    PROVE  ActiveExact'
<1>1. \A t \in Tier : Counted(t)' = Counted(t)
  BY DEF Counted
<1> QED
  BY <1>1 DEF ActiveExact

\* A task that starts adds one to the count of its tier.
LEMMA StartCounts ==
    ASSUME TypeOK, ActiveExact, NEW k \in Task, StartActive(k)
    PROVE  ActiveExact' /\ active' \in [Tier -> Nat]
<1> DEFINE tk == TierOf[k]
<1>1. tk \in Tier /\ pc[k] = "start" /\ pc' = [pc EXCEPT ![k] = "startRss"]
      /\ active' = [active EXCEPT ![tk] = @ + 1]
  BY GovernorAssumption DEF StartActive, GoTo
<1>2. pc \in [Task -> Labels] /\ active \in [Tier -> Nat]
  BY DEF TypeOK, Labels
<1>3. \A t \in Tier : t # tk => Counted(t)' = Counted(t)
  BY <1>1, <1>2 DEF Counted
<1>4. k \notin Counted(tk) /\ Counted(tk)' = Counted(tk) \union {k}
  BY <1>1, <1>2 DEF Counted
<1>5. Counted(tk) \subseteq Task
  BY DEF Counted
<1>6. Cardinality(Counted(tk)') = Cardinality(Counted(tk)) + 1
  BY <1>4, <1>5, TaskSets
<1>7. \A t \in Tier : active'[t] = IF t = tk THEN active[t] + 1 ELSE active[t]
  BY <1>1, <1>2
<1>8. \A t \in Tier : active'[t] = Cardinality(Counted(t)')
  BY <1>1, <1>3, <1>6, <1>7 DEF ActiveExact
<1>9. active' \in [Tier -> Nat]
  BY <1>1, <1>2
<1> QED
  BY <1>8, <1>9 DEF ActiveExact

\* A task that ends was counted: fetch_sub does not wrap.
LEMMA EndCounts ==
    ASSUME TypeOK, ActiveExact, NEW k \in Task, EndActive(k)
    PROVE  ActiveExact' /\ active' \in [Tier -> Nat]
<1> DEFINE tk == TierOf[k]
<1>1. tk \in Tier /\ pc[k] = "running" /\ pc' = [pc EXCEPT ![k] = "endRss"]
      /\ active' = [active EXCEPT ![tk] = @ - 1]
  BY GovernorAssumption DEF EndActive, GoTo
<1>2. pc \in [Task -> Labels] /\ active \in [Tier -> Nat]
  BY DEF TypeOK, Labels
<1>3. \A t \in Tier : t # tk => Counted(t)' = Counted(t)
  BY <1>1, <1>2 DEF Counted
<1>4. k \in Counted(tk) /\ Counted(tk)' = Counted(tk) \ {k}
  BY <1>1, <1>2 DEF Counted
<1>5. Counted(tk) \subseteq Task /\ Counted(tk)' \subseteq Task
  BY DEF Counted
<1>6. Cardinality(Counted(tk)') = Cardinality(Counted(tk)) - 1
  BY <1>4, <1>5, TaskSets
<1>7. \A t \in Tier : active'[t] = IF t = tk THEN active[t] - 1 ELSE active[t]
  BY <1>1, <1>2
<1>8. \A t \in Tier : active'[t] = Cardinality(Counted(t)')
  BY <1>1, <1>3, <1>6, <1>7 DEF ActiveExact
<1>9. Cardinality(Counted(tk)') \in Nat
  BY <1>5, TaskSets
<1>10. \A t \in Tier : active'[t] \in Nat
  BY <1>1, <1>2, <1>7, <1>8, <1>9
<1>11. active' \in [Tier -> Nat]
  BY <1>1, <1>2, <1>10
<1> QED
  BY <1>8, <1>11 DEF ActiveExact

\* Every step keeps the types and the exact count.
LEMMA CountStep == TypeOK /\ ActiveExact /\ [Next]_vars => TypeOK' /\ ActiveExact'
<1> SUFFICES ASSUME TypeOK, ActiveExact, [Next]_vars PROVE TypeOK' /\ ActiveExact'
  OBVIOUS
<1>0. /\ pc \in [Task -> Labels] /\ TierOf \in [Task -> Tier]
      /\ Rss \in [Task -> Nat]
  BY GovernorAssumption DEF TypeOK, Labels
<1>1. ASSUME NEW k \in Task, CheckAdmission(k) \/ LoadActive(k) \/ LoadTokens(k)
      PROVE  TypeOK' /\ ActiveExact'
  <2>1. /\ \E l \in {"idle", "active", "tokens", "rss"} : pc' = [pc EXCEPT ![k] = l]
        /\ pc[k] \notin {"startRss", "running"}
        /\ UNCHANGED <<pressure, usage, locals, unreset>>
    BY <1>1 DEF CheckAdmission, LoadActive, LoadTokens, GoTo
  <2>2. TypeOK'
    BY <2>1 DEF TypeOK, Checking, usage, locals
  <2> QED
    BY <1>0, <2>1, <2>2, CountKept DEF usage
<1>2. ASSUME NEW k \in Task, LoadRss(k) PROVE TypeOK' /\ ActiveExact'
  <2>1. /\ \E l \in {"idle", "sum"} : pc' = [pc EXCEPT ![k] = l]
        /\ pc[k] = "rss" /\ UNCHANGED <<pressure, usage, unreset>>
        /\ unread' \in [Task -> SUBSET Tier] /\ total' \in [Task -> Nat]
    BY <1>2 DEF LoadRss, GoTo, TypeOK, locals
  <2>2. TypeOK'
    BY <2>1 DEF TypeOK, Checking, usage
  <2> QED
    BY <1>0, <2>1, <2>2, CountKept DEF usage
<1>3. ASSUME NEW k \in Task, NEW t \in Tier, SumTier(k, t)
      PROVE  TypeOK' /\ ActiveExact'
  BY <1>0, <1>3, CountKept DEF SumTier, TypeOK, usage
<1>4. ASSUME NEW k \in Task, Decide(k) PROVE TypeOK' /\ ActiveExact'
  <2>1. /\ \E l \in {"idle", "start"} : pc' = [pc EXCEPT ![k] = l]
        /\ pc[k] = "sum" /\ UNCHANGED <<pressure, usage, unread, unreset>>
        /\ total' \in [Task -> Nat]
    BY <1>4 DEF Decide, GoTo, TypeOK
  <2>2. TypeOK'
    BY <2>1 DEF TypeOK, Checking, usage
  <2> QED
    BY <1>0, <2>1, <2>2, CountKept DEF usage
<1>5. ASSUME NEW k \in Task, StartActive(k) PROVE TypeOK' /\ ActiveExact'
  <2>1. ActiveExact' /\ active' \in [Tier -> Nat]
    BY <1>5, StartCounts
  <2>2. TypeOK'
    BY <1>5, <2>1 DEF StartActive, GoTo, TypeOK, locals
  <2> QED
    BY <2>1, <2>2
<1>6. ASSUME NEW k \in Task, StartRss(k) PROVE TypeOK' /\ ActiveExact'
  <2>1. /\ pc' = [pc EXCEPT ![k] = "running"] /\ pc[k] = "startRss"
        /\ UNCHANGED <<pressure, active, tokens, locals, unreset>>
    BY <1>6 DEF StartRss, GoTo
  <2>2. rss' \in [Tier -> Nat]
    BY <1>0, <1>6 DEF StartRss, TypeOK
  <2>3. TypeOK'
    BY <2>1, <2>2 DEF TypeOK, locals
  <2> QED
    BY <1>0, <2>1, <2>3, CountKept
<1>7. ASSUME NEW k \in Task, TokensUsed(k) PROVE TypeOK' /\ ActiveExact'
  BY <1>0, <1>7, CountKept DEF TokensUsed, TypeOK, locals
<1>8. ASSUME NEW k \in Task, EndActive(k) PROVE TypeOK' /\ ActiveExact'
  <2>1. ActiveExact' /\ active' \in [Tier -> Nat]
    BY <1>8, EndCounts
  <2>2. TypeOK'
    BY <1>8, <2>1 DEF EndActive, GoTo, TypeOK, locals
  <2> QED
    BY <2>1, <2>2
<1>9. ASSUME NEW k \in Task, EndRss(k) PROVE TypeOK' /\ ActiveExact'
  <2>1. /\ pc' = [pc EXCEPT ![k] = "idle"] /\ pc[k] = "endRss"
        /\ UNCHANGED <<pressure, active, tokens, locals, unreset>>
    BY <1>9 DEF EndRss, GoTo
  <2>2. rss' \in [Tier -> Nat]
    BY <1>0, <1>9 DEF EndRss, TypeOK
  <2>3. TypeOK'
    BY <2>1, <2>2 DEF TypeOK, locals
  <2> QED
    BY <1>0, <2>1, <2>3, CountKept
<1>10. ASSUME \/ \E l \in Pressure : UpdatePressure(l)
              \/ ResetHourlyTokens
              \/ \E t \in Tier : ResetTier(t)
       PROVE  TypeOK' /\ ActiveExact'
  BY <1>0, <1>10, CountKept
  DEF UpdatePressure, ResetHourlyTokens, ResetTier, TypeOK, usage, locals
<1>11. CASE UNCHANGED vars
  BY <1>0, <1>11, CountKept DEF vars, TypeOK
<1> QED
  BY <1>1, <1>2, <1>3, <1>4, <1>5, <1>6, <1>7, <1>8, <1>9, <1>10, <1>11
  DEF Next, TaskStep

\* The counters have their types: active_tasks never wraps; and it is the
\* number of started tasks.
THEOREM CountCorrect == Spec => [](TypeOK /\ ActiveExact)
<1>1. Init => TypeOK /\ ActiveExact
  <2> SUFFICES ASSUME Init PROVE TypeOK /\ ActiveExact
    OBVIOUS
  <2>1. TypeOK
    BY DEF Init, TypeOK, Pressure
  <2>2. \A t \in Tier : Counted(t) = {}
    BY DEF Init, Counted
  <2> QED
    BY <2>1, <2>2, FS_EmptySet DEF Init, ActiveExact
<1> QED
  BY <1>1, CountStep, PTL DEF Spec

-----------------------------------------------------------------------------
(* The concurrent limit *)

\* The tasks of a tier that have passed the check of the limit and are not
\* counted yet.
Passed(t) == {k \in Task : TierOf[k] = t /\ pc[k] \in {"tokens", "rss", "sum", "start"}}

\* The bound on the submissions in progress.
InFlightBounded == Cardinality(InFlight) <= MaxInFlight

\* A task that has passed the check has used up its place.
RoomLeft ==
    \A t \in Tier :
        active[t] + Cardinality(Passed(t)) <= MaxConcurrent[t] + MaxInFlight - 1

\* No step but the start of check_admission adds a submission.
LEMMA InFlightStep == TypeOK /\ InFlightBounded /\ [Next]_vars => InFlightBounded'
<1> SUFFICES ASSUME TypeOK, InFlightBounded, [Next]_vars
             PROVE  Cardinality(InFlight') <= MaxInFlight
  BY DEF InFlightBounded
<1>0. /\ pc \in [Task -> Labels] /\ MaxInFlight \in Nat
      /\ InFlight \subseteq Task /\ InFlight' \subseteq Task
  BY GovernorAssumption DEF TypeOK, Labels, InFlight
<1>1. ASSUME InFlight' \subseteq InFlight
      PROVE  Cardinality(InFlight') <= MaxInFlight
  <2>1. /\ Cardinality(InFlight') <= Cardinality(InFlight)
        /\ Cardinality(InFlight') \in Nat /\ Cardinality(InFlight) \in Nat
    BY <1>0, <1>1, TaskSubsets
  <2> QED
    BY <1>0, <2>1 DEF InFlightBounded
<1>2. ASSUME NEW k \in Task, CheckAdmission(k)
      PROVE  Cardinality(InFlight') <= MaxInFlight
  <2>1. /\ k \notin InFlight /\ InFlight' = InFlight \union {k}
        /\ Cardinality(InFlight) < MaxInFlight
    BY <1>0, <1>2 DEF CheckAdmission, GoTo, InFlight, Checking
  <2>2. /\ Cardinality(InFlight') = Cardinality(InFlight) + 1
        /\ Cardinality(InFlight) \in Nat
    BY <1>0, <2>1, TaskSets
  <2> QED
    BY <1>0, <2>1, <2>2
<1>3. ASSUME NEW k \in Task, NEW l, pc' = [pc EXCEPT ![k] = l],
             pc[k] \in Checking \union {"startRss"} \/ l \notin Checking \union {"startRss"}
      PROVE  InFlight' \subseteq InFlight
  BY <1>0, <1>3 DEF InFlight
<1>4. ASSUME NEW k \in Task,
             \/ LoadActive(k) \/ LoadTokens(k) \/ LoadRss(k) \/ Decide(k)
             \/ StartActive(k) \/ StartRss(k) \/ EndActive(k) \/ EndRss(k)
      PROVE  InFlight' \subseteq InFlight
  <2>1. \E l : /\ pc' = [pc EXCEPT ![k] = l]
               /\ \/ pc[k] \in Checking \union {"startRss"}
                  \/ l \notin Checking \union {"startRss"}
    BY <1>4 DEF LoadActive, LoadTokens, LoadRss, Decide, StartActive, StartRss,
                EndActive, EndRss, GoTo, Checking
  <2> QED
    BY <1>3, <2>1
<1>5. ASSUME UNCHANGED pc PROVE InFlight' \subseteq InFlight
  BY <1>5 DEF InFlight
<1> QED
  BY <1>1, <1>2, <1>4, <1>5
  DEF Next, TaskStep, SumTier, TokensUsed, UpdatePressure, ResetHourlyTokens,
      ResetTier, vars

\* A step that raises no count and lets no task pass keeps the room.
LEMMA RoomKept ==
    ASSUME TypeOK, TypeOK', RoomLeft,
           \A t \in Tier : active'[t] <= active[t] /\ Passed(t)' \subseteq Passed(t)
    PROVE  RoomLeft'
<1> SUFFICES ASSUME NEW t \in Tier
             PROVE  active'[t] + Cardinality(Passed(t)')
                      <= MaxConcurrent[t] + MaxInFlight - 1
  BY DEF RoomLeft
<1>1. /\ Cardinality(Passed(t)') \in Nat /\ Cardinality(Passed(t)) \in Nat
      /\ Cardinality(Passed(t)') <= Cardinality(Passed(t))
  <2>1. Passed(t) \subseteq Task /\ Passed(t)' \subseteq Passed(t)
    BY DEF Passed
  <2> QED
    BY <2>1, TaskSubsets
<1>2. active[t] \in Nat /\ active'[t] \in Nat /\ active'[t] <= active[t]
  BY DEF TypeOK
<1>3. MaxConcurrent[t] \in Nat /\ MaxInFlight \in Nat
  BY GovernorAssumption
<1>4. active[t] + Cardinality(Passed(t)) <= MaxConcurrent[t] + MaxInFlight - 1
  BY DEF RoomLeft
<1> QED
  BY <1>1, <1>2, <1>3, <1>4

\* A task that passes the check finds a place below the limit, and the
\* others that have passed are other submissions in progress.
LEMMA PassKeepsRoom ==
    ASSUME TypeOK, RoomLeft, InFlightBounded, InFlightBounded',
           NEW k \in Task, LoadActive(k), pc' = [pc EXCEPT ![k] = "tokens"],
           active[TierOf[k]] < MaxConcurrent[TierOf[k]]
    PROVE  RoomLeft'
<1> SUFFICES ASSUME NEW t \in Tier
             PROVE  active'[t] + Cardinality(Passed(t)')
                      <= MaxConcurrent[t] + MaxInFlight - 1
  BY DEF RoomLeft
<1>1. active' = active /\ pc \in [Task -> Labels] /\ active[t] \in Nat
  BY DEF LoadActive, usage, TypeOK, Labels
<1>2. MaxConcurrent[t] \in Nat /\ MaxInFlight \in Nat
  BY GovernorAssumption
<1>3. CASE t = TierOf[k]
  <2>1. Passed(t)' \subseteq InFlight' /\ InFlight' \subseteq Task
    BY DEF Passed, InFlight, Checking
  <2>2. /\ Cardinality(Passed(t)') \in Nat /\ Cardinality(InFlight') \in Nat
        /\ Cardinality(Passed(t)') <= Cardinality(InFlight')
    BY <2>1, TaskSubsets
  <2>3. Cardinality(InFlight') <= MaxInFlight
    BY DEF InFlightBounded
  <2> QED
    BY <1>1, <1>2, <1>3, <2>2, <2>3
<1>4. CASE t # TierOf[k]
  <2>1. Passed(t)' = Passed(t)
    BY <1>1, <1>4 DEF Passed
  <2> QED
    BY <1>1, <2>1 DEF RoomLeft
<1> QED
  BY <1>3, <1>4

\* A task that is counted gives up the place it had.
LEMMA StartKeepsRoom ==
    ASSUME TypeOK, RoomLeft, NEW k \in Task, StartActive(k)
    PROVE  RoomLeft'
<1> SUFFICES ASSUME NEW t \in Tier
             PROVE  active'[t] + Cardinality(Passed(t)')
                      <= MaxConcurrent[t] + MaxInFlight - 1
  BY DEF RoomLeft
<1>1. /\ pc \in [Task -> Labels] /\ active \in [Tier -> Nat]
      /\ pc[k] = "start" /\ pc' = [pc EXCEPT ![k] = "startRss"]
      /\ active' = [active EXCEPT ![TierOf[k]] = @ + 1]
  BY DEF StartActive, GoTo, TypeOK, Labels
<1>2. active[t] + Cardinality(Passed(t)) <= MaxConcurrent[t] + MaxInFlight - 1
  BY DEF RoomLeft
<1>3. Passed(t) \subseteq Task
  BY DEF Passed
<1>4. Cardinality(Passed(t)) \in Nat
  BY <1>3, TaskSets
<1>5. MaxConcurrent[t] \in Nat /\ MaxInFlight \in Nat
  BY GovernorAssumption
<1>6. CASE t = TierOf[k]
  <2>1. k \in Passed(t) /\ Passed(t)' = Passed(t) \ {k}
    BY <1>1, <1>6 DEF Passed
  <2>2. Cardinality(Passed(t)') = Cardinality(Passed(t)) - 1
    BY <1>3, <2>1, TaskSets
  <2>3. active'[t] = active[t] + 1 /\ active[t] \in Nat
    BY <1>1, <1>6
  <2> QED
    BY <1>2, <1>4, <1>5, <2>2, <2>3
<1>7. CASE t # TierOf[k]
  <2>1. Passed(t)' = Passed(t) /\ active'[t] = active[t]
    BY <1>1, <1>7 DEF Passed
  <2> QED
    BY <1>2, <2>1
<1> QED
  BY <1>6, <1>7

\* Every step keeps the room.
LEMMA RoomStep ==
    TypeOK /\ TypeOK' /\ InFlightBounded /\ InFlightBounded' /\ RoomLeft /\ [Next]_vars
        => RoomLeft'
<1> SUFFICES ASSUME TypeOK, TypeOK', InFlightBounded, InFlightBounded', RoomLeft,
                    [Next]_vars
             PROVE  RoomLeft'
  OBVIOUS
<1>0. /\ pc \in [Task -> Labels] /\ active \in [Tier -> Nat]
      /\ TierOf \in [Task -> Tier] /\ MaxConcurrent \in [Tier -> Nat]
  BY GovernorAssumption DEF TypeOK, Labels
<1>1. ASSUME UNCHANGED <<pc, active>> PROVE RoomLeft'
  BY <1>0, <1>1, RoomKept DEF Passed
<1>2. ASSUME NEW k \in Task, NEW l, pc' = [pc EXCEPT ![k] = l], UNCHANGED active,
             \/ pc[k] \in {"tokens", "rss", "sum", "start"}
             \/ l \notin {"tokens", "rss", "sum", "start"}
      PROVE  RoomLeft'
  <2>1. \A t \in Tier : Passed(t)' \subseteq Passed(t)
    BY <1>0, <1>2 DEF Passed
  <2> QED
    BY <1>0, <1>2, <2>1, RoomKept
<1>3. ASSUME NEW k \in Task,
             \/ CheckAdmission(k) \/ LoadTokens(k) \/ LoadRss(k) \/ Decide(k)
             \/ StartRss(k) \/ EndRss(k)
      PROVE  RoomLeft'
  <2>1. /\ UNCHANGED active
        /\ \E l : /\ pc' = [pc EXCEPT ![k] = l]
                  /\ \/ pc[k] \in {"tokens", "rss", "sum", "start"}
                     \/ l \notin {"tokens", "rss", "sum", "start"}
    BY <1>3 DEF CheckAdmission, LoadTokens, LoadRss, Decide, StartRss, EndRss,
                GoTo, usage
  <2> QED
    BY <1>2, <2>1
<1>4. ASSUME NEW k \in Task, LoadActive(k) PROVE RoomLeft'
  <2>1. CASE active[TierOf[k]] >= MaxConcurrent[TierOf[k]]
    <3>1. UNCHANGED active /\ pc' = [pc EXCEPT ![k] = "idle"]
      BY <1>4, <2>1 DEF LoadActive, GoTo, usage
    <3> QED
      BY <1>2, <3>1
  <2>2. CASE ~(active[TierOf[k]] >= MaxConcurrent[TierOf[k]])
    <3>1. /\ pc' = [pc EXCEPT ![k] = "tokens"]
          /\ active[TierOf[k]] < MaxConcurrent[TierOf[k]]
      BY <1>0, <1>4, <2>2 DEF LoadActive, GoTo
    <3> QED
      BY <1>4, <3>1, PassKeepsRoom
  <2> QED
    BY <2>1, <2>2
<1>5. ASSUME NEW k \in Task, StartActive(k) PROVE RoomLeft'
  BY <1>5, StartKeepsRoom
<1>6. ASSUME NEW k \in Task, EndActive(k) PROVE RoomLeft'
  <2>1. \A t \in Tier : Passed(t)' \subseteq Passed(t)
    BY <1>0, <1>6 DEF EndActive, GoTo, Passed
  <2>2. \A t \in Tier : active'[t] <= active[t]
    BY <1>0, <1>6 DEF EndActive
  <2> QED
    BY <2>1, <2>2, RoomKept
<1> QED
  BY <1>1, <1>3, <1>4, <1>5, <1>6
  DEF Next, TaskStep, SumTier, TokensUsed, UpdatePressure, ResetHourlyTokens,
      ResetTier, vars, usage

\* Racing submissions take a tier past max_concurrent by at most their
\* number less one; one submission at a time keeps the limit exactly.
THEOREM ConcurrencyHolds == Spec => []ConcurrencyBounded
<1>1. Init => InFlightBounded /\ RoomLeft
  <2> SUFFICES ASSUME Init PROVE InFlightBounded /\ RoomLeft
    OBVIOUS
  <2>1. InFlight = {} /\ \A t \in Tier : Passed(t) = {}
    BY DEF Init, InFlight, Passed, Checking
  <2>2. Cardinality({}) = 0
    BY FS_EmptySet
  <2>3. MaxInFlight \in Nat /\ MaxInFlight >= 1
    BY GovernorAssumption
  <2>4. InFlightBounded
    BY <2>1, <2>2, <2>3 DEF InFlightBounded
  <2>5. ASSUME NEW t \in Tier
        PROVE  active[t] + Cardinality(Passed(t)) <= MaxConcurrent[t] + MaxInFlight - 1
    <3>1. active[t] = 0 /\ Cardinality(Passed(t)) = 0 /\ MaxConcurrent[t] \in Nat
      BY <2>1, <2>2, GovernorAssumption DEF Init
    <3> QED
      BY <2>3, <3>1
  <2> QED
    BY <2>4, <2>5 DEF RoomLeft
<1>2. TypeOK /\ RoomLeft => ConcurrencyBounded
  <2> SUFFICES ASSUME TypeOK, RoomLeft, NEW t \in Tier
               PROVE  active[t] <= MaxConcurrent[t] + MaxInFlight - 1
    BY DEF ConcurrencyBounded
  <2>1. Passed(t) \subseteq Task
    BY DEF Passed
  <2>2. Cardinality(Passed(t)) \in Nat /\ active[t] \in Nat
    BY <2>1, TaskSets DEF TypeOK
  <2> QED
    BY <2>2, GovernorAssumption DEF RoomLeft
<1> QED
  BY <1>1, <1>2, CountCorrect, InFlightStep, RoomStep, PTL DEF Spec

-----------------------------------------------------------------------------
(* The two phases *)

\* A task past the token check fits the budget of its tier.
EstimateFits ==
    \A k \in Task : pc[k] \in {"rss", "sum", "start", "startRss", "running"}
        => Tokens[k] <= MaxTokens[TierOf[k]]

\* Only the token check lets a task on.
LEMMA EstimateStep == TypeOK /\ EstimateFits /\ [Next]_vars => EstimateFits'
<1> SUFFICES ASSUME TypeOK, EstimateFits, [Next]_vars PROVE EstimateFits'
  OBVIOUS
<1> DEFINE on == {"rss", "sum", "start", "startRss", "running"}
<1>0. /\ pc \in [Task -> Labels] /\ tokens \in [Tier -> Nat]
      /\ TierOf \in [Task -> Tier] /\ Tokens \in [Task -> Nat]
      /\ MaxTokens \in [Tier -> Nat]
  BY GovernorAssumption DEF TypeOK, Labels
<1>1. ASSUME NEW k \in Task, NEW l, pc' = [pc EXCEPT ![k] = l], pc[k] \in on \/ l \notin on
      PROVE  EstimateFits'
  BY <1>0, <1>1 DEF EstimateFits
<1>2. ASSUME NEW k \in Task,
             \/ CheckAdmission(k) \/ LoadActive(k) \/ LoadRss(k) \/ Decide(k)
             \/ StartActive(k) \/ StartRss(k) \/ EndActive(k) \/ EndRss(k)
      PROVE  EstimateFits'
  <2>1. \E l : pc' = [pc EXCEPT ![k] = l] /\ (pc[k] \in on \/ l \notin on)
    BY <1>2 DEF CheckAdmission, LoadActive, LoadRss, Decide, StartActive, StartRss,
                EndActive, EndRss, GoTo
  <2> QED
    BY <1>1, <2>1
<1>3. ASSUME NEW k \in Task, LoadTokens(k) PROVE EstimateFits'
  <2>1. CASE tokens[TierOf[k]] + Tokens[k] > MaxTokens[TierOf[k]]
    <3>1. pc' = [pc EXCEPT ![k] = "idle"]
      BY <1>3, <2>1 DEF LoadTokens, GoTo
    <3> QED
      BY <1>1, <3>1
  <2>2. CASE ~(tokens[TierOf[k]] + Tokens[k] > MaxTokens[TierOf[k]])
    <3>1. pc' = [pc EXCEPT ![k] = "rss"]
      BY <1>3, <2>2 DEF LoadTokens, GoTo
    <3>2. Tokens[k] <= MaxTokens[TierOf[k]]
      BY <1>0, <2>2
    <3> QED
      BY <1>0, <3>1, <3>2 DEF EstimateFits
  <2> QED
    BY <2>1, <2>2
<1>4. ASSUME UNCHANGED pc PROVE EstimateFits'
  BY <1>4 DEF EstimateFits
<1> QED
  BY <1>2, <1>3, <1>4
  DEF Next, TaskStep, SumTier, TokensUsed, UpdatePressure, ResetHourlyTokens,
      ResetTier, vars

\* check_runtime never contradicts check_admission: a running task within
\* its estimate is told to wrap up only under critical pressure, and a P0
\* task never.
THEOREM RuntimeHolds == Spec => []RuntimeAgrees
<1>1. Init => EstimateFits
  BY DEF Init, EstimateFits
<1>2. EstimateFits => RuntimeAgrees
  <2> SUFFICES ASSUME EstimateFits, NEW k \in Task, pc[k] = "running",
                      NEW u \in 0..Tokens[k],
                      CheckRuntime(TierOf[k], u) = "Exceeded"
               PROVE  pressure = "Critical" /\ TierOf[k] # P0
    BY DEF RuntimeAgrees
  <2>1. TierOf[k] \in Tier /\ Tokens[k] \in Nat /\ MaxTokens[TierOf[k]] \in Nat
    BY GovernorAssumption
  <2>2. ~(u > MaxTokens[TierOf[k]])
    BY <2>1 DEF EstimateFits
  <2> QED
    BY <2>2 DEF CheckRuntime
<1> QED
  BY <1>1, <1>2, CountCorrect, EstimateStep, PTL DEF Spec

-----------------------------------------------------------------------------
(* Sums.  SumOf is a fold by CHOOSE over the subsets of its domain.  What   *)
(* it computes is stated once, as the cardinality of a set of units, and    *)
(* every law the counters need is then a law of finite sets.                *)

\* One pair for each unit of weight.
Units(w, S) == {u \in S \X Nat : u[2] \in 1..w[u[1]]}

\* A family of subsets of a finite set has a member with no smaller one.
LEMMA MinimalSet ==
    ASSUME NEW S, IsFiniteSet(S), NEW B, B \subseteq SUBSET S, B # {}
    PROVE  \E s \in B : \A r \in B : ~(r \subseteq s /\ r # s)
<1> DEFINE R == StrictSubsetOrdering(S)
<1>1. IsWellFoundedOn(R, SUBSET S)
  BY FS_FiniteSubsetsOfFinite, FS_StrictSubsetOrderingWellFounded
<1> HIDE DEF R
<1>2. PICK s \in B : \A r \in B : ~(<<r, s>> \in R)
  BY <1>1, WFMin
<1>3. ASSUME NEW r \in B, r \subseteq s, r # s PROVE FALSE
  BY <1>2, <1>3 DEF R, StrictSubsetOrdering
<1> QED
  BY <1>3

\* The units of one element, and of one element more.
LEMMA UnitsAdd ==
    ASSUME NEW D, NEW w \in [D -> Nat], NEW S, S \subseteq D, NEW x \in D, x \notin S,
           IsFiniteSet(Units(w, S))
    PROVE  /\ IsFiniteSet(Units(w, S \union {x}))
           /\ Cardinality(Units(w, S \union {x})) = Cardinality(Units(w, S)) + w[x]
<1> DEFINE n == w[x]
           ux == {x} \X (1..n)
<1>1. n \in Nat
  OBVIOUS
<1>2. IsFiniteSet(1..n) /\ Cardinality(1..n) = n
  BY <1>1, FS_Interval
<1>3. IsFiniteSet({x}) /\ Cardinality({x}) = 1
  BY FS_Singleton
<1>4. IsFiniteSet(ux) /\ Cardinality(ux) = n
  <2>1. IsFiniteSet(ux) /\ Cardinality(ux) = Cardinality({x}) * Cardinality(1..n)
    BY <1>2, <1>3, FS_Product
  <2> QED
    BY <1>1, <1>2, <1>3, <2>1
<1>5. Units(w, S \union {x}) = Units(w, S) \union ux
  <2>1. ASSUME NEW u \in Units(w, S \union {x}) PROVE u \in Units(w, S) \union ux
    BY <2>1 DEF Units
  <2>2. ASSUME NEW u \in Units(w, S) PROVE u \in Units(w, S \union {x})
    BY <2>2 DEF Units
  <2>3. ASSUME NEW u \in ux PROVE u \in Units(w, S \union {x})
    BY <1>1, <2>3 DEF Units
  <2> QED
    BY <2>1, <2>2, <2>3
<1>6. Units(w, S) \cap ux = {}
  BY DEF Units
<1>7. Cardinality(Units(w, S)) \in Nat
  BY FS_CardinalityType
<1> HIDE DEF ux, n
<1>8. /\ IsFiniteSet(Units(w, S) \union ux)
      /\ Cardinality(Units(w, S) \union ux)
           = Cardinality(Units(w, S)) + Cardinality(ux) - Cardinality({})
  BY <1>4, <1>6, FS_Union
<1>9. Cardinality({}) = 0
  BY FS_EmptySet
<1>10. Cardinality(Units(w, S) \union ux) = Cardinality(Units(w, S)) + n
  BY <1>1, <1>4, <1>7, <1>8, <1>9
<1> QED
  BY <1>5, <1>8, <1>10 DEF n

\* A finite set of natural weights has finitely many units.
LEMMA UnitsFinite ==
    ASSUME NEW D, NEW w \in [D -> Nat], NEW S, S \subseteq D, IsFiniteSet(S)
    PROVE  IsFiniteSet(Units(w, S)) /\ Cardinality(Units(w, S)) \in Nat
<1> DEFINE B == {s \in SUBSET S : ~IsFiniteSet(Units(w, s))}
<1>1. B = {}
  <2> SUFFICES ASSUME B # {} PROVE FALSE
    OBVIOUS
  <2>1. B \subseteq SUBSET S
    OBVIOUS
  <2> HIDE DEF B
  <2>2. PICK s \in B : \A r \in B : ~(r \subseteq s /\ r # s)
    BY <2>1, MinimalSet
  <2>3. s \subseteq D /\ s \subseteq S /\ ~IsFiniteSet(Units(w, s))
    BY <2>2 DEF B
  <2>4. s # {}
    <3>1. Units(w, {}) = {}
      BY DEF Units
    <3> QED
      BY <2>3, <3>1, FS_EmptySet
  <2>5. PICK x \in s : TRUE
    BY <2>4
  <2>6. IsFiniteSet(Units(w, s \ {x}))
    BY <2>2, <2>3, <2>5 DEF B
  <2>7. s = (s \ {x}) \union {x} /\ x \in D /\ s \ {x} \subseteq D /\ x \notin s \ {x}
    BY <2>3, <2>5
  <2>8. IsFiniteSet(Units(w, (s \ {x}) \union {x}))
    BY <2>6, <2>7, UnitsAdd
  <2> QED
    BY <2>3, <2>7, <2>8
<1>2. IsFiniteSet(Units(w, S))
  BY <1>1
<1> QED
  BY <1>2, FS_CardinalityType

\* SumOf counts the units.
LEMMA SumIsUnits ==
    ASSUME NEW D, NEW w \in [D -> Nat], NEW S, S \subseteq D, IsFiniteSet(S)
    PROVE  SumOf(w, S) = Cardinality(Units(w, S))
<1> DEFINE some(s) == CHOOSE x \in s : TRUE
           Sums(f) == f = [s \in SUBSET S |->
                             IF s = {} THEN 0 ELSE w[some(s)] + f[s \ {some(s)}]]
           count == [s \in SUBSET S |-> Cardinality(Units(w, s))]
           fold == CHOOSE f : Sums(f)
<1>1. SumOf(w, S) = fold[S]
  BY DEF SumOf, MapThenSumSet, MapThenFoldSet
<1>2. \A s : s # {} => some(s) \in s
  OBVIOUS
<1>3. ASSUME NEW s \in SUBSET S, s # {}
      PROVE  /\ s \ {some(s)} \in SUBSET S
             /\ count[s] = w[some(s)] + count[s \ {some(s)}]
  <2> DEFINE x == some(s)
             r == s \ {x}
  <2>1. x \in s
    BY <1>2, <1>3
  <2> HIDE DEF some, x
  <2>2. r \in SUBSET S /\ r \subseteq D /\ x \in D /\ x \notin r /\ s = r \union {x}
    BY <2>1
  <2>3. IsFiniteSet(r)
    BY <2>2, FS_Subset
  <2> HIDE DEF r
  <2>4. IsFiniteSet(Units(w, r)) /\ Cardinality(Units(w, r)) \in Nat
    BY <2>2, <2>3, UnitsFinite
  <2>5. Cardinality(Units(w, r \union {x})) = Cardinality(Units(w, r)) + w[x]
    BY <2>2, <2>4, UnitsAdd
  <2>6. w[x] \in Nat
    BY <2>2
  <2>7. count[s] = Cardinality(Units(w, r \union {x})) /\ count[r] = Cardinality(Units(w, r))
    BY <2>2
  <2>8. count[s] = w[x] + count[r]
    BY <2>4, <2>5, <2>6, <2>7
  <2> QED
    BY <2>2, <2>8 DEF r, x
<1>4. count[{}] = 0
  <2>1. Units(w, {}) = {}
    BY DEF Units
  <2> QED
    BY <2>1, FS_EmptySet
<1>5. Sums(count)
  <2>1. \A s \in SUBSET S :
          count[s] = IF s = {} THEN 0 ELSE w[some(s)] + count[s \ {some(s)}]
    BY <1>3, <1>4
  <2>2. count = [s \in SUBSET S |-> count[s]]
    OBVIOUS
  <2> HIDE DEF count, some
  <2> QED
    BY <2>1, <2>2
<1>6. Sums(fold)
  BY <1>5
<1> HIDE DEF fold
<1>7. \A s \in SUBSET S :
        fold[s] = IF s = {} THEN 0 ELSE w[some(s)] + fold[s \ {some(s)}]
  <2> HIDE DEF some
  <2> QED
    BY <1>6
<1> HIDE DEF count, Sums, some
<1> DEFINE B == {s \in SUBSET S : fold[s] # count[s]}
<1>8. B = {}
  <2> SUFFICES ASSUME B # {} PROVE FALSE
    OBVIOUS
  <2>1. B \subseteq SUBSET S
    OBVIOUS
  <2> HIDE DEF B
  <2>2. PICK s \in B : \A r \in B : ~(r \subseteq s /\ r # s)
    BY <2>1, MinimalSet
  <2>3. s \in SUBSET S /\ fold[s] # count[s]
    BY <2>2 DEF B
  <2>4. s # {}
    BY <1>4, <1>7, <2>3
  <2>5. s \ {some(s)} \in SUBSET S /\ some(s) \in s
    BY <1>2, <1>3, <2>3, <2>4
  <2>6. fold[s \ {some(s)}] = count[s \ {some(s)}]
    BY <2>2, <2>5 DEF B
  <2> QED
    BY <1>3, <1>7, <2>3, <2>4, <2>6
<1>9. fold[S] = count[S]
  BY <1>8
<1> QED
  BY <1>1, <1>9 DEF count

\* The sum is a natural number, nothing has the sum 0, and one element more
\* adds its weight.
LEMMA SumAdd ==
    ASSUME NEW D, NEW w \in [D -> Nat], NEW S, S \subseteq D, IsFiniteSet(S)
    PROVE  /\ SumOf(w, S) \in Nat /\ SumOf(w, {}) = 0
           /\ \A x \in D \ S : SumOf(w, S \union {x}) = SumOf(w, S) + w[x]
           /\ \A x \in S : SumOf(w, S) = SumOf(w, S \ {x}) + w[x]
<1>1. ASSUME NEW T, T \subseteq D, IsFiniteSet(T), NEW x \in D \ T
      PROVE  SumOf(w, T \union {x}) = SumOf(w, T) + w[x]
  <2>1. IsFiniteSet(T \union {x}) /\ T \union {x} \subseteq D /\ x \notin T
    BY <1>1, FS_AddElement
  <2>2. /\ SumOf(w, T) = Cardinality(Units(w, T))
        /\ SumOf(w, T \union {x}) = Cardinality(Units(w, T \union {x}))
    BY <1>1, <2>1, SumIsUnits
  <2>3. IsFiniteSet(Units(w, T))
    BY <1>1, UnitsFinite
  <2> QED
    BY <1>1, <2>1, <2>2, <2>3, UnitsAdd
<1>2. SumOf(w, S) \in Nat
  BY SumIsUnits, UnitsFinite
<1>3. SumOf(w, {}) = 0
  <2>1. Units(w, {}) = {} /\ IsFiniteSet({}) /\ Cardinality({}) = 0
    BY FS_EmptySet DEF Units
  <2> QED
    BY <2>1, SumIsUnits
<1>4. ASSUME NEW x \in S PROVE SumOf(w, S) = SumOf(w, S \ {x}) + w[x]
  <2>1. S \ {x} \subseteq D /\ IsFiniteSet(S \ {x}) /\ x \in D \ (S \ {x})
        /\ S = (S \ {x}) \union {x}
    BY FS_RemoveElement
  <2>2. SumOf(w, (S \ {x}) \union {x}) = SumOf(w, S \ {x}) + w[x]
    BY <1>1, <2>1
  <2> QED
    BY <2>1, <2>2
<1> QED
  BY <1>1, <1>2, <1>3, <1>4

\* A part has no larger sum than the whole, and a union no larger sum than
\* its two parts together.
LEMMA SumUnion ==
    ASSUME NEW D, NEW w \in [D -> Nat], NEW S, S \subseteq D, IsFiniteSet(S),
           NEW T, T \subseteq D, IsFiniteSet(T)
    PROVE  /\ S \subseteq T => SumOf(w, S) <= SumOf(w, T)
           /\ SumOf(w, S \union T) <= SumOf(w, S) + SumOf(w, T)
<1> DEFINE us == Units(w, S)
           ut == Units(w, T)
<1>1. /\ IsFiniteSet(us) /\ Cardinality(us) \in Nat /\ SumOf(w, S) = Cardinality(us)
      /\ IsFiniteSet(ut) /\ Cardinality(ut) \in Nat /\ SumOf(w, T) = Cardinality(ut)
  BY SumIsUnits, UnitsFinite
<1>2. S \subseteq T => us \subseteq ut
  BY DEF Units
<1>3. Units(w, S \union T) = us \union ut
  BY DEF Units
<1>4. IsFiniteSet(S \union T) /\ S \union T \subseteq D
  BY FS_Union
<1>5. SumOf(w, S \union T) = Cardinality(us \union ut)
  BY <1>3, <1>4, SumIsUnits
<1> HIDE DEF us, ut
<1>6. S \subseteq T => SumOf(w, S) <= SumOf(w, T)
  BY <1>1, <1>2, FS_Subset
<1>7. Cardinality(us \union ut)
        = Cardinality(us) + Cardinality(ut) - Cardinality(us \cap ut)
  BY <1>1, FS_Union
<1>8. Cardinality(us \cap ut) \in Nat
  <2>1. us \cap ut \in SUBSET us
    OBVIOUS
  <2> QED
    BY <1>1, <2>1, FS_Subset, FS_CardinalityType
<1> QED
  BY <1>1, <1>5, <1>6, <1>7, <1>8

\* n elements of weight at most m.
LEMMA SumCap ==
    ASSUME NEW D, NEW m \in Nat, NEW w \in [D -> 0..m],
           NEW S, S \subseteq D, IsFiniteSet(S)
    PROVE  SumOf(w, S) <= Cardinality(S) * m
<1> DEFINE B == {s \in SUBSET S : ~(SumOf(w, s) <= Cardinality(s) * m)}
<1>0. w \in [D -> Nat]
  OBVIOUS
<1>1. B = {}
  <2> SUFFICES ASSUME B # {} PROVE FALSE
    OBVIOUS
  <2>1. B \subseteq SUBSET S
    OBVIOUS
  <2> HIDE DEF B
  <2>2. PICK s \in B : \A r \in B : ~(r \subseteq s /\ r # s)
    BY <2>1, MinimalSet
  <2>3. s \subseteq D /\ s \subseteq S /\ ~(SumOf(w, s) <= Cardinality(s) * m)
    BY <2>2 DEF B
  <2>4. s # {}
    <3>1. SumOf(w, {}) = 0 /\ Cardinality({}) = 0
      BY <1>0, SumAdd, FS_EmptySet
    <3>2. 0 * m = 0
      OBVIOUS
    <3> QED
      BY <2>3, <3>1, <3>2
  <2>5. PICK x \in s : TRUE
    BY <2>4
  <2> DEFINE r == s \ {x}
             c == Cardinality(r)
             a == SumOf(w, r)
             b == w[x]
  <2>6. IsFiniteSet(s) /\ IsFiniteSet(r)
    BY <2>3, FS_Subset, FS_RemoveElement
  <2>7. a <= c * m
    BY <2>2, <2>3, <2>5 DEF B
  <2>8. c \in Nat /\ Cardinality(s) = c + 1
    <3>1. Cardinality(s) \in Nat /\ c \in Nat /\ c = Cardinality(s) - 1
      BY <2>5, <2>6, FS_RemoveElement, FS_CardinalityType
    <3> QED
      BY <3>1
  <2>9. a \in Nat /\ SumOf(w, s) = a + b
    <3>1. r \subseteq D
      BY <2>3
    <3> QED
      BY <1>0, <2>3, <2>5, <2>6, <3>1, SumAdd
  <2>10. b \in Nat /\ b <= m
    BY <2>3, <2>5
  <2> HIDE DEF a, b, c
  <2>11. (c + 1) * m = c * m + m /\ c * m \in Nat
    BY <2>8
  <2>12. SumOf(w, s) <= (c + 1) * m
    BY <2>7, <2>9, <2>10, <2>11
  <2> QED
    BY <2>3, <2>8, <2>12
<1> QED
  BY <1>1

\* Only the weights of the elements of S count.
LEMMA SumSame ==
    ASSUME NEW D, NEW w \in [D -> Nat], NEW v \in [D -> Nat],
           NEW S, S \subseteq D, IsFiniteSet(S), \A x \in S : v[x] = w[x]
    PROVE  SumOf(v, S) = SumOf(w, S)
<1>1. Units(v, S) = Units(w, S)
  BY DEF Units
<1> QED
  BY <1>1, SumIsUnits

\* The sum after one weight has changed.
LEMMA SumUpdate ==
    ASSUME NEW D, NEW w \in [D -> Nat], NEW v \in [D -> Nat], IsFiniteSet(D),
           NEW x \in D, \A y \in D \ {x} : v[y] = w[y]
    PROVE  SumOf(v, D) = SumOf(w, D) - w[x] + v[x]
<1> DEFINE r == D \ {x}
<1>1. IsFiniteSet(r) /\ r \subseteq D
  BY FS_RemoveElement
<1>2. SumOf(v, D) = SumOf(v, r) + v[x]
  BY SumAdd
<1>3. SumOf(w, D) = SumOf(w, r) + w[x]
  BY SumAdd
<1>4. SumOf(w, r) \in Nat
  BY <1>1, SumAdd
<1>5. SumOf(v, r) = SumOf(w, r)
  BY <1>1, SumSame
<1>6. w[x] \in Nat /\ v[x] \in Nat
  OBVIOUS
<1> QED
  BY <1>2, <1>3, <1>4, <1>5, <1>6

-----------------------------------------------------------------------------
(* The exact RSS *)

\* The tasks whose RSS is allocated, in any tier.
Held == {k \in Task : pc[k] \in {"running", "endRss"}}

\* The tiers together hold what those tasks were admitted with.
RssTotal == SumOf(rss, Tier) = SumOf(Rss, Held)

\* What the proofs about sums need of the constants and the state.
LEMMA RssTypes ==
    ASSUME TypeOK
    PROVE  /\ Rss \in [Task -> Nat] /\ rss \in [Tier -> Nat] /\ TierOf \in [Task -> Tier]
           /\ pc \in [Task -> Labels] /\ IsFiniteSet(Tier)
           /\ \A S : S \subseteq Task => IsFiniteSet(S)
           /\ \A t : Holding(t) \subseteq Held
           /\ Held \subseteq Task
<1>1. /\ Rss \in [Task -> Nat] /\ rss \in [Tier -> Nat] /\ TierOf \in [Task -> Tier]
      /\ pc \in [Task -> Labels] /\ IsFiniteSet(Tier)
  BY GovernorAssumption DEF TypeOK, Labels
<1>2. \A S : S \subseteq Task => IsFiniteSet(S)
  BY TaskSets
<1> QED
  BY <1>1, <1>2 DEF Held, Holding

\* Steps that move no task in or out of the held ones keep the sums.
LEMMA RssKept ==
    ASSUME RssExact, RssTotal, UNCHANGED rss, pc \in [Task -> Labels],
           \A k \in Task : pc[k] \in {"running", "endRss"}
                             <=> pc'[k] \in {"running", "endRss"}
    PROVE  RssExact' /\ RssTotal'
<1>1. Held' = Held /\ \A t \in Tier : Holding(t)' = Holding(t)
  BY DEF Held, Holding
<1> QED
  BY <1>1 DEF RssExact, RssTotal

\* A task that starts adds its RSS to its tier.
LEMMA StartSums ==
    ASSUME TypeOK, RssExact, RssTotal, NEW k \in Task, StartRss(k)
    PROVE  RssExact' /\ RssTotal'
<1> DEFINE tk == TierOf[k]
           n == rss[tk] + Rss[k]
<1>0. /\ Rss \in [Task -> Nat] /\ rss \in [Tier -> Nat] /\ tk \in Tier
      /\ pc \in [Task -> Labels] /\ IsFiniteSet(Tier)
      /\ \A S : S \subseteq Task => IsFiniteSet(S)
  BY RssTypes
<1>1. /\ pc[k] = "startRss" /\ pc' = [pc EXCEPT ![k] = "running"]
      /\ rss' = [rss EXCEPT ![tk] = n]
  BY DEF StartRss, GoTo
<1>2. /\ k \notin Held /\ Held' = Held \union {k} /\ Held \subseteq Task
      /\ k \notin Holding(tk) /\ Holding(tk)' = Holding(tk) \union {k}
      /\ Holding(tk) \subseteq Task
      /\ \A t \in Tier : t # tk => Holding(t)' = Holding(t)
  BY <1>0, <1>1 DEF Held, Holding
<1>3. /\ SumOf(Rss, Holding(tk)') = SumOf(Rss, Holding(tk)) + Rss[k]
      /\ SumOf(Rss, Held') = SumOf(Rss, Held) + Rss[k]
      /\ SumOf(Rss, Held) \in Nat
  BY <1>0, <1>2, SumAdd
<1>4. n \in Nat /\ rss[tk] \in Nat /\ Rss[k] \in Nat
  BY <1>0
<1> HIDE DEF n, tk
<1>5. SumOf(rss', Tier) = SumOf(rss, Tier) - rss[tk] + n
  <2>1. /\ rss' \in [Tier -> Nat] /\ rss'[tk] = n
        /\ \A t \in Tier \ {tk} : rss'[t] = rss[t]
    BY <1>0, <1>1, <1>4
  <2>2. SumOf(rss', Tier) = SumOf(rss, Tier) - rss[tk] + rss'[tk]
    BY <1>0, <2>1, SumUpdate
  <2> QED
    BY <2>1, <2>2
<1>6. RssTotal'
  BY <1>3, <1>4, <1>5 DEF RssTotal, n
<1>7. ASSUME NEW t \in Tier PROVE rss'[t] = SumOf(Rss, Holding(t)')
  <2>1. CASE t = tk
    BY <1>0, <1>1, <1>3, <2>1 DEF RssExact, n
  <2>2. CASE t # tk
    BY <1>0, <1>1, <1>2, <2>2 DEF RssExact
  <2> QED
    BY <2>1, <2>2
<1> QED
  BY <1>6, <1>7 DEF RssExact

\* A task that ends takes away what it added: the subtraction does not
\* saturate.
LEMMA EndSums ==
    ASSUME TypeOK, RssExact, RssTotal, NEW k \in Task, EndRss(k)
    PROVE  RssExact' /\ RssTotal'
<1> DEFINE tk == TierOf[k]
           n == rss[tk] - Rss[k]
<1>0. /\ Rss \in [Task -> Nat] /\ rss \in [Tier -> Nat] /\ tk \in Tier
      /\ pc \in [Task -> Labels] /\ IsFiniteSet(Tier)
      /\ \A S : S \subseteq Task => IsFiniteSet(S)
  BY RssTypes
<1>1. pc[k] = "endRss" /\ pc' = [pc EXCEPT ![k] = "idle"]
  BY DEF EndRss, GoTo
<1>2. /\ k \in Held /\ Held' = Held \ {k} /\ Held \subseteq Task
      /\ k \in Holding(tk) /\ Holding(tk)' = Holding(tk) \ {k}
      /\ Holding(tk) \subseteq Task
      /\ \A t \in Tier : t # tk => Holding(t)' = Holding(t)
  BY <1>0, <1>1 DEF Held, Holding
<1>3. /\ SumOf(Rss, Holding(tk)) = SumOf(Rss, Holding(tk)') + Rss[k]
      /\ SumOf(Rss, Held) = SumOf(Rss, Held') + Rss[k]
  <2>1. ASSUME NEW S, S \subseteq Task, k \in S
        PROVE  SumOf(Rss, S) = SumOf(Rss, S \ {k}) + Rss[k]
    BY <1>0, <2>1, SumAdd
  <2> QED
    BY <1>2, <2>1
<1>4. SumOf(Rss, Held') \in Nat /\ SumOf(Rss, Holding(tk)') \in Nat
  <2>1. Held' \subseteq Task /\ Holding(tk)' \subseteq Task
    BY <1>2
  <2> QED
    BY <1>0, <2>1, SumAdd
<1>5. Rss[k] \in Nat /\ rss[tk] \in Nat /\ rss[tk] = SumOf(Rss, Holding(tk))
  BY <1>0 DEF RssExact
<1>6. rss[tk] >= Rss[k] /\ n \in Nat
  BY <1>3, <1>4, <1>5
<1>7. rss' = [rss EXCEPT ![tk] = n]
  BY <1>6 DEF EndRss
<1> HIDE DEF n, tk
<1>8. SumOf(rss', Tier) = SumOf(rss, Tier) - rss[tk] + n
  <2>1. /\ rss' \in [Tier -> Nat] /\ rss'[tk] = n
        /\ \A t \in Tier \ {tk} : rss'[t] = rss[t]
    BY <1>0, <1>6, <1>7
  <2>2. SumOf(rss', Tier) = SumOf(rss, Tier) - rss[tk] + rss'[tk]
    BY <1>0, <2>1, SumUpdate
  <2> QED
    BY <2>1, <2>2
<1>9. RssTotal'
  BY <1>3, <1>4, <1>5, <1>8 DEF RssTotal, n
<1>10. ASSUME NEW t \in Tier PROVE rss'[t] = SumOf(Rss, Holding(t)')
  <2>1. CASE t = tk
    BY <1>0, <1>3, <1>4, <1>5, <1>7, <2>1 DEF RssExact, n
  <2>2. CASE t # tk
    BY <1>0, <1>2, <1>7, <2>2 DEF RssExact
  <2> QED
    BY <2>1, <2>2
<1> QED
  BY <1>9, <1>10 DEF RssExact

\* Every step keeps the sums.
LEMMA RssStep == TypeOK /\ RssExact /\ RssTotal /\ [Next]_vars => RssExact' /\ RssTotal'
<1> SUFFICES ASSUME TypeOK, RssExact, RssTotal, [Next]_vars PROVE RssExact' /\ RssTotal'
  OBVIOUS
<1> DEFINE held == {"running", "endRss"}
<1>0. pc \in [Task -> Labels]
  BY DEF TypeOK, Labels
<1>1. ASSUME NEW k \in Task, NEW l, pc' = [pc EXCEPT ![k] = l], UNCHANGED rss,
             pc[k] \in held <=> l \in held
      PROVE  RssExact' /\ RssTotal'
  BY <1>0, <1>1, RssKept
<1>2. ASSUME NEW k \in Task,
             \/ CheckAdmission(k) \/ LoadActive(k) \/ LoadTokens(k) \/ LoadRss(k)
             \/ Decide(k) \/ StartActive(k) \/ EndActive(k)
      PROVE  RssExact' /\ RssTotal'
  <2>1. /\ UNCHANGED rss
        /\ \E l : pc' = [pc EXCEPT ![k] = l] /\ (pc[k] \in held <=> l \in held)
    BY <1>2 DEF CheckAdmission, LoadActive, LoadTokens, LoadRss, Decide, StartActive,
                EndActive, GoTo, usage
  <2> QED
    BY <1>1, <2>1
<1>3. ASSUME UNCHANGED <<pc, rss>> PROVE RssExact' /\ RssTotal'
  BY <1>0, <1>3, RssKept
<1> QED
  BY <1>2, <1>3, StartSums, EndSums
  DEF Next, TaskStep, SumTier, TokensUsed, UpdatePressure, ResetHourlyTokens,
      ResetTier, vars, usage

\* rss_allocated_mb of every tier, and of all of them together, is what the
\* started tasks were admitted with, however the steps of the threads fall.
LEMMA RssInvariant == Spec => [](RssExact /\ RssTotal)
<1>1. Init => RssExact /\ RssTotal
  <2> SUFFICES ASSUME Init PROVE RssExact /\ RssTotal
    OBVIOUS
  <2>0. /\ Rss \in [Task -> Nat] /\ IsFiniteSet(Tier) /\ MaxTaskRss \in Nat
        /\ rss \in [Tier -> 0..0] /\ \A t \in Tier : rss[t] = 0
    BY GovernorAssumption DEF Init
  <2>1. Held = {} /\ \A t \in Tier : Holding(t) = {}
    BY DEF Init, Held, Holding
  <2>2. SumOf(Rss, {}) = 0
    BY <2>0, SumAdd, FS_EmptySet
  <2>3. SumOf(rss, Tier) <= Cardinality(Tier) * 0 /\ SumOf(rss, Tier) \in Nat
    <3>1. rss \in [Tier -> Nat]
      BY <2>0
    <3> QED
      BY <2>0, <3>1, SumCap, SumAdd
  <2>4. SumOf(rss, Tier) = 0
    <3>1. Cardinality(Tier) \in Nat
      BY <2>0, FS_CardinalityType
    <3>2. Cardinality(Tier) * 0 = 0
      BY <3>1
    <3> QED
      BY <2>3, <3>2
  <2> QED
    BY <2>0, <2>1, <2>2, <2>4 DEF RssExact, RssTotal
<1> QED
  BY <1>1, CountCorrect, RssStep, PTL DEF Spec

\* Every tier's rss_allocated_mb is exact: no interleaving of task_started
\* and task_ended loses or invents memory.
THEOREM RssHolds == Spec => []RssExact
BY RssInvariant, PTL

-----------------------------------------------------------------------------
(* The ceiling.  The sum that admits a task adds up loads of different      *)
(* moments, so the state of the governor alone does not bound the memory:   *)
(* the argument is about the order in which the tasks began their sums.     *)
(* The history is the stamp of that order and, for each task, the tasks in  *)
(* flight when it began and the tasks whose RSS its sum has met.            *)

\* The tasks that have begun the sum and not been refused or ended, and
\* those of them that were admitted.
Admitted == {"start", "startRss", "running", "endRss"}
Begun    == {k \in Task : pc[k] \in Admitted \union {"sum"}}

\* The histories that explain the state: every task that began before k was
\* in flight then, has been met by the sum of k, or is still to be met; the
\* sum is no smaller than what it has met; and an admitted task fits under
\* the ceiling beside what its sum has met.
Explains(clock, stamp, flight, met) ==
    /\ \A k \in Begun : stamp[k] < clock
    /\ \A k \in Begun : \A p \in Begun : p # k => stamp[p] # stamp[k]
    /\ \A k \in Begun : Cardinality(flight[k]) <= MaxInFlight - 1
    /\ \A k \in Begun : \A p \in Begun : stamp[p] < stamp[k] =>
          \/ p \in flight[k] \union met[k]
          \/ pc[k] = "sum" /\ p \in Held /\ TierOf[p] \in unread[k]
    /\ \A k \in Begun : pc[k] = "sum" => SumOf(Rss, met[k]) <= total[k]
    /\ \A k \in Begun : pc[k] \in Admitted =>
          SumOf(Rss, met[k]) + Rss[k] <= RssCeiling - Headroom

\* There is such a history.
Explained ==
    \E clock \in Nat, stamp \in [Task -> Nat], flight \in [Task -> SUBSET Task],
       met \in [Task -> SUBSET Task] : Explains(clock, stamp, flight, met)

\* A step that no sum notices keeps the history: no task begins, none of
\* those begun starts or ends its sum, and none of the held ones stays begun
\* without being held.
LEMMA HistoryKept ==
    ASSUME NEW clock, NEW stamp, NEW flight, NEW met,
           Explains(clock, stamp, flight, met), Begun' \subseteq Begun,
           \A k \in Begun' : /\ pc[k] = "sum" <=> pc'[k] = "sum"
                             /\ k \in Held => k \in Held'
                             /\ unread'[k] = unread[k] /\ total'[k] = total[k]
    PROVE  Explains(clock, stamp, flight, met)'
<1>1. \A k \in Begun' : /\ k \in Begun
                        /\ pc'[k] \in Admitted => pc[k] \in Admitted
  BY DEF Begun, Admitted
<1>2. \A k \in Begun' : stamp[k] < clock /\ Cardinality(flight[k]) <= MaxInFlight - 1
  BY <1>1 DEF Explains
<1>3. \A k \in Begun' : \A p \in Begun' : p # k => stamp[p] # stamp[k]
  BY <1>1 DEF Explains
<1>4. \A k \in Begun' : \A p \in Begun' : stamp[p] < stamp[k] =>
        \/ p \in flight[k] \union met[k]
        \/ pc'[k] = "sum" /\ p \in Held' /\ TierOf[p] \in unread'[k]
  BY <1>1 DEF Explains
<1>5. \A k \in Begun' : /\ pc'[k] = "sum" => SumOf(Rss, met[k]) <= total'[k]
                        /\ pc'[k] \in Admitted =>
                             SumOf(Rss, met[k]) + Rss[k] <= RssCeiling - Headroom
  BY <1>1 DEF Explains
<1> QED
  BY <1>2, <1>3, <1>4, <1>5 DEF Explains

\* A task that begins its sum comes after all that have begun: each of them
\* is in flight or still to be met.
LEMMA BeginExplained ==
    ASSUME TypeOK, InFlightBounded, Explained, NEW k \in Task, LoadRss(k),
           pc' = [pc EXCEPT ![k] = "sum"],
           unread' = [unread EXCEPT ![k] = Tier], total' = [total EXCEPT ![k] = 0]
    PROVE  Explained'
<1>0. /\ pc \in [Task -> Labels] /\ TierOf \in [Task -> Tier] /\ Rss \in [Task -> Nat]
      /\ unread \in [Task -> SUBSET Tier] /\ total \in [Task -> Nat] /\ pc[k] = "rss"
  BY RssTypes DEF TypeOK, LoadRss
<1>1. PICK clock \in Nat, stamp \in [Task -> Nat], flight \in [Task -> SUBSET Task],
           met \in [Task -> SUBSET Task] : Explains(clock, stamp, flight, met)
  BY DEF Explained
<1> PICK others : others = InFlight \ {k}
  OBVIOUS
<1> DEFINE stamp1 == [stamp EXCEPT ![k] = clock]
           flight1 == [flight EXCEPT ![k] = others]
           met1 == [met EXCEPT ![k] = {}]
<1>2. /\ k \notin Begun /\ Begun' = Begun \union {k} /\ Begun \subseteq Task
      /\ Held' = Held /\ k \in InFlight /\ InFlight \subseteq Task
      /\ \A p \in Begun : p \in InFlight \/ p \in Held
  BY <1>0 DEF Begun, Admitted, Held, InFlight, Checking
<1>3. /\ stamp1 \in [Task -> Nat] /\ flight1 \in [Task -> SUBSET Task]
      /\ met1 \in [Task -> SUBSET Task]
      /\ stamp1[k] = clock /\ flight1[k] = InFlight \ {k} /\ met1[k] = {}
      /\ \A p \in Task : p # k =>
            /\ stamp1[p] = stamp[p] /\ flight1[p] = flight[p] /\ met1[p] = met[p]
            /\ pc'[p] = pc[p] /\ unread'[p] = unread[p] /\ total'[p] = total[p]
      /\ pc'[k] = "sum" /\ unread'[k] = Tier /\ total'[k] = 0
  BY <1>0, <1>1, <1>2
<1> HIDE DEF stamp1, flight1, met1
<1>4. \A p \in Begun' : stamp1[p] < clock + 1
  BY <1>1, <1>2, <1>3 DEF Explains
<1>5. \A j \in Begun' : \A p \in Begun' : p # j => stamp1[p] # stamp1[j]
  BY <1>1, <1>2, <1>3 DEF Explains
<1>6. \A j \in Begun' : Cardinality(flight1[j]) <= MaxInFlight - 1
  <2>1. Cardinality(InFlight \ {k}) <= MaxInFlight - 1
    <3>1. /\ Cardinality(InFlight \ {k}) = Cardinality(InFlight) - 1
          /\ Cardinality(InFlight) \in Nat /\ MaxInFlight \in Nat
      BY <1>2, TaskSets, GovernorAssumption
    <3> QED
      BY <3>1 DEF InFlightBounded
  <2> QED
    BY <1>1, <1>2, <1>3, <2>1 DEF Explains
<1>7. ASSUME NEW j \in Begun', NEW p \in Begun', stamp1[p] < stamp1[j]
      PROVE  \/ p \in flight1[j] \union met1[j]
             \/ pc'[j] = "sum" /\ p \in Held' /\ TierOf[p] \in unread'[j]
  <2>1. CASE j = k
    <3>1. p # k /\ p \in Begun /\ p \in Task
      BY <1>1, <1>2, <1>3, <1>7, <2>1
    <3> QED
      BY <1>0, <1>2, <1>3, <2>1, <3>1
  <2>2. CASE j # k
    <3>1. j \in Begun /\ j \in Task /\ stamp[j] < clock
      BY <1>1, <1>2, <2>2 DEF Explains
    <3>2. p # k
      BY <1>1, <1>3, <1>7, <2>2, <3>1
    <3>3. p \in Begun /\ p \in Task /\ stamp[p] < stamp[j]
      BY <1>2, <1>3, <1>7, <2>2, <3>1, <3>2
    <3> QED
      BY <1>1, <1>2, <1>3, <2>2, <3>1, <3>2, <3>3 DEF Explains
  <2> QED
    BY <2>1, <2>2
<1>8. ASSUME NEW j \in Begun'
      PROVE  /\ pc'[j] = "sum" => SumOf(Rss, met1[j]) <= total'[j]
             /\ pc'[j] \in Admitted =>
                  SumOf(Rss, met1[j]) + Rss[j] <= RssCeiling - Headroom
  <2>1. CASE j = k
    <3>1. SumOf(Rss, {}) = 0
      BY <1>0, SumAdd, FS_EmptySet
    <3>2. SumOf(Rss, met1[k]) = 0 /\ 0 <= 0
      BY <1>3, <3>1
    <3>3. pc'[k] \notin Admitted
      BY <1>3 DEF Admitted
    <3> QED
      BY <1>3, <2>1, <3>2, <3>3
  <2>2. CASE j # k
    BY <1>1, <1>2, <1>3, <2>2 DEF Explains
  <2> QED
    BY <2>1, <2>2
<1>9. Explains(clock + 1, stamp1, flight1, met1)'
  BY <1>4, <1>5, <1>6, <1>7, <1>8 DEF Explains
<1>10. clock + 1 \in Nat
  OBVIOUS
<1> QED
  BY <1>3, <1>9, <1>10 DEF Explained

\* A load meets the tasks the tier holds, and adds their RSS to the sum.
LEMMA LoadExplained ==
    ASSUME TypeOK, RssExact, Explained, NEW k \in Task, NEW t \in Tier, SumTier(k, t)
    PROVE  Explained'
<1>0. /\ pc \in [Task -> Labels] /\ TierOf \in [Task -> Tier] /\ Rss \in [Task -> Nat]
      /\ unread \in [Task -> SUBSET Tier] /\ total \in [Task -> Nat] /\ pc[k] = "sum"
      /\ pc' = pc /\ rss[t] \in Nat
      /\ \A S : S \subseteq Task => IsFiniteSet(S)
  BY RssTypes DEF TypeOK, SumTier
<1>1. PICK clock \in Nat, stamp \in [Task -> Nat], flight \in [Task -> SUBSET Task],
           met \in [Task -> SUBSET Task] : Explains(clock, stamp, flight, met)
  BY DEF Explained
<1> PICK held : held = Holding(t)
  OBVIOUS
<1> DEFINE met1 == [met EXCEPT ![k] = @ \union held]
<1>2. /\ k \in Begun /\ Begun' = Begun /\ Begun \subseteq Task /\ Held' = Held
      /\ Holding(t) \subseteq Task
      /\ \A p \in Held : TierOf[p] = t => p \in Holding(t)
  BY <1>0 DEF Begun, Admitted, Held, Holding
<1>3. /\ met1 \in [Task -> SUBSET Task] /\ met1[k] = met[k] \union Holding(t)
      /\ \A p \in Task : p # k =>
           met1[p] = met[p] /\ unread'[p] = unread[p] /\ total'[p] = total[p]
      /\ unread'[k] = unread[k] \ {t} /\ total'[k] = total[k] + rss[t]
  BY <1>0, <1>1, <1>2 DEF SumTier
<1> HIDE DEF met1
<1>4. ASSUME NEW j \in Begun, NEW p \in Begun, stamp[p] < stamp[j]
      PROVE  \/ p \in flight[j] \union met1[j]
             \/ pc[j] = "sum" /\ p \in Held /\ TierOf[p] \in unread'[j]
  <2>1. /\ j \in Task /\ p \in Task
        /\ \/ p \in flight[j] \union met[j]
           \/ pc[j] = "sum" /\ p \in Held /\ TierOf[p] \in unread[j]
    BY <1>1, <1>2, <1>4 DEF Explains
  <2>2. CASE j = k
    BY <1>2, <1>3, <2>1, <2>2
  <2>3. CASE j # k
    BY <1>3, <2>1, <2>3
  <2> QED
    BY <2>2, <2>3
<1>5. SumOf(Rss, met1[k]) <= total'[k]
  <2> DEFINE m == met[k]
             h == Holding(t)
             a == SumOf(Rss, m)
             b == SumOf(Rss, h)
  <2>1. m \subseteq Task /\ h \subseteq Task /\ m \union h \subseteq Task
    BY <1>1, <1>2
  <2>2. IsFiniteSet(m) /\ IsFiniteSet(h) /\ IsFiniteSet(m \union h)
    BY <1>0, <2>1
  <2>3. a <= total[k] /\ total[k] \in Nat
    BY <1>0, <1>1, <1>2 DEF Explains
  <2>4. b = rss[t]
    BY DEF RssExact
  <2> HIDE DEF m, h
  <2>5. a \in Nat /\ b \in Nat /\ SumOf(Rss, m \union h) \in Nat
    BY <1>0, <2>1, <2>2, SumAdd
  <2>6. SumOf(Rss, m \union h) <= a + b
    BY <1>0, <2>1, <2>2, SumUnion
  <2> HIDE DEF a, b
  <2>7. SumOf(Rss, m \union h) <= total[k] + rss[t]
    BY <2>3, <2>4, <2>5, <2>6
  <2> QED
    BY <1>3, <2>7 DEF m, h
<1>6. ASSUME NEW j \in Begun
      PROVE  /\ pc[j] = "sum" => SumOf(Rss, met1[j]) <= total'[j]
             /\ pc[j] \in Admitted =>
                  SumOf(Rss, met1[j]) + Rss[j] <= RssCeiling - Headroom
  <2>1. CASE j = k
    BY <1>0, <1>5, <2>1 DEF Admitted
  <2>2. CASE j # k
    BY <1>1, <1>2, <1>3, <2>2 DEF Explains
  <2> QED
    BY <2>1, <2>2
<1>7. /\ \A j \in Begun : stamp[j] < clock /\ Cardinality(flight[j]) <= MaxInFlight - 1
      /\ \A j \in Begun : \A p \in Begun : p # j => stamp[p] # stamp[j]
  BY <1>1 DEF Explains
<1>8. Explains(clock, stamp, flight, met1)'
  BY <1>0, <1>2, <1>4, <1>6, <1>7 DEF Explains
<1> QED
  BY <1>1, <1>3, <1>8 DEF Explained

\* An admission: nothing is left to be met, and the task fits.
LEMMA AdmitExplained ==
    ASSUME TypeOK, Explained, NEW k \in Task, Decide(k),
           pc' = [pc EXCEPT ![k] = "start"], total[k] + Rss[k] <= RssCeiling - Headroom
    PROVE  Explained'
<1>0. /\ pc \in [Task -> Labels] /\ Rss \in [Task -> Nat]
      /\ total \in [Task -> Nat] /\ pc[k] = "sum" /\ unread[k] = {} /\ unread' = unread
      /\ \A p \in Task : p # k => total'[p] = total[p] /\ pc'[p] = pc[p]
      /\ pc'[k] = "start" /\ RssCeiling \in Nat /\ Headroom \in Nat
      /\ \A S : S \subseteq Task => IsFiniteSet(S)
  BY RssTypes, GovernorAssumption DEF TypeOK, Labels, Decide
<1>1. PICK clock \in Nat, stamp \in [Task -> Nat], flight \in [Task -> SUBSET Task],
           met \in [Task -> SUBSET Task] : Explains(clock, stamp, flight, met)
  BY DEF Explained
<1>2. k \in Begun /\ Begun' = Begun /\ Begun \subseteq Task /\ Held' = Held
  BY <1>0 DEF Begun, Admitted, Held
<1>3. SumOf(Rss, met[k]) + Rss[k] <= RssCeiling - Headroom
  <2>1. met[k] \subseteq Task /\ SumOf(Rss, met[k]) <= total[k]
    BY <1>0, <1>1, <1>2 DEF Explains
  <2>2. SumOf(Rss, met[k]) \in Nat /\ total[k] \in Nat /\ Rss[k] \in Nat
    BY <1>0, <2>1, SumAdd
  <2> QED
    BY <1>0, <2>1, <2>2
<1>4. ASSUME NEW j \in Begun, NEW p \in Begun, stamp[p] < stamp[j]
      PROVE  \/ p \in flight[j] \union met[j]
             \/ pc'[j] = "sum" /\ p \in Held /\ TierOf[p] \in unread[j]
  BY <1>0, <1>1, <1>2, <1>4 DEF Explains
<1>5. ASSUME NEW j \in Begun
      PROVE  /\ pc'[j] = "sum" => SumOf(Rss, met[j]) <= total'[j]
             /\ pc'[j] \in Admitted =>
                  SumOf(Rss, met[j]) + Rss[j] <= RssCeiling - Headroom
  BY <1>0, <1>1, <1>2, <1>3 DEF Explains, Admitted
<1>6. /\ \A j \in Begun : stamp[j] < clock /\ Cardinality(flight[j]) <= MaxInFlight - 1
      /\ \A j \in Begun : \A p \in Begun : p # j => stamp[p] # stamp[j]
  BY <1>1 DEF Explains
<1>7. Explains(clock, stamp, flight, met)'
  BY <1>0, <1>2, <1>4, <1>5, <1>6 DEF Explains
<1> QED
  BY <1>1, <1>7 DEF Explained

\* Every step can be explained.
LEMMA ExplainedStep ==
    TypeOK /\ InFlightBounded /\ RssExact /\ Explained /\ [Next]_vars => Explained'
<1> SUFFICES ASSUME TypeOK, InFlightBounded, RssExact, Explained, [Next]_vars
             PROVE  Explained'
  OBVIOUS
<1>0. /\ pc \in [Task -> Labels] /\ Rss \in [Task -> Nat] /\ total \in [Task -> Nat]
      /\ RssCeiling \in Nat /\ Headroom \in Nat
  BY RssTypes, GovernorAssumption DEF TypeOK, Labels
<1> DEFINE Quiet == /\ Begun' \subseteq Begun
                    /\ \A k \in Begun' : /\ pc[k] = "sum" <=> pc'[k] = "sum"
                                         /\ k \in Held => k \in Held'
                                         /\ unread'[k] = unread[k]
                                         /\ total'[k] = total[k]
<1>1. ASSUME Quiet PROVE Explained'
  <2>1. PICK clock \in Nat, stamp \in [Task -> Nat], flight \in [Task -> SUBSET Task],
             met \in [Task -> SUBSET Task] : Explains(clock, stamp, flight, met)
    BY DEF Explained
  <2>2. Explains(clock, stamp, flight, met)'
    BY <1>1, <2>1, HistoryKept
  <2> QED
    BY <2>1, <2>2 DEF Explained
<1>2. ASSUME NEW k \in Task, NEW l, pc' = [pc EXCEPT ![k] = l],
             \A p \in Task : p # k => unread'[p] = unread[p] /\ total'[p] = total[p],
             \/ l \notin Admitted \union {"sum"}
             \/ /\ pc[k] \in Admitted /\ l \in Admitted /\ UNCHANGED locals
                /\ pc[k] \in {"running", "endRss"} => l \in {"running", "endRss"}
      PROVE  Quiet
  <2>1. CASE l \notin Admitted \union {"sum"}
    BY <1>0, <1>2, <2>1 DEF Begun, Held, Admitted
  <2>2. CASE /\ pc[k] \in Admitted /\ l \in Admitted /\ UNCHANGED locals
             /\ pc[k] \in {"running", "endRss"} => l \in {"running", "endRss"}
    BY <1>0, <1>2, <2>2 DEF Begun, Held, Admitted, locals
  <2> QED
    BY <1>2, <2>1, <2>2
<1>3. ASSUME NEW k \in Task,
             \/ CheckAdmission(k) \/ LoadActive(k) \/ LoadTokens(k)
             \/ StartActive(k) \/ StartRss(k) \/ EndActive(k) \/ EndRss(k)
      PROVE  Explained'
  <2>1. /\ UNCHANGED locals
        /\ \E l : /\ pc' = [pc EXCEPT ![k] = l]
                  /\ \/ l \notin Admitted \union {"sum"}
                     \/ /\ pc[k] \in Admitted /\ l \in Admitted
                        /\ pc[k] \in {"running", "endRss"} => l \in {"running", "endRss"}
    BY <1>3 DEF CheckAdmission, LoadActive, LoadTokens, StartActive, StartRss,
                EndActive, EndRss, GoTo, Admitted
  <2>2. Quiet
    BY <1>2, <2>1 DEF locals
  <2> QED
    BY <1>1, <2>2
<1>4. ASSUME NEW k \in Task, LoadRss(k) PROVE Explained'
  <2>1. CASE rss[TierOf[k]] + Rss[k] > MaxRss[TierOf[k]]
    <3>1. pc' = [pc EXCEPT ![k] = "idle"] /\ UNCHANGED locals
      BY <1>4, <2>1 DEF LoadRss, GoTo
    <3>2. Quiet
      BY <1>2, <3>1 DEF Admitted, locals
    <3> QED
      BY <1>1, <3>2
  <2>2. CASE ~(rss[TierOf[k]] + Rss[k] > MaxRss[TierOf[k]])
    <3>1. /\ pc' = [pc EXCEPT ![k] = "sum"] /\ unread' = [unread EXCEPT ![k] = Tier]
          /\ total' = [total EXCEPT ![k] = 0]
      BY <1>4, <2>2 DEF LoadRss, GoTo
    <3> QED
      BY <1>4, <3>1, BeginExplained
  <2> QED
    BY <2>1, <2>2
<1>5. ASSUME NEW k \in Task, Decide(k) PROVE Explained'
  <2>1. CASE total[k] + Rss[k] > RssCeiling - Headroom
    <3>1. /\ pc' = [pc EXCEPT ![k] = "idle"] /\ UNCHANGED unread
          /\ \A p \in Task : p # k => total'[p] = total[p]
      BY <1>0, <1>5, <2>1 DEF Decide, GoTo
    <3>2. Quiet
      BY <1>2, <3>1 DEF Admitted
    <3> QED
      BY <1>1, <3>2
  <2>2. CASE ~(total[k] + Rss[k] > RssCeiling - Headroom)
    <3>1. /\ pc' = [pc EXCEPT ![k] = "start"]
          /\ total[k] + Rss[k] <= RssCeiling - Headroom
      BY <1>0, <1>5, <2>2 DEF Decide, GoTo
    <3> QED
      BY <1>5, <3>1, AdmitExplained
  <2> QED
    BY <2>1, <2>2
<1>6. ASSUME NEW k \in Task, NEW t \in Tier, SumTier(k, t) PROVE Explained'
  BY <1>6, LoadExplained
<1>7. ASSUME UNCHANGED <<pc, locals>> PROVE Explained'
  <2>1. Quiet
    BY <1>7 DEF Begun, Held, locals
  <2> QED
    BY <1>1, <2>1
<1> QED
  BY <1>3, <1>4, <1>5, <1>6, <1>7
  DEF Next, TaskStep, TokensUsed, UpdatePressure, ResetHourlyTokens, ResetTier, vars,
      locals

\* Of a set of tasks that have begun, one began last.
LEMMA LastBegun ==
    ASSUME NEW S, S # {}, NEW clock \in Nat, NEW stamp,
           \A k \in S : stamp[k] \in Nat /\ stamp[k] < clock
    PROVE  \E k \in S : \A p \in S : stamp[p] <= stamp[k]
<1> DEFINE ages == {clock - stamp[k] : k \in S}
           R == {ss \in Nat \X Nat : ss[1] < ss[2]}
<1>1. ages \subseteq Nat /\ ages # {}
  OBVIOUS
<1>2. IsWellFoundedOn(R, Nat)
  BY NatLessThanWellFounded DEF OpToRel
<1> HIDE DEF R, ages
<1>3. PICK a \in ages : \A b \in ages : ~(<<b, a>> \in R)
  BY <1>1, <1>2, WFMin
<1>4. PICK k \in S : a = clock - stamp[k]
  BY <1>3 DEF ages
<1>5. ASSUME NEW p \in S PROVE stamp[p] <= stamp[k]
  <2>1. clock - stamp[p] \in ages
    BY DEF ages
  <2>2. ~(clock - stamp[p] < a)
    BY <1>1, <1>3, <2>1 DEF R
  <2> QED
    BY <1>4, <2>2
<1> QED
  BY <1>5

\* In every state that has a history the memory is bounded: the task that
\* began last was admitted beside every other one but those in flight.
LEMMA ExplainedBounds ==
    ASSUME TypeOK, RssTotal, Explained
    PROVE  CeilingBounded
<1>0. /\ Rss \in [Task -> 0..MaxTaskRss] /\ Rss \in [Task -> Nat] /\ MaxTaskRss \in Nat
      /\ RssCeiling \in Nat /\ Headroom \in 0..RssCeiling /\ MaxInFlight \in Nat \ {0}
      /\ Held \subseteq Task /\ \A S : S \subseteq Task => IsFiniteSet(S)
  BY RssTypes, GovernorAssumption
<1>1. PICK clock \in Nat, stamp \in [Task -> Nat], flight \in [Task -> SUBSET Task],
           met \in [Task -> SUBSET Task] : Explains(clock, stamp, flight, met)
  BY DEF Explained
<1>2. Held \subseteq Begun /\ \A k \in Held : pc[k] \in Admitted /\ pc[k] # "sum"
  BY DEF Held, Begun, Admitted
<1> DEFINE free == RssCeiling - Headroom
           n == MaxInFlight - 1
<1>3. free \in Nat /\ n \in Nat /\ n * MaxTaskRss \in Nat
  BY <1>0
<1> SUFFICES SumOf(Rss, Held) <= free + n * MaxTaskRss
  BY DEF CeilingBounded, RssTotal
<1> HIDE DEF free, n
<1>4. CASE Held = {}
  <2>1. SumOf(Rss, {}) = 0
    BY <1>0, SumAdd, FS_EmptySet
  <2> QED
    BY <1>3, <1>4, <2>1
<1>5. CASE Held # {}
  <2>1. \A k \in Held : stamp[k] \in Nat /\ stamp[k] < clock
    BY <1>0, <1>1, <1>2 DEF Explains
  <2>2. PICK k \in Held : \A p \in Held : stamp[p] <= stamp[k]
    BY <1>5, <2>1, LastBegun
  <2> DEFINE f == flight[k]
             m == met[k]
             c == Cardinality(f)
             a == SumOf(Rss, f)
             b == SumOf(Rss, m)
             w == Rss[k]
  <2>3. k \in Task /\ f \subseteq Task /\ m \subseteq Task
    BY <1>0, <1>1, <2>2
  <2>4. c <= n /\ b + w <= free
    BY <1>1, <1>2, <2>2 DEF Explains, n, free
  <2>5. Held \subseteq f \union (m \union {k})
    <3> SUFFICES ASSUME NEW p \in Held, p # k PROVE p \in f \union m
      OBVIOUS
    <3>1. stamp[p] <= stamp[k] /\ stamp[p] # stamp[k]
      BY <1>1, <1>2, <2>2 DEF Explains
    <3>2. stamp[p] < stamp[k]
      BY <2>1, <2>2, <3>1
    <3> QED
      BY <1>1, <1>2, <2>2, <3>2 DEF Explains
  <2> HIDE DEF f, m
  <2>6. /\ IsFiniteSet(f) /\ IsFiniteSet(m) /\ IsFiniteSet(Held)
        /\ m \union {k} \subseteq Task /\ IsFiniteSet(m \union {k})
        /\ f \union (m \union {k}) \subseteq Task /\ IsFiniteSet(f \union (m \union {k}))
    BY <1>0, <2>3
  <2>7. a \in Nat /\ b \in Nat /\ w \in Nat
    BY <1>0, <2>3, <2>6, SumAdd
  <2>8. a <= c * MaxTaskRss /\ c \in Nat
    BY <1>0, <2>3, <2>6, SumCap, FS_CardinalityType
  <2>9. SumOf(Rss, m \union {k}) <= b + w /\ SumOf(Rss, m \union {k}) \in Nat
    <3>1. SumOf(Rss, m \union {k}) \in Nat
      BY <1>0, <2>6, SumAdd
    <3>2. CASE k \in m
      <4>1. m \union {k} = m
        BY <3>2
      <4>2. SumOf(Rss, m \union {k}) = b
        BY <4>1
      <4> QED
        BY <2>7, <4>2
    <3>3. CASE k \notin m
      <4>1. SumOf(Rss, m \union {k}) = b + w
        BY <1>0, <2>3, <2>6, <3>3, SumAdd
      <4> QED
        BY <2>7, <4>1
    <3> QED
      BY <3>1, <3>2, <3>3
  <2>10. /\ SumOf(Rss, f \union (m \union {k})) <= a + SumOf(Rss, m \union {k})
         /\ SumOf(Rss, f \union (m \union {k})) \in Nat
    BY <1>0, <2>3, <2>6, SumUnion, SumAdd
  <2>11. SumOf(Rss, Held) <= SumOf(Rss, f \union (m \union {k})) /\ SumOf(Rss, Held) \in Nat
    BY <1>0, <2>5, <2>6, SumUnion, SumAdd
  <2>12. c * MaxTaskRss <= n * MaxTaskRss
    <3>1. n - c \in Nat /\ MaxTaskRss \in Nat
      BY <1>0, <1>3, <2>4, <2>8
    <3>2. (n - c) * MaxTaskRss \in Nat
      BY <3>1
    <3>3. (n - c) * MaxTaskRss = n * MaxTaskRss - c * MaxTaskRss
      BY <1>0, <1>3, <2>8
    <3>4. c * MaxTaskRss \in Nat
      BY <1>0, <2>8
    <3> QED
      BY <1>3, <3>2, <3>3, <3>4
  <2>13. c * MaxTaskRss \in Nat
    BY <1>0, <2>8
  <2> HIDE DEF a, b, c, w
  <2> QED
    BY <1>3, <2>4, <2>7, <2>8, <2>9, <2>10, <2>11, <2>12, <2>13
<1> QED
  BY <1>4, <1>5

\* Racing submissions take the memory of the started tasks past the ceiling
\* less the headroom by at most the RSS of those racing with the last of
\* them, although its sum over the tiers is no snapshot.
THEOREM CeilingHolds == Spec => []CeilingBounded
<1>1. Init => InFlightBounded /\ Explained
  <2> SUFFICES ASSUME Init PROVE InFlightBounded /\ Explained
    OBVIOUS
  <2>1. InFlight = {} /\ Begun = {}
    BY DEF Init, InFlight, Begun, Checking, Admitted
  <2>2. InFlightBounded
    BY <2>1, FS_EmptySet, GovernorAssumption DEF InFlightBounded
  <2>3. Explains(0, [k \in Task |-> 0], [k \in Task |-> {}], [k \in Task |-> {}])
    BY <2>1 DEF Explains
  <2>4. /\ 0 \in Nat /\ [k \in Task |-> 0] \in [Task -> Nat]
        /\ [k \in Task |-> {}] \in [Task -> SUBSET Task]
    OBVIOUS
  <2>5. Explained
    BY <2>3, <2>4 DEF Explained
  <2> QED
    BY <2>2, <2>5
<1>2. TypeOK /\ RssTotal /\ Explained => CeilingBounded
  BY ExplainedBounds
<1> QED
  BY <1>1, <1>2, CountCorrect, RssInvariant, InFlightStep, ExplainedStep, PTL DEF Spec
=============================================================================
