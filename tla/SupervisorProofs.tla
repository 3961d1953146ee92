-------------------------- MODULE SupervisorProofs --------------------------
(***************************************************************************)
(* For any number of children, of callers and any restart policy, the      *)
(* supervisor stays within its restart budget and loses no failure,        *)
(* wherever the calls are interleaved between their two locks.             *)
(*                                                                         *)
(* Both properties are inductive together with TypeOK, which ties every    *)
(* tracker's table to its failure count (a restart granted later never     *)
(* replaces an older entry) and makes the tables finite.                   *)
(*                                                                         *)
(* The second part is about health(): one that no other call overlaps is   *)
(* current.  The third is about one tracker and its restart rate, and the  *)
(* fourth carries it over: the supervisor implements each child's tracker. *)
(***************************************************************************)
EXTENDS SupervisorCalls, FiniteSetTheorems, TLAPS

\* What HealthStatus::compute yields is a status of its type.
LEMMA ComputeType ==
    ASSUME NEW table \in Table
    PROVE  Compute(table) \in [level : {"Healthy", "Degraded", "Recovering"}, table : Table]
<1>1. Level(table) \in {"Healthy", "Degraded", "Recovering"}
  BY DEF Level
<1> QED
  BY <1>1 DEF Compute

\* Return frees the caller and keeps the types of the calls.
LEMMA ReturnType ==
    ASSUME TypeOK, NEW c \in Caller, Return(c)
    PROVE  /\ pc' \in [Caller -> {"idle", "failing", "refresh", "publish", "read"}]
           /\ kind' \in [Caller -> {"none", "register", "update", "health"}]
           /\ snap' \in [Caller -> Table]
  BY DEF TypeOK, Return, GoTo, NoChildren, Table

\* Every step keeps the types.
LEMMA TypeStep == TypeOK /\ [Next]_vars => TypeOK'
<1> SUFFICES ASSUME TypeOK, [Next]_vars PROVE TypeOK'
  OBVIOUS
<1> USE DEF TypeOK
<1>1. CASE Tick
  <2>1. 0..now \subseteq 0..now' /\ now' \in Nat
    BY <1>1 DEF Tick
  <2>2. \A p \in Process : times'[p] \subseteq (1..failures'[p]) \X (0..now')
    BY <1>1, <2>1 DEF Tick, childVars
  <2> QED
    BY <1>1, <2>1, <2>2 DEF Tick, childVars, callVars
<1>2. ASSUME NEW c \in Caller, NEW p \in Process, Register(c, p) PROVE TypeOK'
  BY <1>2 DEF Register, GoTo, Table, ProcessState
<1>3. ASSUME NEW c \in Caller, NEW p \in Process, NEW s \in ProcessState,
             UpdateState(c, p, s)
      PROVE  TypeOK'
  <2>1. state' \in Table
    BY <1>3 DEF UpdateState, Table
  <2>2. /\ failures' \in [Process -> Nat] /\ times' \in [Process -> SUBSET (Nat \X Nat)]
        /\ \A q \in Process : times'[q] \subseteq (1..failures'[q]) \X (0..now')
    BY <1>3 DEF UpdateState
  <2>3. /\ pc' \in [Caller -> {"idle", "failing", "refresh", "publish", "read"}]
        /\ kind' \in [Caller -> {"none", "register", "update", "health"}]
        /\ target' \in [Caller -> Process]
    BY <1>3 DEF UpdateState, GoTo
  <2> QED
    BY <1>3, <2>1, <2>2, <2>3 DEF UpdateState
<1>4. ASSUME NEW c \in Caller, RestartGranted(c) PROVE TypeOK'
  <2> DEFINE p == target[c]
  <2>1. p \in Process /\ failures[p] \in Nat
    OBVIOUS
  <2>2. state' \in Table
    BY <1>4 DEF RestartGranted, Table, ProcessState
  <2>3. failures' \in [Process -> Nat] /\ failures'[p] = failures[p] + 1
        /\ \A q \in Process : q # p => failures'[q] = failures[q] /\ times'[q] = times[q]
    BY <1>4 DEF RestartGranted
  <2>4. times'[p] = Recent(times[p], now) \union {<<failures[p] + 1, now>>}
    BY <1>4, <2>1 DEF RestartGranted, Stamp
  <2>5. times'[p] \subseteq (1..failures'[p]) \X (0..now)
    <3>1. Recent(times[p], now) \subseteq (1..failures[p]) \X (0..now)
      BY <2>1 DEF Recent
    <3>2. 1..failures[p] \subseteq 1..failures'[p]
      BY <2>1, <2>3
    <3>3. <<failures[p] + 1, now>> \in (1..failures'[p]) \X (0..now)
      BY <2>1, <2>3
    <3> QED
      BY <2>4, <3>1, <3>2, <3>3
  <2>6. \A q \in Process : times'[q] \subseteq (1..failures'[q]) \X (0..now)
    BY <2>3, <2>5
  <2>7. times' \in [Process -> SUBSET (Nat \X Nat)]
    <3>1. DOMAIN times' = Process /\ times' = [q \in Process |-> times'[q]]
      BY <1>4 DEF RestartGranted
    <3>2. \A q \in Process : times'[q] \in SUBSET (Nat \X Nat)
      BY <2>3, <2>6
    <3> QED
      BY <3>1, <3>2
  <2>8. pc' \in [Caller -> {"idle", "failing", "refresh", "publish", "read"}]
    BY <1>4 DEF RestartGranted, GoTo
  <2> QED
    BY <1>4, <2>2, <2>3, <2>6, <2>7, <2>8 DEF RestartGranted
<1>5. ASSUME NEW c \in Caller, RestartRefused(c) PROVE TypeOK'
  <2>1. /\ times' \in [Process -> SUBSET (Nat \X Nat)]
        /\ \A q \in Process : times'[q] \subseteq times[q]
    BY <1>5 DEF RestartRefused, Recent
  <2> QED
    BY <1>5, <2>1, ReturnType DEF RestartRefused
<1>6. ASSUME NEW c \in Caller, CallHealth(c) PROVE TypeOK'
  BY <1>6 DEF CallHealth, GoTo, childVars
<1>7. ASSUME NEW c \in Caller, Snapshot(c) PROVE TypeOK'
  BY <1>7 DEF Snapshot, GoTo, childVars
<1>8. ASSUME NEW c \in Caller, Publish(c) PROVE TypeOK'
  <2>1. health' \in [level : {"Healthy", "Degraded", "Recovering"}, table : Table]
    BY <1>8, ComputeType DEF Publish
  <2>2. CASE GoTo(c, "read") /\ UNCHANGED <<kind, snap>>
    BY <1>8, <2>1, <2>2 DEF Publish, GoTo, childVars
  <2>3. CASE Return(c)
    BY <1>8, <2>1, <2>3, ReturnType DEF Publish, childVars
  <2> QED
    BY <1>8, <2>2, <2>3 DEF Publish
<1>9. ASSUME NEW c \in Caller, ReadHealth(c) PROVE TypeOK'
  BY <1>9, ReturnType DEF ReadHealth, childVars
<1>10. CASE UNCHANGED vars
  BY <1>10 DEF vars
<1> QED
  BY <1>1, <1>2, <1>3, <1>4, <1>5, <1>6, <1>7, <1>8, <1>9, <1>10
  DEF Next, Call, Continue

\* The supervisor's table and its callers are always of their types.
THEOREM TypeCorrect == Spec => []TypeOK
<1>1. Init => TypeOK
  <2> SUFFICES ASSUME Init PROVE TypeOK
    OBVIOUS
  <2>1. state \in Table
    BY DEF Init, NoChildren, Table
  <2>2. health \in [level : {"Healthy", "Degraded", "Recovering"}, table : Table]
    BY <2>1, ComputeType DEF Init
  <2> QED
    BY <2>1, <2>2 DEF Init, TypeOK, NoChildren, Table
<1> QED
  BY <1>1, TypeStep, PTL DEF Spec

-----------------------------------------------------------------------------
(* The restart budget *)

\* The tables are finite.
LEMMA TimesFinite ==
    ASSUME TypeOK, NEW p \in Process
    PROVE  IsFiniteSet(times[p]) /\ Cardinality(times[p]) \in Nat
<1>1. IsFiniteSet(1..failures[p]) /\ IsFiniteSet(0..now)
  BY FS_Interval DEF TypeOK
<1>2. IsFiniteSet((1..failures[p]) \X (0..now))
  BY <1>1, FS_Product
<1>3. times[p] \subseteq (1..failures[p]) \X (0..now)
  BY DEF TypeOK
<1> QED
  BY <1>2, <1>3, FS_Subset, FS_CardinalityType

\* Pruning a table does not lengthen it.
LEMMA PruneShortens ==
    ASSUME TypeOK, NEW p \in Process
    PROVE  /\ IsFiniteSet(Recent(times[p], now))
           /\ Cardinality(Recent(times[p], now)) \in Nat
           /\ Cardinality(Recent(times[p], now)) <= Cardinality(times[p])
<1>1. Recent(times[p], now) \subseteq times[p]
  BY DEF Recent
<1> QED
  BY <1>1, TimesFinite, FS_Subset, FS_CardinalityType

\* A granted restart lengthens the pruned table by at most one.
LEMMA GrantAddsOne ==
    ASSUME TypeOK, NEW p \in Process, MayRestart(times[p], now), NEW r
    PROVE  Cardinality(Recent(times[p], now) \union {r}) <= MaxRestarts
<1> DEFINE R == Recent(times[p], now)
<1>1. IsFiniteSet(R) /\ Cardinality(R) \in Nat /\ Cardinality(R) < MaxRestarts
  BY PruneShortens DEF MayRestart
<1>2. Cardinality(R \union {r}) = IF r \in R THEN Cardinality(R) ELSE Cardinality(R) + 1
  BY <1>1, FS_AddElement
<1> HIDE DEF R
<1>3. Cardinality(R \union {r}) <= MaxRestarts
  BY <1>1, <1>2, TrackerAssumption
<1> QED
  BY <1>3 DEF R

\* Every step keeps the trackers within the budget.
LEMMA BudgetStep == TypeOK /\ WithinBudget /\ [Next]_vars => WithinBudget'
<1> SUFFICES ASSUME TypeOK, WithinBudget, [Next]_vars, NEW p \in Process
             PROVE  Cardinality(times'[p]) <= MaxRestarts
  BY DEF WithinBudget
<1>0. /\ Cardinality(times[p]) <= MaxRestarts /\ MaxRestarts \in Nat
      /\ Cardinality({}) = 0 /\ times \in [Process -> SUBSET (Nat \X Nat)]
  BY TrackerAssumption, FS_EmptySet DEF WithinBudget, TypeOK
<1>1. CASE UNCHANGED times
  BY <1>0, <1>1
<1>2. ASSUME NEW c \in Caller, NEW q \in Process, Register(c, q)
      PROVE  Cardinality(times'[p]) <= MaxRestarts
  <2>1. times'[p] = times[p] \/ times'[p] = {}
    BY <1>0, <1>2 DEF Register
  <2> QED
    BY <1>0, <2>1
<1>3. ASSUME NEW c \in Caller, NEW q \in Process, NEW s \in ProcessState,
             UpdateState(c, q, s)
      PROVE  Cardinality(times'[p]) <= MaxRestarts
  <2>1. times'[p] = times[p] \/ times'[p] = {}
    BY <1>0, <1>3 DEF UpdateState
  <2>2. CASE times'[p] = times[p]
    BY <1>0, <2>2
  <2>3. CASE times'[p] = {}
    BY <1>0, <2>3
  <2> QED
    BY <2>1, <2>2, <2>3
<1>4. ASSUME NEW c \in Caller, RestartGranted(c)
      PROVE  Cardinality(times'[p]) <= MaxRestarts
  <2>1. CASE p = target[c]
    <3>1. /\ MayRestart(times[p], now)
          /\ times'[p] = Recent(times[p], now) \union {Stamp(failures[p], now)}
      BY <1>0, <1>4, <2>1 DEF RestartGranted
    <3> QED
      BY <3>1, GrantAddsOne
  <2>2. CASE p # target[c]
    BY <1>0, <1>4, <2>2 DEF RestartGranted
  <2> QED
    BY <2>1, <2>2
<1>5. ASSUME NEW c \in Caller, RestartRefused(c)
      PROVE  Cardinality(times'[p]) <= MaxRestarts
  <2>1. times'[p] = times[p] \/ times'[p] = Recent(times[p], now)
    BY <1>0, <1>5 DEF RestartRefused
  <2> QED
    BY <1>0, <2>1, PruneShortens, TimesFinite
<1> QED
  BY <1>1, <1>2, <1>3, <1>4, <1>5
  DEF Next, Call, Continue, Tick, CallHealth, Snapshot, Publish, ReadHealth,
      childVars, vars

\* No interleaving of failure reports gives a child more restarts than the
\* policy has.
THEOREM WithinBudgetHolds == Spec => []WithinBudget
<1>1. Init => WithinBudget
  BY TrackerAssumption, FS_EmptySet DEF Init, WithinBudget
<1> QED
  BY <1>1, TypeCorrect, BudgetStep, PTL DEF Spec

-----------------------------------------------------------------------------
(* No failure is lost *)

\* Every step keeps a settled failure one that has no restart left.
LEMMA ExhaustedStep ==
    TypeOK /\ FailedOnlyWhenExhausted /\ [Next]_vars => FailedOnlyWhenExhausted'
<1> SUFFICES ASSUME TypeOK, FailedOnlyWhenExhausted, [Next]_vars,
                    NEW p \in Process, state'[p] = "Failed",
                    \A c \in Caller : pc'[c] = "failing" => target'[c] # p
             PROVE  Cardinality(times'[p]) >= MaxRestarts
  BY DEF FailedOnlyWhenExhausted
<1>0. /\ state \in Table /\ pc \in [Caller -> {"idle", "failing", "refresh", "publish", "read"}]
      /\ target \in [Caller -> Process] /\ times \in [Process -> SUBSET (Nat \X Nat)]
  BY DEF TypeOK
<1>1. ASSUME state[p] = "Failed", UNCHANGED target, times'[p] = times[p],
             \A c \in Caller : pc[c] = "failing" => pc'[c] = "failing"
      PROVE  Cardinality(times'[p]) >= MaxRestarts
  BY <1>1 DEF FailedOnlyWhenExhausted
<1>2. ASSUME NEW c \in Caller, NEW q \in Process, Register(c, q)
      PROVE  Cardinality(times'[p]) >= MaxRestarts
  <2>1. q # p
    BY <1>0, <1>2 DEF Register, Table
  <2> QED
    BY <1>0, <1>1, <1>2, <2>1 DEF Register, GoTo, Table
<1>3. ASSUME NEW c \in Caller, NEW q \in Process, NEW s \in ProcessState,
             UpdateState(c, q, s)
      PROVE  Cardinality(times'[p]) >= MaxRestarts
  <2>1. q # p
    <3> SUFFICES ASSUME q = p PROVE FALSE
      OBVIOUS
    <3>1. s = "Failed"
      BY <1>0, <1>3 DEF UpdateState, Table
    <3> QED
      BY <1>0, <1>3, <3>1 DEF UpdateState, GoTo
  <2>2. state[p] = "Failed" /\ times'[p] = times[p]
    BY <1>0, <1>3, <2>1 DEF UpdateState, Table
  <2>3. \A d \in Caller : pc[d] = "failing" => target[d] # p
    BY <1>0, <1>3 DEF UpdateState, GoTo
  <2> QED
    BY <2>2, <2>3 DEF FailedOnlyWhenExhausted
<1>4. ASSUME NEW c \in Caller, RestartGranted(c)
      PROVE  Cardinality(times'[p]) >= MaxRestarts
  <2>1. target[c] # p
    BY <1>0, <1>4 DEF RestartGranted, Table
  <2>2. state[p] = "Failed" /\ times'[p] = times[p]
    BY <1>0, <1>4, <2>1 DEF RestartGranted, Table
  <2>3. \A d \in Caller : pc[d] = "failing" => target[d] # p
    BY <1>0, <1>4, <2>1 DEF RestartGranted, GoTo
  <2> QED
    BY <2>2, <2>3 DEF FailedOnlyWhenExhausted
<1>5. ASSUME NEW c \in Caller, RestartRefused(c)
      PROVE  Cardinality(times'[p]) >= MaxRestarts
  <2>1. CASE target[c] = p
    <3>1. times'[p] = Recent(times[p], now) /\ ~MayRestart(times[p], now)
      BY <1>0, <1>5, <2>1 DEF RestartRefused
    <3> QED
      BY <3>1, PruneShortens, TrackerAssumption DEF MayRestart
  <2>2. CASE target[c] # p
    <3>1. state[p] = "Failed" /\ times'[p] = times[p]
      BY <1>0, <1>5, <2>2 DEF RestartRefused
    <3>2. \A d \in Caller : pc[d] = "failing" => target[d] # p
      BY <1>0, <1>5, <2>2 DEF RestartRefused, Return, GoTo
    <3> QED
      BY <3>1, <3>2 DEF FailedOnlyWhenExhausted
  <2> QED
    BY <2>1, <2>2
<1>6. ASSUME NEW c \in Caller, CallHealth(c) \/ Snapshot(c) \/ Publish(c) \/ ReadHealth(c)
      PROVE  Cardinality(times'[p]) >= MaxRestarts
  <2>1. UNCHANGED <<childVars, target>>
    BY <1>6 DEF CallHealth, Snapshot, Publish, ReadHealth
  <2>2. \A d \in Caller : pc[d] = "failing" => pc'[d] = "failing"
    BY <1>0, <1>6 DEF CallHealth, Snapshot, Publish, ReadHealth, Return, GoTo
  <2> QED
    BY <1>1, <2>1, <2>2 DEF childVars
<1>7. CASE Tick \/ UNCHANGED vars
  BY <1>1, <1>7 DEF Tick, vars, childVars, callVars
<1> QED
  BY <1>2, <1>3, <1>4, <1>5, <1>6, <1>7 DEF Next, Call, Continue

\* However the halves of update_state interleave, a child is left Failed
\* only when its restarts are used up.
THEOREM NoFailureLost == Spec => []FailedOnlyWhenExhausted
<1>1. Init => FailedOnlyWhenExhausted
  BY DEF Init, NoChildren, FailedOnlyWhenExhausted
<1> QED
  BY <1>1, TypeCorrect, ExhaustedStep, PTL DEF Spec

-----------------------------------------------------------------------------
(* A call of health() that no other call overlaps *)

\* From its snapshot on, a call that is alone sees the children as they are.
AloneInv ==
    \A c \in Caller : alone[c] /\ pc[c] # "idle" =>
        /\ \A d \in Caller \ {c} : pc[d] = "idle"
        /\ pc[c] = "publish" => snap[c] = state
        /\ pc[c] = "read" => health = Compute(state)

\* A step of a caller begins or goes on with its call.
LEMMA StepOfCaller ==
    ASSUME TypeOK, NEW d \in Caller, Call(d) \/ Continue(d)
    PROVE  /\ \A c \in Caller \ {d} : pc'[c] = pc[c]
           /\ pc[d] # "idle" \/ pc'[d] # "idle"
<1>0. pc \in [Caller -> {"idle", "failing", "refresh", "publish", "read"}]
  BY DEF TypeOK
<1>1. CASE Call(d)
  BY <1>0, <1>1 DEF Call, CallHealth, Register, UpdateState, GoTo
<1>2. CASE Continue(d)
  BY <1>0, <1>2 DEF Continue, RestartGranted, RestartRefused, Snapshot, Publish, ReadHealth,
                    Return, GoTo
<1> QED
  BY <1>1, <1>2

LEMMA AloneStep == TypeOK /\ AloneInv /\ [AloneNext]_callsVars => AloneInv'
<1> SUFFICES ASSUME TypeOK, AloneInv, [AloneNext]_callsVars,
                    NEW c \in Caller, alone'[c], pc'[c] # "idle"
             PROVE  /\ \A d \in Caller \ {c} : pc'[d] = "idle"
                    /\ pc'[c] = "publish" => snap'[c] = state'
                    /\ pc'[c] = "read" => health' = Compute(state')
  BY DEF AloneInv, Compute, Level
<1>0. /\ pc \in [Caller -> {"idle", "failing", "refresh", "publish", "read"}]
      /\ snap \in [Caller -> Table]
  BY DEF TypeOK
<1>1. CASE UNCHANGED callsVars
  <2>1. UNCHANGED <<alone, pc, snap, state, health>>
    BY <1>1 DEF callsVars, vars
  <2> QED
    BY <2>1 DEF AloneInv
<1>2. CASE AloneNext
  <2>1. /\ pc[c] = "idle" \/ alone[c]
        /\ \A d \in Caller \ {c} : pc[d] = "idle" /\ pc'[d] = "idle"
    BY <1>2 DEF AloneNext
  <2>2. CASE Tick
    <3>1. UNCHANGED <<pc, snap, state, health>>
      BY <2>2 DEF Tick, childVars, callVars
    <3> QED
      BY <2>1, <3>1 DEF AloneInv
  <2>3. ASSUME NEW d \in Caller, Call(d) \/ Continue(d)
        PROVE  /\ pc'[c] = "publish" => snap'[c] = state'
               /\ pc'[c] = "read" => health' = Compute(state')
    <3>1. d = c
      BY <2>1, <2>3, StepOfCaller
    <3>2. CASE Call(c) \/ RestartGranted(c)
      BY <1>0, <3>2 DEF Call, CallHealth, Register, UpdateState, RestartGranted, GoTo
    <3>3. CASE RestartRefused(c) \/ ReadHealth(c)
      BY <1>0, <3>3 DEF RestartRefused, ReadHealth, Return, GoTo
    <3>4. CASE Snapshot(c)
      BY <1>0, <3>4 DEF Snapshot, GoTo, childVars
    <3>5. CASE Publish(c)
      <4>1. pc[c] = "publish" /\ health' = Compute(snap[c]) /\ state' = state
        BY <3>5 DEF Publish, childVars
      <4>2. snap[c] = state
        BY <2>1, <4>1 DEF AloneInv
      <4>3. pc'[c] # "publish"
        BY <1>0, <3>5 DEF Publish, Return, GoTo
      <4> QED
        BY <4>1, <4>2, <4>3
    <3> QED
      BY <2>3, <3>1, <3>2, <3>3, <3>4, <3>5 DEF Continue
  <2>4. Tick \/ \E d \in Caller : Call(d) \/ Continue(d)
    BY <1>2 DEF AloneNext, Next
  <2> QED
    BY <2>1, <2>2, <2>3, <2>4
<1> QED
  BY <1>1, <1>2

\* health() answers with the children's states when no other call overlaps
\* it, whatever earlier calls have left in the cached status.
THEOREM HealthAloneHolds == AloneSpec => []HealthAloneIsCurrent
<1>1. AloneInit => AloneInv /\ Init
  BY DEF AloneInit, Init, AloneInv
<1>2. [AloneNext]_callsVars => [Next]_vars
  BY DEF AloneNext, callsVars
<1>3. AloneInv => HealthAloneIsCurrent
  BY DEF AloneInv, HealthAloneIsCurrent
<1>4. AloneSpec => []TypeOK
  BY <1>1, <1>2, TypeCorrect, PTL DEF AloneSpec, Spec
<1> QED
  BY <1>1, <1>3, <1>4, AloneStep, PTL DEF AloneSpec

-----------------------------------------------------------------------------
(* One tracker.  RestartRate is not inductive: whether the next restart is *)
(* granted is decided from the pruned table, so the table has to be tied   *)
(* to the whole history (TimesAreRecentGrants).  The step is then a        *)
(* counting argument: if the MaxRestarts-th last grant were still in the   *)
(* window, so would be all later ones, and the table would be full.        *)

\* A table of a tracker is finite.
LEMMA TableFinite ==
    ASSUME NEW n \in Nat, NEW m \in Nat, NEW t, t \subseteq (1..n) \X (0..m)
    PROVE  IsFiniteSet(t) /\ Cardinality(t) \in Nat
<1>1. IsFiniteSet(1..n) /\ IsFiniteSet(0..m)
  BY FS_Interval
<1>2. IsFiniteSet((1..n) \X (0..m))
  BY <1>1, FS_Product
<1> QED
  BY <1>2, FS_Subset, FS_CardinalityType

\* A step of the tracker of p, or none.
TrackerStep(p) == [Tracker(p)!Next]_(Tracker(p)!vars)

\* The three things a call does to a tracker, in terms of the table.
Grants(p) ==
    /\ MayRestart(times[p], now) /\ now' = now
    /\ times'[p] = Recent(times[p], now) \union {<<failures[p] + 1, now>>}
    /\ failures'[p] = failures[p] + 1
    /\ grants'[p] = Append(grants[p], now)

Refuses(p) ==
    /\ now' = now /\ times'[p] = Recent(times[p], now)
    /\ failures'[p] = failures[p] /\ grants'[p] = grants[p]

Resets(p) ==
    now' = now /\ times'[p] = {} /\ failures'[p] = 0 /\ grants'[p] = <<>>

\* A step of the tracker is one of these, or time passes.
LEMMA TrackerActions ==
    ASSUME NEW p \in Process, TrackerStep(p)
    PROVE  \/ Grants(p) \/ Refuses(p) \/ Resets(p)
           \/ /\ now' \in {now, now + 1} /\ times'[p] = times[p]
              /\ failures'[p] = failures[p] /\ grants'[p] = grants[p]
<1>1. CASE Tracker(p)!Tick
  BY <1>1 DEF Tracker!Tick
<1>2. CASE Tracker(p)!RestartGranted
  <2>1. /\ Tracker(p)!MayRestart(times[p], now) /\ now' = now
        /\ times'[p] = Tracker(p)!Recent(times[p], now)
                         \union {Tracker(p)!Stamp(failures[p], now)}
        /\ failures'[p] = failures[p] + 1 /\ grants'[p] = Append(grants[p], now)
    BY <1>2 DEF Tracker!RestartGranted
  <2>2. Tracker(p)!Recent(times[p], now) = Recent(times[p], now)
    BY DEF Tracker!Recent, Recent
  <2>3. MayRestart(times[p], now)
    BY <2>1, <2>2 DEF Tracker!MayRestart, MayRestart, Tracker!Cardinality, Cardinality
  <2>4. Tracker(p)!Stamp(failures[p], now) = <<failures[p] + 1, now>>
    BY DEF Tracker!Stamp
  <2> QED
    BY <2>1, <2>2, <2>3, <2>4 DEF Grants
<1>3. CASE Tracker(p)!RestartRefused
  BY <1>3 DEF Tracker!RestartRefused, Tracker!Recent, Refuses, Recent
<1>4. CASE Tracker(p)!Reset
  BY <1>4 DEF Tracker!Reset, Resets
<1>5. CASE UNCHANGED Tracker(p)!vars
  BY <1>5 DEF Tracker!vars
<1> QED
  BY <1>1, <1>2, <1>3, <1>4, <1>5 DEF TrackerStep, Tracker!Next

\* Every step keeps the types of the tracker.
LEMMA TrackerTypeStep ==
    ASSUME NEW p \in Process, Tracker(p)!TypeOK, TrackerStep(p)
    PROVE  Tracker(p)!TypeOK'
<1> USE DEF Tracker!TypeOK
<1>1. CASE Grants(p)
  <2>1. grants'[p] \in Seq(0..now') /\ Len(grants'[p]) = failures'[p]
    BY <1>1 DEF Grants
  <2>2. Recent(times[p], now) \subseteq (1..failures'[p]) \X (0..now')
    BY <1>1 DEF Grants, Recent
  <2>3. <<failures[p] + 1, now>> \in (1..failures'[p]) \X (0..now')
    BY <1>1 DEF Grants
  <2> QED
    BY <1>1, <2>1, <2>2, <2>3 DEF Grants
<1>2. CASE Refuses(p)
  BY <1>2 DEF Refuses, Recent
<1>3. CASE Resets(p)
  BY <1>3 DEF Resets
<1>4. CASE /\ now' \in {now, now + 1} /\ times'[p] = times[p]
           /\ failures'[p] = failures[p] /\ grants'[p] = grants[p]
  <2>1. 0..now \subseteq 0..now'
    BY <1>4
  <2>2. grants'[p] \in Seq(0..now')
    BY <1>4, <2>1
  <2> QED
    BY <1>4, <2>1, <2>2
<1> QED
  BY <1>1, <1>2, <1>3, <1>4, TrackerActions

\* Every step keeps the table in agreement with the history.
LEMMA RecentStep ==
    ASSUME NEW p \in Process, Tracker(p)!TypeOK, Tracker(p)!TimesAreRecentGrants,
           TrackerStep(p)
    PROVE  Tracker(p)!TimesAreRecentGrants'
<1> USE DEF Tracker!TypeOK, Tracker!TimesAreRecentGrants
<1>0. Window \in Nat
  BY TrackerAssumption
<1>1. CASE Grants(p)
  <2>1. /\ now' = now /\ failures'[p] = failures[p] + 1
        /\ times'[p] = Recent(times[p], now) \union {<<failures[p] + 1, now>>}
        /\ grants'[p] = Append(grants[p], now)
    BY <1>1 DEF Grants
  <2>2. /\ \A i \in 1..failures[p] : grants'[p][i] = grants[p][i] /\ grants[p][i] \in 0..now
        /\ grants'[p][failures[p] + 1] = now
    BY <2>1
  <2>3. \A i, j \in 1..failures'[p] : i <= j => grants'[p][i] <= grants'[p][j]
    BY <2>1, <2>2
  <2>4. \A r \in times'[p] : r[2] = grants'[p][r[1]]
    <3>1. \A r \in times[p] : r[1] \in 1..failures[p]
      OBVIOUS
    <3> QED
      BY <2>1, <2>2, <3>1 DEF Recent
  <2>5. ASSUME NEW i \in 1..failures'[p], grants'[p][i] >= now' - Window
        PROVE  <<i, grants'[p][i]>> \in times'[p]
    <3>1. CASE i = failures[p] + 1
      BY <2>1, <2>2, <3>1
    <3>2. CASE i \in 1..failures[p]
      <4>1. <<i, grants[p][i]>> \in times[p] /\ grants[p][i] >= now - Window
        BY <2>1, <2>2, <2>5, <3>2
      <4> QED
        BY <2>1, <2>2, <3>2, <4>1 DEF Recent
    <3>3. i \in 1..failures[p] \/ i = failures[p] + 1
      BY <2>1
    <3> QED
      BY <3>1, <3>2, <3>3
  <2> QED
    BY <2>3, <2>4, <2>5
<1>2. CASE Refuses(p)
  BY <1>0, <1>2 DEF Refuses, Recent
<1>3. CASE Resets(p)
  BY <1>3 DEF Resets
<1>4. CASE /\ now' \in {now, now + 1} /\ times'[p] = times[p]
           /\ failures'[p] = failures[p] /\ grants'[p] = grants[p]
  BY <1>0, <1>4
<1> QED
  BY <1>1, <1>2, <1>3, <1>4, TrackerActions

\* While the table is not full, the MaxRestarts-th last grant is out of the
\* window.
LEMMA OldGrantIsOut ==
    ASSUME NEW p \in Process, Tracker(p)!TypeOK, Tracker(p)!TimesAreRecentGrants,
           MayRestart(times[p], now),
           NEW i \in 1..failures[p], i = failures[p] + 1 - MaxRestarts
    PROVE  grants[p][i] < now - Window
<1> DEFINE n == failures[p]
           g == grants[p]
           R == Recent(times[p], now)
           last == i..n
           f == [k \in last |-> <<k, g[k]>>]
<1>0. /\ Window \in Nat /\ MaxRestarts \in Nat /\ n \in Nat /\ now \in Nat
      /\ times[p] \subseteq (1..n) \X (0..now) /\ \A k \in 1..n : g[k] \in 0..now
  <2>1. g \in Seq(0..now) /\ Len(g) = n /\ n \in Nat /\ now \in Nat
    BY DEF Tracker!TypeOK
  <2>2. \A k \in 1..n : g[k] \in 0..now
    <3> HIDE DEF g, n
    <3> QED
      BY <2>1
  <2> QED
    BY <2>1, <2>2, TrackerAssumption DEF Tracker!TypeOK
<1>1. /\ \A k \in i..n : g[i] <= g[k]
      /\ \A k \in 1..n : g[k] >= now - Window => <<k, g[k]>> \in times[p]
  BY <1>0 DEF Tracker!TimesAreRecentGrants
<1> HIDE DEF n, g
<1> SUFFICES ASSUME g[i] >= now - Window PROVE FALSE
  BY <1>0 DEF n, g
<1>2. i \in Nat /\ i >= 1 /\ i <= n /\ n - i + 1 = MaxRestarts
  BY <1>0 DEF n
<1>3. IsFiniteSet(R) /\ Cardinality(R) \in Nat
  <2>1. R \subseteq (1..n) \X (0..now)
    BY <1>0 DEF Recent
  <2> HIDE DEF R
  <2> QED
    BY <1>0, <2>1, TableFinite
<1>4. \A k \in last : f[k] \in R
  BY <1>0, <1>1, <1>2 DEF Recent
<1>5. \A k, l \in last : f[k] = f[l] => k = l
  OBVIOUS
<1>6. IsFiniteSet(last) /\ Cardinality(last) = MaxRestarts
  BY <1>0, <1>2, FS_Interval
<1>7. f \in Injection(last, R)
  BY <1>4, <1>5 DEF Injection, IsInjective
<1>8. Cardinality(last) <= Cardinality(R)
  BY <1>3, <1>6, <1>7, FS_Injection
<1> QED
  BY <1>0, <1>3, <1>6, <1>8 DEF MayRestart

\* Every step keeps any MaxRestarts + 1 grants more than a window apart.
LEMMA RateStep ==
    ASSUME NEW p \in Process, Tracker(p)!TypeOK, Tracker(p)!TimesAreRecentGrants,
           Tracker(p)!RestartRate, TrackerStep(p)
    PROVE  Tracker(p)!RestartRate'
<1>0. Window \in Nat /\ MaxRestarts \in Nat
  BY TrackerAssumption
<1>1. CASE grants'[p] = grants[p]
  BY <1>1 DEF Tracker!RestartRate
<1>2. CASE Grants(p)
  <2>1. /\ failures'[p] = failures[p] + 1 /\ grants'[p] = Append(grants[p], now)
        /\ MayRestart(times[p], now)
    BY <1>2 DEF Grants
  <2>2. /\ Len(grants'[p]) = failures[p] + 1 /\ Len(grants[p]) = failures[p]
        /\ \A i \in 1..failures[p] : grants'[p][i] = grants[p][i] /\ grants[p][i] \in 0..now
        /\ grants'[p][failures[p] + 1] = now
        /\ failures[p] \in Nat /\ now \in Nat
    BY <2>1 DEF Tracker!TypeOK
  <2>3. MaxRestarts # 0
    <3>1. Recent(times[p], now) \subseteq (1..failures[p]) \X (0..now)
      BY DEF Recent, Tracker!TypeOK
    <3>2. Cardinality(Recent(times[p], now)) \in Nat
      BY <2>2, <3>1, TableFinite
    <3> QED
      BY <1>0, <2>1, <3>2 DEF MayRestart
  <2>4. ASSUME NEW i \in 1..Len(grants'[p]), NEW j \in 1..Len(grants'[p]),
               j = i + MaxRestarts
        PROVE  grants'[p][j] > grants'[p][i] + Window
    <3>1. CASE j <= failures[p]
      <4>1. i \in 1..Len(grants[p]) /\ j \in 1..Len(grants[p])
        BY <1>0, <2>2, <2>4, <3>1
      <4> QED
        BY <2>2, <2>4, <4>1 DEF Tracker!RestartRate
    <3>2. CASE j = failures[p] + 1
      <4>1. i \in 1..failures[p] /\ i = failures[p] + 1 - MaxRestarts
        BY <1>0, <2>2, <2>3, <2>4, <3>2
      <4>2. grants[p][i] < now - Window
        BY <2>1, <4>1, OldGrantIsOut
      <4>3. grants'[p][i] = grants[p][i] /\ grants[p][i] \in 0..now /\ grants'[p][j] = now
        BY <2>2, <3>2, <4>1
      <4> QED
        BY <1>0, <2>2, <4>2, <4>3
    <3> QED
      BY <2>2, <3>1, <3>2
  <2> QED
    BY <2>4 DEF Tracker!RestartRate
<1>3. CASE Resets(p)
  BY <1>3 DEF Resets, Tracker!RestartRate
<1> QED
  BY <1>1, <1>2, <1>3, TrackerActions DEF Refuses

\* No MaxRestarts + 1 restarts are granted within one window without a
\* reset in between: what RestartPolicy promises.
THEOREM RestartRateHolds ==
    ASSUME NEW p \in Process PROVE Tracker(p)!Spec => []Tracker(p)!RestartRate
<1> DEFINE Inv == /\ Tracker(p)!TypeOK /\ Tracker(p)!TimesAreRecentGrants
                  /\ Tracker(p)!RestartRate
<1>1. Tracker(p)!Init => Inv
  BY DEF Tracker!Init, Tracker!TypeOK, Tracker!TimesAreRecentGrants, Tracker!RestartRate
<1>2. Inv /\ [Tracker(p)!Next]_(Tracker(p)!vars) => Inv'
  BY TrackerTypeStep, RecentStep, RateStep DEF TrackerStep
<1> QED
  BY <1>1, <1>2, PTL DEF Tracker!Spec

-----------------------------------------------------------------------------
(* The trackers of the children.  A caller gives up the lock between       *)
(* setting Failed and asking the tracker, but what it does to the tracker  *)
(* it does under one lock: every step of the supervisor is a step of each  *)
(* child's tracker, or leaves it alone.                                    *)

\* A tracker without failures has granted nothing since its reset.
ResetMeansNone == \A p \in Process : failures[p] = 0 => grants[p] = <<>>

\* The history follows the failure count.
LEMMA GrantsFollow ==
    ASSUME TypeOK, ResetMeansNone, AloneNext, NEW p \in Process
    PROVE  /\ failures'[p] = failures[p] => grants'[p] = grants[p]
           /\ failures'[p] = failures[p] + 1 => grants'[p] = Append(grants[p], now)
           /\ failures'[p] = 0 => grants'[p] = <<>>
<1> DEFINE f == failures[p]
           g == failures'[p]
<1>1. f \in Nat /\ (f = 0 => grants[p] = <<>>)
  BY DEF TypeOK, ResetMeansNone
<1>2. grants'[p] = CASE g > f -> Append(grants[p], now)
                     [] g = 0 -> <<>>
                     [] OTHER -> grants[p]
  BY DEF AloneNext
<1> HIDE DEF f, g
<1>3. CASE g = f
  BY <1>1, <1>2, <1>3 DEF f, g
<1>4. CASE g = f + 1
  <2>1. g > f /\ g # f /\ g # 0
    BY <1>1, <1>4
  <2> QED
    BY <1>2, <2>1 DEF f, g
<1>5. CASE g = 0
  <2>1. ~(g > f) /\ g # f + 1
    BY <1>1, <1>5
  <2>2. grants'[p] = <<>>
    BY <1>2, <1>5, <2>1
  <2> QED
    BY <1>1, <1>5, <2>1, <2>2 DEF f, g
<1> QED
  BY <1>3, <1>4, <1>5 DEF f, g

\* What each step does to the tracker of a child.
LEMMA ChildStep ==
    ASSUME TypeOK, ResetMeansNone, [AloneNext]_callsVars, NEW p \in Process
    PROVE  TrackerStep(p) /\ (failures'[p] = 0 => grants'[p] = <<>>)
<1>0. failures \in [Process -> Nat] /\ times \in [Process -> SUBSET (Nat \X Nat)]
      /\ target \in [Caller -> Process]
  BY DEF TypeOK
<1>1. CASE UNCHANGED callsVars
  BY <1>1 DEF callsVars, vars, TrackerStep, Tracker!vars, Backoff, Tracker!Backoff,
              ResetMeansNone
<1>2. CASE AloneNext
  <2>1. /\ failures'[p] = failures[p] => grants'[p] = grants[p]
        /\ failures'[p] = failures[p] + 1 => grants'[p] = Append(grants[p], now)
        /\ failures'[p] = 0 => grants'[p] = <<>>
    BY <1>2, GrantsFollow
  <2>2. ASSUME UNCHANGED <<now, times[p], failures[p]>> PROVE TrackerStep(p)
    BY <2>1, <2>2 DEF TrackerStep, Tracker!vars
  <2>3. ASSUME now' = now, times'[p] = {}, failures'[p] = 0 PROVE TrackerStep(p)
    <3>1. Tracker(p)!Reset
      BY <2>1, <2>3 DEF Tracker!Reset
    <3> QED
      BY <3>1 DEF TrackerStep, Tracker!Next
  <2>4. CASE Tick
    <3>1. Tracker(p)!Tick
      BY <2>1, <2>4 DEF Tick, childVars, Tracker!Tick
    <3> QED
      BY <2>1, <3>1 DEF TrackerStep, Tracker!Next
  <2>5. ASSUME NEW c \in Caller, NEW q \in Process, Register(c, q) PROVE TrackerStep(p)
    <3>1. CASE p = q
      BY <1>0, <2>3, <2>5, <3>1 DEF Register
    <3>2. CASE p # q
      BY <1>0, <2>2, <2>5, <3>2 DEF Register
    <3> QED
      BY <3>1, <3>2
  <2>6. ASSUME NEW c \in Caller, NEW q \in Process, NEW s \in ProcessState,
               UpdateState(c, q, s)
        PROVE  TrackerStep(p)
    <3>1. CASE p = q /\ s = "Running"
      BY <1>0, <2>3, <2>6, <3>1 DEF UpdateState
    <3>2. CASE ~(p = q /\ s = "Running")
      BY <1>0, <2>2, <2>6, <3>2 DEF UpdateState
    <3> QED
      BY <3>1, <3>2
  <2>7. ASSUME NEW c \in Caller, RestartGranted(c) PROVE TrackerStep(p)
    <3>1. CASE p = target[c]
      <4>1. /\ MayRestart(times[p], now) /\ now' = now
            /\ times'[p] = Recent(times[p], now) \union {Stamp(failures[p], now)}
            /\ failures'[p] = failures[p] + 1
        BY <1>0, <2>7, <3>1 DEF RestartGranted
      <4>2. failures'[p] # 0 /\ grants'[p] = Append(grants[p], now)
        BY <1>0, <2>1, <4>1
      <4>3. Tracker(p)!Recent(times[p], now) = Recent(times[p], now)
        BY DEF Tracker!Recent, Recent
      <4>4. Tracker(p)!MayRestart(times[p], now)
        BY <4>1, <4>3
        DEF Tracker!MayRestart, MayRestart, Tracker!Cardinality, Cardinality
      <4>5. Tracker(p)!Stamp(failures[p], now) = Stamp(failures[p], now)
        BY DEF Tracker!Stamp, Stamp
      <4>6. Tracker(p)!Backoff(failures'[p]) = Backoff(failures'[p])
        BY DEF Tracker!Backoff, Backoff, Tracker!Multiplier, Multiplier
      <4>7. Tracker(p)!RestartGranted
        BY <4>1, <4>2, <4>3, <4>4, <4>5, <4>6 DEF Tracker!RestartGranted
      <4> QED
        BY <4>7 DEF TrackerStep, Tracker!Next
    <3>2. CASE p # target[c]
      BY <1>0, <2>2, <2>7, <3>2 DEF RestartGranted
    <3> QED
      BY <3>1, <3>2
  <2>8. ASSUME NEW c \in Caller, RestartRefused(c) PROVE TrackerStep(p)
    <3>1. CASE p = target[c]
      <4>1. /\ ~MayRestart(times[p], now) /\ now' = now
            /\ times'[p] = Recent(times[p], now) /\ failures'[p] = failures[p]
        BY <1>0, <2>8, <3>1 DEF RestartRefused
      <4>2. Tracker(p)!Recent(times[p], now) = Recent(times[p], now)
        BY DEF Tracker!Recent, Recent
      <4>3. ~Tracker(p)!MayRestart(times[p], now)
        BY <4>1, <4>2
        DEF Tracker!MayRestart, MayRestart, Tracker!Cardinality, Cardinality
      <4>4. Tracker(p)!RestartRefused
        BY <2>1, <4>1, <4>2, <4>3 DEF Tracker!RestartRefused
      <4> QED
        BY <4>4 DEF TrackerStep, Tracker!Next
    <3>2. CASE p # target[c]
      BY <1>0, <2>2, <2>8, <3>2 DEF RestartRefused
    <3> QED
      BY <3>1, <3>2
  <2>9. ASSUME NEW c \in Caller, CallHealth(c) \/ Snapshot(c) \/ Publish(c) \/ ReadHealth(c)
        PROVE  TrackerStep(p)
    BY <2>2, <2>9 DEF CallHealth, Snapshot, Publish, ReadHealth, childVars
  <2> QED
    BY <1>2, <2>1, <2>4, <2>5, <2>6, <2>7, <2>8, <2>9
    DEF AloneNext, Next, Call, Continue
<1> QED
  BY <1>1, <1>2

\* The histories do not change what the supervisor does.
LEMMA CallsTypes == AloneSpec => [](TypeOK /\ ResetMeansNone)
<1>1. AloneInit => Init /\ ResetMeansNone
  BY DEF AloneInit, ResetMeansNone
<1>2. [AloneNext]_callsVars => [Next]_vars
  BY DEF AloneNext, callsVars
<1>3. AloneSpec => []TypeOK
  BY <1>1, <1>2, TypeCorrect, PTL DEF AloneSpec, Spec
<1>4. TypeOK /\ ResetMeansNone /\ [AloneNext]_callsVars => ResetMeansNone'
  BY ChildStep DEF ResetMeansNone
<1> QED
  BY <1>1, <1>3, <1>4, PTL DEF AloneSpec

\* The supervisor implements a tracker for each child, whatever calls are
\* interleaved between its two locks.
THEOREM TrackersHold == AloneSpec => TrackersUndisturbed
<1>1. AloneInit => \A p \in Process : Tracker(p)!Init
  BY DEF AloneInit, Init, Tracker!Init
<1>2. /\ TypeOK /\ ResetMeansNone /\ [AloneNext]_callsVars
      => [\A p \in Process : [Tracker(p)!Next]_(Tracker(p)!vars)]_callsVars
  BY ChildStep DEF TrackerStep
<1> QED
  BY <1>1, <1>2, CallsTypes, PTL DEF AloneSpec, TrackersUndisturbed

\* ... and so the restart policy holds for each child: no MaxRestarts + 1
\* restarts of it are granted within one window without a reset in between.
THEOREM PolicyHolds == AloneSpec => []PolicyKept
<1> DEFINE Inv == \A p \in Process : /\ Tracker(p)!TypeOK
                                     /\ Tracker(p)!TimesAreRecentGrants
                                     /\ Tracker(p)!RestartRate
<1>1. AloneInit => Inv
  BY DEF AloneInit, Init, Tracker!TypeOK, Tracker!TimesAreRecentGrants,
         Tracker!RestartRate
<1>2. TypeOK /\ ResetMeansNone /\ Inv /\ [AloneNext]_callsVars => Inv'
  <2> SUFFICES ASSUME TypeOK, ResetMeansNone, Inv, [AloneNext]_callsVars,
                      NEW p \in Process
               PROVE  /\ Tracker(p)!TypeOK' /\ Tracker(p)!TimesAreRecentGrants'
                      /\ Tracker(p)!RestartRate'
    OBVIOUS
  <2>1. TrackerStep(p)
    BY ChildStep
  <2> QED
    BY <2>1, TrackerTypeStep, RecentStep, RateStep
<1>3. Inv => PolicyKept
  BY DEF PolicyKept
<1> HIDE DEF Inv
<1> QED
  BY <1>1, <1>2, <1>3, CallsTypes, PTL DEF AloneSpec
=============================================================================
