----------------------------- MODULE Supervisor -----------------------------
(***************************************************************************)
(* KernelSupervisor of supervisor/kernel.rs with HealthStatus::compute of  *)
(* supervisor/health.rs, called by several tasks at once.                  *)
(*                                                                         *)
(* A step is what a call does under one acquisition of one of the two      *)
(* locks (children, health_state).  update_state(Failed) takes the         *)
(* children lock twice, and refresh_health takes the two locks one after   *)
(* the other: other calls run in between.                                  *)
(*                                                                         *)
(* Data left out: pid, uptimes, started_at, last_checkpoint and the        *)
(* restart_count that ProcessHealth copies along with the state.           *)
(***************************************************************************)
EXTENDS RestartTracker

CONSTANTS
    Process,   \* the ProcessId values in use
    Caller,    \* tasks that call the supervisor
    MaxTime    \* bound on the clock

ASSUME SupervisorAssumption == MaxTime \in Nat

VARIABLES
    now,       \* the monotonic clock
    state,     \* ProcessState of each child, "Absent" if not registered
    times,     \* restart_tracker.restart_times of each child
    failures,  \* restart_tracker.consecutive_failures of each child
    health,    \* health_state: the level and the process states it came from
    pc,        \* where each caller is in its call
    kind,      \* which method it has called
    target,    \* the process an update is about
    snap       \* the children as refresh_health read them

childVars == <<state, times, failures>>
callVars  == <<pc, kind, target, snap>>
vars      == <<now, state, times, failures, health, pc, kind, target, snap>>

ProcessState == {"Starting", "Running", "Stopping", "Stopped", "Failed", "Restarting"}
Table == [Process -> ProcessState \union {"Absent"}]

\* HealthStatus::compute.
Level(table) ==
    LET states == {table[p] : p \in Process} \ {"Absent"} IN
    IF states \subseteq {"Running"} THEN "Healthy"
    ELSE IF "Failed" \in states THEN "Degraded"
    ELSE IF states \cap {"Restarting", "Starting"} # {} THEN "Recovering"
    ELSE "Degraded"

Compute(table) == [level |-> Level(table), table |-> table]

NoChildren == [p \in Process |-> "Absent"]

\* Caller c is at "idle" when its call has returned; the locals are gone.
GoTo(c, l) == pc' = [pc EXCEPT ![c] = l]

Return(c) ==
    /\ GoTo(c, "idle")
    /\ kind' = [kind EXCEPT ![c] = "none"]
    /\ snap' = [snap EXCEPT ![c] = NoChildren]

Tick ==
    /\ now < MaxTime
    /\ now' = now + 1
    /\ UNCHANGED <<childVars, health, callVars>>

-----------------------------------------------------------------------------
(* register and update_state *)

\* Mutant: a new handle takes over the consecutive failures of the old one.
RegisterKeepsFailures(c, p) ==
    /\ pc[c] = "idle"
    /\ state' = [state EXCEPT ![p] = "Starting"]
    /\ times' = [times EXCEPT ![p] = {}]
    /\ GoTo(c, "refresh") /\ kind' = [kind EXCEPT ![c] = "register"]
    /\ UNCHANGED <<now, failures, health, target, snap>>

\* register: inserts a new handle, over an old one if there is one.
Register(c, p) ==
    /\ pc[c] = "idle"
    /\ state' = [state EXCEPT ![p] = "Starting"]
    /\ times' = [times EXCEPT ![p] = {}]
    /\ failures' = [failures EXCEPT ![p] = 0]
    /\ GoTo(c, "refresh") /\ kind' = [kind EXCEPT ![c] = "register"]
    /\ UNCHANGED <<now, health, target, snap>>

\* Mutant: a failure before the child was ever Running is not handled.
UpdateStateIgnoresStarting(c, p, s) ==
    /\ pc[c] = "idle"
    /\ state[p] # "Absent"
    /\ ~(state[p] = "Stopped" /\ s = "Running")
    /\ state' = [state EXCEPT ![p] = s]
    /\ times' = [times EXCEPT ![p] = IF s = "Running" THEN {} ELSE @]
    /\ failures' = [failures EXCEPT ![p] = IF s = "Running" THEN 0 ELSE @]
    /\ GoTo(c, IF s = "Failed" /\ state[p] # "Starting" THEN "failing" ELSE "refresh")
    /\ kind' = [kind EXCEPT ![c] = "update"]
    /\ target' = [target EXCEPT ![c] = p]
    /\ UNCHANGED <<now, health, snap>>

\* update_state, the part under the first lock.  It refuses an unknown
\* process and the way from Stopped to Running, and then changes nothing.
UpdateState(c, p, s) ==
    /\ pc[c] = "idle"
    /\ state[p] # "Absent"
    /\ ~(state[p] = "Stopped" /\ s = "Running")
    /\ state' = [state EXCEPT ![p] = s]
    /\ times' = [times EXCEPT ![p] = IF s = "Running" THEN {} ELSE @]
    /\ failures' = [failures EXCEPT ![p] = IF s = "Running" THEN 0 ELSE @]
    /\ GoTo(c, IF s = "Failed" THEN "failing" ELSE "refresh")
    /\ kind' = [kind EXCEPT ![c] = "update"]
    /\ target' = [target EXCEPT ![c] = p]
    /\ UNCHANGED <<now, health, snap>>

\* Mutant: the failures that the backoff grows with are those of the window.
RestartGrantedByWindow(c) ==
    /\ pc[c] = "failing"
    /\ LET p == target[c] IN
         /\ MayRestart(times[p], now)
         /\ state' = [state EXCEPT ![p] = "Restarting"]
         /\ times' = [times EXCEPT ![p] =
                        Recent(@, now) \union {Stamp(failures[p], now)}]
         /\ failures' = [failures EXCEPT ![p] = Cardinality(Recent(times[p], now)) + 1]
    /\ GoTo(c, "refresh")
    /\ UNCHANGED <<now, health, kind, target, snap>>

\* handle_failure, under the second lock: the restart is within the policy.
RestartGranted(c) ==
    /\ pc[c] = "failing"
    /\ LET p == target[c] IN
         /\ MayRestart(times[p], now)
         /\ state' = [state EXCEPT ![p] = "Restarting"]
         /\ times' = [times EXCEPT ![p] =
                        Recent(@, now) \union {Stamp(failures[p], now)}]
         /\ failures' = [failures EXCEPT ![p] = @ + 1]
    /\ GoTo(c, "refresh")
    /\ UNCHANGED <<now, health, kind, target, snap>>

\* handle_failure returns MaxRestartsExceeded, and "?" returns it from
\* update_state before the health is refreshed.
RestartRefused(c) ==
    /\ pc[c] = "failing"
    /\ ~MayRestart(times[target[c]], now)
    /\ times' = [times EXCEPT ![target[c]] = Recent(@, now)]
    /\ Return(c)
    /\ UNCHANGED <<now, state, failures, health, target>>

-----------------------------------------------------------------------------
(* health and refresh_health *)

\* Mutant: health() answers from the cache.
CallHealthCached(c) ==
    /\ pc[c] = "idle"
    /\ GoTo(c, "read") /\ kind' = [kind EXCEPT ![c] = "health"]
    /\ UNCHANGED <<now, childVars, health, target, snap>>

CallHealth(c) ==
    /\ pc[c] = "idle"
    /\ GoTo(c, "refresh") /\ kind' = [kind EXCEPT ![c] = "health"]
    /\ UNCHANGED <<now, childVars, health, target, snap>>

\* refresh_health reads the children under their lock ...
Snapshot(c) ==
    /\ pc[c] = "refresh"
    /\ snap' = [snap EXCEPT ![c] = state]
    /\ GoTo(c, "publish")
    /\ UNCHANGED <<now, childVars, health, kind, target>>

\* ... and stores what it computed from them under the other lock.
Publish(c) ==
    /\ pc[c] = "publish"
    /\ health' = Compute(snap[c])
    /\ IF kind[c] = "health" THEN GoTo(c, "read") /\ UNCHANGED <<kind, snap>>
                             ELSE Return(c)
    /\ UNCHANGED <<now, childVars, target>>

\* health() reads the cached status under the lock again and returns it.
ReadHealth(c) ==
    /\ pc[c] = "read"
    /\ Return(c)
    /\ UNCHANGED <<now, childVars, health, target>>

-----------------------------------------------------------------------------

Init ==
    /\ now = 0
    /\ state = NoChildren
    /\ times = [p \in Process |-> {}]
    /\ failures = [p \in Process |-> 0]
    /\ health = Compute(state)
    /\ pc = [c \in Caller |-> "idle"] /\ kind = [c \in Caller |-> "none"]
    /\ target \in [Caller -> Process]
    /\ snap = [c \in Caller |-> NoChildren]

\* A caller starts a call.
Call(c) ==
    \/ CallHealth(c)
    \/ \E p \in Process :
         \/ Register(c, p)
         \/ \E s \in ProcessState : UpdateState(c, p, s)

\* A caller goes on with its call.
Continue(c) ==
    \/ RestartGranted(c) \/ RestartRefused(c)
    \/ Snapshot(c) \/ Publish(c) \/ ReadHealth(c)

Next == Tick \/ \E c \in Caller : Call(c) \/ Continue(c)

Spec == Init /\ [][Next]_vars

\* The locks are fair (tokio's RwLock queues its waiters) and are held over
\* no await: a call that has begun goes on.  Nobody has to call.
Fairness == \A c \in Caller : WF_vars(Continue(c))

-----------------------------------------------------------------------------

\* Types of the child table, the trackers and the calls in progress.
TypeOK ==
    /\ now \in Nat
    /\ state \in Table
    /\ failures \in [Process -> Nat]
    /\ times \in [Process -> SUBSET (Nat \X Nat)]
    /\ \A p \in Process : times[p] \subseteq (1..failures[p]) \X (0..now)
    /\ health \in [level : {"Healthy", "Degraded", "Recovering"}, table : Table]
    /\ pc \in [Caller -> {"idle", "failing", "refresh", "publish", "read"}]
    /\ kind \in [Caller -> {"none", "register", "update", "health"}]
    /\ target \in [Caller -> Process]
    /\ snap \in [Caller -> Table]

\* However the two halves of several update_state calls are interleaved, no
\* child has more restarts on record than max_restarts.
WithinBudget == \A p \in Process : Cardinality(times[p]) <= MaxRestarts

\* A child stays Failed, once no call is still handling its failure, only
\* because its restarts are used up: no interleaving loses a failure.
FailedOnlyWhenExhausted ==
    \A p \in Process :
        state[p] = "Failed" /\ (\A c \in Caller : pc[c] = "failing" => target[c] # p)
            => Cardinality(times[p]) >= MaxRestarts

\* Old snapshots that overwrite newer ones do not last: when the children
\* have stopped changing and health() goes on being called, the cached
\* status becomes right and stays right.
HealthConverges ==
    /\ <>[][UNCHANGED state]_vars
    /\ []<>(\E c \in Caller : kind[c] = "health" /\ pc[c] = "read")
    => <>[](health.table = state)
=============================================================================
