------------------------------ MODULE Governor ------------------------------
(***************************************************************************)
(* ResourceGovernor (governor/governor.rs) over the atomic counters of     *)
(* TierUsage (governor/budget.rs), used by tasks on several threads.       *)
(*                                                                         *)
(* Every load, add, subtraction or store of a counter is one step: there   *)
(* is no lock over check_admission and task_started, and none over the     *)
(* two counters that one call changes.                                     *)
(*                                                                         *)
(* A task is a task envelope: it has a tier, an RSS budget and a token     *)
(* budget.  It may be submitted again after it was refused or has ended.   *)
(* Its client follows the two phases of the API: task_started only after   *)
(* Admitted, then task_ended once with the same tier and RSS.              *)
(***************************************************************************)
EXTENDS Integers, FiniteSets, FiniteSetsExt

CONSTANTS
    Tier,            \* Priority
    P0,              \* Priority::P0Critical
    MaxConcurrent,   \* TierBudget of each tier
    MaxTokens,
    MaxRss,
    Sheddable,       \* the tiers whose budget is sheddable
    RssCeiling,      \* GovernorConfig
    Headroom,
    Task,            \* the task envelopes
    TierOf,          \* priority of each envelope
    Rss,             \* resource_budget.max_rss_mb of each envelope
    Tokens,          \* resource_budget.max_tokens of each envelope
    MaxTaskRss,      \* no envelope asks for more than this
    MaxInFlight,     \* bound: submissions in progress at one time
    TokenBound       \* bound on tokens_used_this_hour

ASSUME GovernorAssumption ==
    /\ P0 \in Tier /\ Sheddable \subseteq Tier
    /\ MaxConcurrent \in [Tier -> Nat] /\ MaxTokens \in [Tier -> Nat]
    /\ MaxRss \in [Tier -> Nat]
    /\ RssCeiling \in Nat /\ Headroom \in 0..RssCeiling
    /\ IsFiniteSet(Task) /\ IsFiniteSet(Tier)
    /\ TierOf \in [Task -> Tier] /\ Tokens \in [Task -> Nat]
    /\ MaxTaskRss \in Nat /\ Rss \in [Task -> 0..MaxTaskRss]
    /\ MaxInFlight \in Nat \ {0} /\ TokenBound \in Nat

VARIABLES
    pressure,   \* pressure_level
    active,     \* active_tasks of each tier
    tokens,     \* tokens_used_this_hour of each tier
    rss,        \* rss_allocated_mb of each tier
    pc,         \* where each task is
    unread,     \* the tiers the sum in check_admission has still to load
    total,      \* the sum so far
    unreset     \* the tiers reset_hourly_tokens has still to reset

usage  == <<active, tokens, rss>>
locals == <<unread, total>>
vars   == <<pressure, active, tokens, rss, pc, unread, total, unreset>>

Pressure == {"Normal", "Warn", "Critical"}

\* The tasks that are between the start of check_admission and the end of
\* task_started.
Checking == {"active", "tokens", "rss", "sum", "start"}
InFlight == {k \in Task : pc[k] \in Checking \union {"startRss"}}

GoTo(k, l) == pc' = [pc EXCEPT ![k] = l]

-----------------------------------------------------------------------------
(* check_admission.  An answer other than Admitted (Queued, Throttled or   *)
(* Shed) leaves the governor as it was: the task is idle again.            *)

\* The pressure is read; under critical pressure a sheddable tier is Shed.
CheckAdmission(k) ==
    /\ pc[k] = "idle"
    /\ Cardinality(InFlight) < MaxInFlight
    /\ ~(pressure = "Critical" /\ TierOf[k] \in Sheddable)
    /\ GoTo(k, "active")
    /\ UNCHANGED <<pressure, usage, locals, unreset>>

\* Mutant: one more than the limit.
LoadActiveOneMore(k) ==
    /\ pc[k] = "active"
    /\ GoTo(k, IF active[TierOf[k]] > MaxConcurrent[TierOf[k]] THEN "idle" ELSE "tokens")
    /\ UNCHANGED <<pressure, usage, locals, unreset>>

\* The concurrent limit: Queued when it is reached.
LoadActive(k) ==
    /\ pc[k] = "active"
    /\ GoTo(k, IF active[TierOf[k]] >= MaxConcurrent[TierOf[k]] THEN "idle" ELSE "tokens")
    /\ UNCHANGED <<pressure, usage, locals, unreset>>

\* The token budget: Shed or Throttled when the estimate does not fit.
LoadTokens(k) ==
    /\ pc[k] = "tokens"
    /\ GoTo(k, IF tokens[TierOf[k]] + Tokens[k] > MaxTokens[TierOf[k]]
               THEN "idle" ELSE "rss")
    /\ UNCHANGED <<pressure, usage, locals, unreset>>

\* The tier's RSS limit: Queued when the task does not fit.
LoadRss(k) ==
    /\ pc[k] = "rss"
    /\ IF rss[TierOf[k]] + Rss[k] > MaxRss[TierOf[k]]
       THEN GoTo(k, "idle") /\ UNCHANGED locals
       ELSE /\ GoTo(k, "sum")
            /\ unread' = [unread EXCEPT ![k] = Tier]
            /\ total' = [total EXCEPT ![k] = 0]
    /\ UNCHANGED <<pressure, usage, unreset>>

\* The sum over the tiers, one load at a time in the map's order.
SumTier(k, t) ==
    /\ pc[k] = "sum" /\ t \in unread[k]
    /\ unread' = [unread EXCEPT ![k] = @ \ {t}]
    /\ total' = [total EXCEPT ![k] = @ + rss[t]]
    /\ UNCHANGED <<pressure, usage, pc, unreset>>

\* Mutant: the headroom is given away.
DecideNoHeadroom(k) ==
    /\ pc[k] = "sum" /\ unread[k] = {}
    /\ GoTo(k, IF total[k] + Rss[k] > RssCeiling THEN "idle" ELSE "start")
    /\ total' = [total EXCEPT ![k] = 0]
    /\ UNCHANGED <<pressure, usage, unread, unreset>>

\* The system ceiling: Queued when it would be exceeded, else Admitted.
Decide(k) ==
    /\ pc[k] = "sum" /\ unread[k] = {}
    /\ GoTo(k, IF total[k] + Rss[k] > RssCeiling - Headroom THEN "idle" ELSE "start")
    /\ total' = [total EXCEPT ![k] = 0]
    /\ UNCHANGED <<pressure, usage, unread, unreset>>

-----------------------------------------------------------------------------
(* task_started, tokens_used, task_ended *)

\* Mutant: the task is not counted.
StartActiveUncounted(k) ==
    /\ pc[k] = "start"
    /\ GoTo(k, "startRss")
    /\ UNCHANGED <<pressure, usage, locals, unreset>>

StartActive(k) ==
    /\ pc[k] = "start"
    /\ active' = [active EXCEPT ![TierOf[k]] = @ + 1]
    /\ GoTo(k, "startRss")
    /\ UNCHANGED <<pressure, tokens, rss, locals, unreset>>

StartRss(k) ==
    /\ pc[k] = "startRss"
    /\ rss' = [rss EXCEPT ![TierOf[k]] = @ + Rss[k]]
    /\ GoTo(k, "running")
    /\ UNCHANGED <<pressure, active, tokens, locals, unreset>>

TokensUsed(k) ==
    /\ pc[k] = "running"
    /\ tokens[TierOf[k]] < TokenBound
    /\ tokens' = [tokens EXCEPT ![TierOf[k]] = @ + 1]
    /\ UNCHANGED <<pressure, active, rss, pc, locals, unreset>>

\* fetch_sub(1) wraps below zero.
EndActive(k) ==
    /\ pc[k] = "running"
    /\ active' = [active EXCEPT ![TierOf[k]] = @ - 1]
    /\ GoTo(k, "endRss")
    /\ UNCHANGED <<pressure, tokens, rss, locals, unreset>>

\* Mutant: the RSS is not given back.
EndRssKept(k) ==
    /\ pc[k] = "endRss"
    /\ GoTo(k, "idle")
    /\ UNCHANGED <<pressure, usage, locals, unreset>>

\* fetch_update with saturating_sub.
EndRss(k) ==
    /\ pc[k] = "endRss"
    /\ rss' = [rss EXCEPT ![TierOf[k]] = IF @ >= Rss[k] THEN @ - Rss[k] ELSE 0]
    /\ GoTo(k, "idle")
    /\ UNCHANGED <<pressure, active, tokens, locals, unreset>>

-----------------------------------------------------------------------------
(* update_pressure, reset_hourly_tokens, check_runtime *)

UpdatePressure(l) ==
    /\ pressure' = l
    /\ UNCHANGED <<usage, pc, locals, unreset>>

ResetHourlyTokens ==
    /\ unreset = {}
    /\ unreset' = Tier
    /\ UNCHANGED <<pressure, usage, pc, locals>>

ResetTier(t) ==
    /\ t \in unreset
    /\ tokens' = [tokens EXCEPT ![t] = 0]
    /\ unreset' = unreset \ {t}
    /\ UNCHANGED <<pressure, active, rss, pc, locals>>

\* Mutant: the last token of the budget counts as one too many.
CheckRuntimeAtLimit(t, u) ==
    IF pressure = "Critical" /\ t # P0 THEN "Exceeded"
    ELSE IF u >= MaxTokens[t] THEN "Exceeded"
    ELSE IF u > (MaxTokens[t] * 8) \div 10 THEN "Warning"
    ELSE IF pressure = "Warn" /\ t # P0 THEN "Warning"
    ELSE "Continue"

\* check_runtime for a task of tier t that has used u tokens.
CheckRuntime(t, u) ==
    IF pressure = "Critical" /\ t # P0 THEN "Exceeded"
    ELSE IF u > MaxTokens[t] THEN "Exceeded"
    ELSE IF u > (MaxTokens[t] * 8) \div 10 THEN "Warning"
    ELSE IF pressure = "Warn" /\ t # P0 THEN "Warning"
    ELSE "Continue"

-----------------------------------------------------------------------------

Init ==
    /\ pressure = "Normal"
    /\ active = [t \in Tier |-> 0]
    /\ tokens = [t \in Tier |-> 0]
    /\ rss = [t \in Tier |-> 0]
    /\ pc = [k \in Task |-> "idle"]
    /\ unread = [k \in Task |-> {}] /\ total = [k \in Task |-> 0]
    /\ unreset = {}

TaskStep(k) ==
    \/ CheckAdmission(k) \/ LoadActive(k) \/ LoadTokens(k) \/ LoadRss(k)
    \/ (\E t \in Tier : SumTier(k, t)) \/ Decide(k)
    \/ StartActive(k) \/ StartRss(k) \/ TokensUsed(k)
    \/ EndActive(k) \/ EndRss(k)

Next ==
    \/ \E k \in Task : TaskStep(k)
    \/ \E l \in Pressure : UpdatePressure(l)
    \/ ResetHourlyTokens
    \/ \E t \in Tier : ResetTier(t)

Spec == Init /\ [][Next]_vars

-----------------------------------------------------------------------------

\* Types of the counters and of the tasks; in particular fetch_sub never
\* takes active_tasks below zero.
TypeOK ==
    /\ pressure \in Pressure
    /\ active \in [Tier -> Nat] /\ tokens \in [Tier -> Nat] /\ rss \in [Tier -> Nat]
    /\ pc \in [Task -> Checking \union {"idle", "startRss", "running", "endRss"}]
    /\ unread \in [Task -> SUBSET Tier] /\ total \in [Task -> Nat]
    /\ unreset \subseteq Tier

\* The tasks of tier t that active_tasks counts, and those whose RSS
\* rss_allocated_mb holds.
Counted(t) == {k \in Task : TierOf[k] = t /\ pc[k] \in {"startRss", "running"}}
Holding(t) == {k \in Task : TierOf[k] = t /\ pc[k] \in {"running", "endRss"}}

\* The sum of the weights w over the set S.
SumOf(w, S) == MapThenSumSet(LAMBDA x : w[x], S)

\* Every tier's active_tasks is the number of tasks that have started and
\* not ended in it, whatever the threads do between the two counters.
ActiveExact == \A t \in Tier : active[t] = Cardinality(Counted(t))

\* Every tier's rss_allocated_mb is the sum of what those tasks were
\* admitted with: the saturating subtraction never hides a loss.
RssExact == \A t \in Tier : rss[t] = SumOf(Rss, Holding(t))

\* Check and start are not atomic, but racing submissions take a tier past
\* max_concurrent by no more than their number, less one.
ConcurrencyBounded ==
    \A t \in Tier : active[t] <= MaxConcurrent[t] + MaxInFlight - 1

\* ... and for the ceiling less the headroom, although the sum over the
\* tiers is no snapshot: it may add up loads that never were true together.
CeilingBounded ==
    SumOf(rss, Tier) <= RssCeiling - Headroom + (MaxInFlight - 1) * MaxTaskRss

\* The two phases agree: what was admitted on an estimate is not told to
\* wrap up while it keeps to the estimate, unless the pressure is critical;
\* and a P0 task not even then.
RuntimeAgrees ==
    \A k \in Task : pc[k] = "running" =>
        \A u \in 0..Tokens[k] :
            CheckRuntime(TierOf[k], u) = "Exceeded" =>
                pressure = "Critical" /\ TierOf[k] # P0
=============================================================================
