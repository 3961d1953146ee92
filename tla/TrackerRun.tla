----------------------------- MODULE TrackerRun -----------------------------
(***************************************************************************)
(* The life of one RestartTracker that has a single user: restarts asked   *)
(* for at any time, resets between them, and the monotonic clock of        *)
(* std::time::Instant.  The supervisor implements one for each child       *)
(* (SupervisorCalls).                                                      *)
(***************************************************************************)
EXTENDS RestartTracker, Sequences

CONSTANT MaxTime   \* bound on the clock

VARIABLES
    now,       \* the clock
    times,     \* restart_times
    failures,  \* consecutive_failures
    backoff,   \* what the last granted record_restart returned, 0 if none
    grants     \* history: instants of the restarts granted since the last reset

vars == <<now, times, failures, backoff, grants>>

Tick ==
    /\ now < MaxTime
    /\ now' = now + 1
    /\ UNCHANGED <<times, failures, backoff, grants>>

\* record_restart returns Ok(current_backoff()).
RestartGranted ==
    /\ MayRestart(times, now)
    /\ times' = Recent(times, now) \union {Stamp(failures, now)}
    /\ failures' = failures + 1
    /\ backoff' = Backoff(failures')
    /\ grants' = Append(grants, now)
    /\ UNCHANGED now

\* record_restart returns MaxRestartsExceeded; the pruning has happened.
RestartRefused ==
    /\ ~MayRestart(times, now)
    /\ times' = Recent(times, now)
    /\ UNCHANGED <<now, failures, backoff, grants>>

Reset ==
    /\ times' = {} /\ failures' = 0
    /\ backoff' = 0 /\ grants' = <<>>
    /\ UNCHANGED now

Init == now = 0 /\ times = {} /\ failures = 0 /\ backoff = 0 /\ grants = <<>>

Next == Tick \/ RestartGranted \/ RestartRefused \/ Reset

Spec == Init /\ [][Next]_vars

-----------------------------------------------------------------------------

\* Types; the failure count is the number of restarts since the reset.
TypeOK ==
    /\ now \in Nat
    /\ times \subseteq (1..failures) \X (0..now)
    /\ failures \in Nat
    /\ grants \in Seq(0..now)
    /\ Len(grants) = failures

\* The pruned table and the full history agree: what was forgotten is out
\* of the window, and what is kept is what was granted.
TimesAreRecentGrants ==
    /\ \A i, j \in 1..failures : i <= j => grants[i] <= grants[j]
    /\ \A r \in times : r[2] = grants[r[1]]
    /\ \A i \in 1..failures : grants[i] >= now - Window => <<i, grants[i]>> \in times

\* The restart policy: whatever has been pruned in between, any
\* MaxRestarts + 1 restarts without a reset span more than the window.
RestartRate ==
    \A i, j \in 1..Len(grants) : j = i + MaxRestarts => grants[j] > grants[i] + Window
=============================================================================
