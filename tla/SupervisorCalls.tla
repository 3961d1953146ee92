-------------------------- MODULE SupervisorCalls --------------------------
(***************************************************************************)
(* Supervisor with two histories: which calls have had the supervisor to   *)
(* themselves, to say what a call may rely on when no other one overlaps;  *)
(* and the restarts granted to each child, to compare its tracker with a   *)
(* tracker that only one caller uses (TrackerRun).                         *)
(***************************************************************************)
EXTENDS Supervisor, Sequences

VARIABLES
    alone,   \* no other call has been in progress during this one
    grants   \* instants of the restarts granted since the last reset

callsVars == <<vars, alone, grants>>

AloneInit == Init /\ alone = [c \in Caller |-> TRUE] /\ grants = [p \in Process |-> <<>>]

AloneNext ==
    /\ Next
    /\ alone' = [c \in Caller |->
                   pc'[c] = "idle" \/
                   (/\ pc[c] = "idle" \/ alone[c]
                    /\ \A d \in Caller \ {c} : pc[d] = "idle" /\ pc'[d] = "idle")]
    /\ grants' = [p \in Process |->
                    CASE failures'[p] > failures[p] -> Append(grants[p], now)
                      [] failures'[p] = 0           -> <<>>
                      [] OTHER                      -> grants[p]]

AloneSpec == AloneInit /\ [][AloneNext]_callsVars /\ Fairness

\* The tracker of child p.  A tracker that has granted a restart has
\* returned the backoff of its failures, one that has been reset none.
Tracker(p) ==
    INSTANCE TrackerRun WITH
        times    <- times[p],
        failures <- failures[p],
        grants   <- grants[p],
        backoff  <- IF failures[p] = 0 THEN 0 ELSE Backoff(failures[p])

-----------------------------------------------------------------------------

\* A health() that no other call overlaps returns the states the children
\* have, although a refused update leaves the cached status out of date and
\* earlier calls may have stored their snapshots in the wrong order.
HealthAloneIsCurrent ==
    \A c \in Caller :
        pc[c] = "read" /\ alone[c] => health = Compute(state)

\* However the halves of the calls of several tasks are interleaved, what
\* happens to each child's tracker is the life of a tracker that has one
\* user.
TrackersUndisturbed ==
    /\ \A p \in Process : Tracker(p)!Init
    /\ [][\A p \in Process : [Tracker(p)!Next]_(Tracker(p)!vars)]_callsVars

\* The restart policy of each child: whatever its tracker has pruned and
\* refused in between, any MaxRestarts + 1 of its restarts without a reset
\* span more than the window, also when several callers report failures.
PolicyKept == \A p \in Process : Tracker(p)!RestartRate

\* Exponential backoff of each child: a failed child is never told to restart
\* after more than backoff_max, nor, while the multiplier fits its word, after
\* less than the time before; neither when the window has emptied since, nor
\* when refusals or other callers' failures and registrations came between.
BackoffGrowsWhileItFits ==
    [][\A p \in Process : state[p] = "Failed" /\ state'[p] = "Restarting" =>
         /\ Backoff(failures'[p]) <= BackoffMax
         /\ failures'[p] <= WordBits => Backoff(failures'[p]) >= Backoff(failures[p])]_callsVars
=============================================================================
