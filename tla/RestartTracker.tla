--------------------------- MODULE RestartTracker ---------------------------
(***************************************************************************)
(* RestartTracker of supervisor/process.rs: the operators that one         *)
(* tracker and the supervisor's table of trackers are built from.          *)
(*                                                                         *)
(* restart_times is a Vec of instants whose order is never used (retain,   *)
(* len, push, clear): here a set of pairs <<serial, instant>>, the serial  *)
(* being the value consecutive_failures took when the pair was added, so   *)
(* that two restarts at one instant stay two.                              *)
(***************************************************************************)
EXTENDS Integers, FiniteSets

CONSTANTS
    MaxRestarts,   \* RestartPolicy.max_restarts
    Window,        \* RestartPolicy.restart_window
    BackoffBase,   \* RestartPolicy.backoff_base
    BackoffMax,    \* RestartPolicy.backoff_max
    WordBits       \* width of the multiplier: 32 in the code, see Multiplier

ASSUME TrackerAssumption ==
    /\ MaxRestarts \in Nat /\ Window \in Nat
    /\ BackoffBase \in Nat /\ BackoffMax \in Nat
    /\ WordBits \in Nat \ {0}

\* The restarts that the pruning of record_restart retains.
Recent(times, now) == {r \in times : r[2] >= now - Window}

\* Mutant: off by one at the limit.
MayRestartOneMore(times, now) == Cardinality(Recent(times, now)) <= MaxRestarts

\* record_restart's check, after the pruning.
MayRestart(times, now) == Cardinality(Recent(times, now)) < MaxRestarts

\* The pair that a granted restart adds.
Stamp(failures, now) == <<failures + 1, now>>

\* 2u64.saturating_pow(failures - 1), then "as u32": the low half of a word
\* of twice WordBits bits.
Multiplier(failures) ==
    LET exp  == IF failures = 0 THEN 0 ELSE failures - 1
        wide == 2^(2 * WordBits)
        pow  == IF 2^exp < wide THEN 2^exp ELSE wide - 1
    IN  pow % 2^WordBits

\* current_backoff.  saturating_mul saturates far above any backoff_max.
Backoff(failures) ==
    LET d == BackoffBase * Multiplier(failures)
    IN  IF d < BackoffMax THEN d ELSE BackoffMax
=============================================================================
