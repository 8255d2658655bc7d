---------------------------- MODULE RetryBudget ----------------------------
(***************************************************************************)
(* The budget of retries in a sliding window.                              *)
(***************************************************************************)
EXTENDS Integers, SequencesExt

CONSTANTS
    MaxRetries,  \* max_retries_per_window
    Window,      \* window_seconds
    MaxSeconds   \* bound: the clock

ASSUME BudgetAssumption == {MaxRetries, Window, MaxSeconds} \subseteq Nat

VARIABLES
    seconds,    \* time.monotonic()
    timestamps, \* _retry_timestamps
    granted     \* the instants of all retries that were granted

budgetVars == <<seconds, timestamps, granted>>

BudgetInit == seconds = 0 /\ timestamps = <<>> /\ granted = <<>>

SecondPasses ==
    /\ seconds < MaxSeconds /\ seconds' = seconds + 1
    /\ UNCHANGED <<timestamps, granted>>

\* A mutated model: a retry exactly one window old is forgotten.
OpenWindow(t) == t > seconds - Window

InWindow(t) == t >= seconds - Window

\* try_acquire: the old ones are popped from the left up to the first recent
\* one, whether or not there is room for one more.
TryAcquire ==
    LET last == Len(timestamps)
        first == Min({i \in 1..last : InWindow(timestamps[i])} \cup {last + 1})
        recent == SubSeq(timestamps, first, last)
    IN  IF Len(recent) >= MaxRetries
        THEN timestamps' = recent /\ UNCHANGED <<seconds, granted>>
        ELSE /\ timestamps' = Append(recent, seconds)
             /\ granted' = Append(granted, seconds)
             /\ UNCHANGED seconds

BudgetNext == SecondPasses \/ TryAcquire

\* No interval as long as the window, ends included, has more retries than
\* the budget: whatever was dropped from the queue was really too old.
BudgetKept ==
    \A i, j \in DOMAIN granted :
        i <= j /\ granted[j] - granted[i] <= Window => j - i < MaxRetries

=============================================================================
