-------------------------- MODULE CircuitBreaker ---------------------------
(***************************************************************************)
(* The circuit breaker around upstream calls.  Its lock is never held over *)
(* an await, so the check before a call and the bookkeeping after it are   *)
(* one step each; the calls themselves overlap and end in any order.       *)
(***************************************************************************)
EXTENDS Integers, FiniteSets

CONSTANTS
    Calls,            \* concurrent calls
    FailureThreshold, \* failure_threshold
    SuccessThreshold, \* success_threshold
    RecoveryTimeout,  \* recovery_timeout_seconds
    MaxClock,         \* bound: the clock
    MaxFailures       \* bound: recorded failures

ASSUME BreakerAssumption ==
    /\ {FailureThreshold, SuccessThreshold} \subseteq Nat \ {0}
    /\ {RecoveryTimeout, MaxClock, MaxFailures} \subseteq Nat

VARIABLES
    opened,       \* _state is OPEN (it is never set to HALF_OPEN)
    failures,     \* _failure_count
    successes,    \* _success_count
    lastFailure,  \* _last_failure_time
    probing,      \* _half_open_probe_in_flight
    clock,        \* time.monotonic()
    call          \* call[c]: "none", "call" or "probe"

breakerVars == <<opened, failures, successes, lastFailure, probing, clock, call>>

\* The state property
State ==
    CASE ~opened -> "closed"
      [] opened /\ clock - lastFailure >= RecoveryTimeout -> "half_open"
      [] OTHER -> "open"

BreakerInit ==
    /\ opened = FALSE /\ failures = 0 /\ successes = 0 /\ lastFailure = 0
    /\ probing = FALSE /\ clock = 0 /\ call = [c \in Calls |-> "none"]

ClockTick ==
    /\ clock < MaxClock /\ clock' = clock + 1
    /\ UNCHANGED <<opened, failures, successes, lastFailure, probing, call>>

\* A mutated model: the flag is not looked at.
ProbeFreeUnasked == TRUE

ProbeFree == ~probing

\* pre_call_check lets a call through: any while closed, one probe while half
\* open; else CircuitBreakerOpenError.
PreCallCheck(c) ==
    /\ call[c] = "none"
    /\ \/ /\ State = "closed"
          /\ call' = [call EXCEPT ![c] = "call"]
          /\ UNCHANGED probing
       \/ /\ State = "half_open" /\ ProbeFree
          /\ call' = [call EXCEPT ![c] = "probe"]
          /\ probing' = TRUE
    /\ UNCHANGED <<opened, failures, successes, lastFailure, clock>>

\* The finally of call(): a probe gives the flag back.
EndCall(c) ==
    /\ call[c] # "none"
    /\ call' = [call EXCEPT ![c] = "none"]
    /\ probing' = (probing /\ call[c] # "probe")
    /\ UNCHANGED clock

\* A mutated model: closing forgets to clear the count of failures.
ClosedUncleared ==
    /\ opened' = FALSE /\ successes' = 0
    /\ UNCHANGED failures

\* _record_success with the success_threshold reached
Closed ==
    /\ opened' = FALSE /\ failures' = 0 /\ successes' = 0

\* The call returns; _record_success.
Succeed(c) ==
    /\ EndCall(c)
    /\ CASE State = "half_open" /\ successes + 1 >= SuccessThreshold -> Closed
         [] State = "half_open" /\ successes + 1 < SuccessThreshold ->
                successes' = successes + 1 /\ UNCHANGED <<opened, failures>>
         [] State = "closed" -> failures' = 0 /\ UNCHANGED <<opened, successes>>
         [] OTHER -> UNCHANGED <<opened, failures, successes>>
    /\ UNCHANGED lastFailure

\* The call raises what _is_server_error takes for the upstream's fault;
\* _record_failure.
Fail(c) ==
    /\ failures < MaxFailures
    /\ EndCall(c)
    /\ failures' = failures + 1
    /\ lastFailure' = clock
    /\ successes' = 0
    /\ opened' = (opened \/ failures + 1 >= FailureThreshold)

\* The call ends in any other way: an error of the caller's, or cancelled.
Ignore(c) ==
    /\ EndCall(c)
    /\ UNCHANGED <<opened, failures, successes, lastFailure>>

BreakerNext ==
    \/ ClockTick
    \/ \E c \in Calls : PreCallCheck(c) \/ Succeed(c) \/ Fail(c) \/ Ignore(c)

BreakerSpec == BreakerInit /\ [][BreakerNext]_breakerVars

-----------------------------------------------------------------------------
\* Properties

\* There is one probe at a time and the flag says whether there is, also when
\* calls of before the breaker opened and cancelled probes end in between: the
\* flag cannot stick and shut the upstream out for good.
OneProbe ==
    /\ Cardinality({c \in Calls : call[c] = "probe"}) = IF probing THEN 1 ELSE 0

\* The counters fit the state whichever late outcomes were recorded: an
\* opened breaker has not forgotten its failures, so that one more failure
\* while half open opens it again, and a closed one starts from scratch.
CountersFitState ==
    IF opened
    THEN failures >= FailureThreshold /\ successes < SuccessThreshold
    ELSE failures < FailureThreshold /\ successes = 0

=============================================================================
