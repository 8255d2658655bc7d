----------------------------- MODULE MCProcess ------------------------------
(***************************************************************************)
(* The parts of a process that share no state, and the limiter of logins,  *)
(* in one instance for TLC: a behaviour exercises one of them, chosen at   *)
(* the start, while the others rest in an initial state.                   *)
(***************************************************************************)
EXTENDS Admission, CircuitBreaker, RetryBudget, LeaderElection, ClientAddress, RateLimiter

CONSTANTS q1, q2, q3, c1, c2, c3, localhost, sidecar, proxy, remote

VARIABLE part

vars == <<part, admissionVars, breakerVars, budgetVars, electionVars, addressVars, limiterVars>>

Init ==
    /\ part \in {"admission", "breaker", "budget", "election", "address", "limiter"}
    /\ AdmissionInit /\ (part # "admission" => pressure = FALSE)
    /\ BreakerInit
    /\ BudgetInit
    /\ ElectionInit
    /\ AddressInit
    /\ LimiterInit
    /\ part # "address" =>
        /\ origin = CHOOSE h \in Hosts : TRUE
        /\ trust = FALSE
        /\ request = [peer |-> origin, forwardedFor |-> <<>>, realIp |-> NoHost,
                      forwarded |-> <<>>, localName |-> FALSE, actor |-> FALSE]

Admission ==
    /\ part = "admission" /\ AdmissionNext
    /\ UNCHANGED <<part, breakerVars, budgetVars, electionVars, addressVars, limiterVars>>

Breaker ==
    /\ part = "breaker" /\ BreakerNext
    /\ UNCHANGED <<part, admissionVars, budgetVars, electionVars, addressVars, limiterVars>>

Budget ==
    /\ part = "budget" /\ BudgetNext
    /\ UNCHANGED <<part, admissionVars, breakerVars, electionVars, addressVars, limiterVars>>

Election ==
    /\ part = "election" /\ ElectionNext
    /\ UNCHANGED <<part, admissionVars, breakerVars, budgetVars, addressVars, limiterVars>>

Address ==
    /\ part = "address" /\ AddressNext
    /\ UNCHANGED <<part, admissionVars, breakerVars, budgetVars, electionVars, limiterVars>>

Limiter ==
    /\ part = "limiter" /\ LimiterNext
    /\ UNCHANGED <<part, admissionVars, breakerVars, budgetVars, electionVars, addressVars>>

Next == Admission \/ Breaker \/ Budget \/ Election \/ Address \/ Limiter

Spec ==
    /\ Init /\ [][Next]_vars
    /\ WF_vars(part = "admission" /\ LifespanStep
               /\ UNCHANGED <<part, breakerVars, budgetVars, electionVars, addressVars, limiterVars>>)

=============================================================================
