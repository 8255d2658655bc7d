----------------------------- MODULE Admission -----------------------------
(***************************************************************************)
(* One worker process from the first request to the end of its lifespan:   *)
(* the bulkhead and backpressure middlewares that admit requests, the      *)
(* in-flight middleware that counts them, the drain endpoints, and the     *)
(* shutdown half of lifespan().                                            *)
(*                                                                         *)
(* A request is in a slot.  It is admitted, passes the middlewares in      *)
(* between (the API firewall waits for the database there), and only then  *)
(* meets the draining flag and the counter.  Between those steps anything  *)
(* else may run.  No semaphore is ever waited for: locked() and acquire()  *)
(* are one step of the event loop.                                         *)
(***************************************************************************)
EXTENDS Integers, FiniteSets

CONSTANTS
    Requests,       \* slots for concurrent requests
    ProxyLimit,     \* bulkhead_proxy_http_limit; 0 turns the lane off
    DashboardLimit, \* bulkhead_dashboard_limit; 0 turns the lane off
    MaxConcurrent,  \* backpressure_max_concurrent_requests; 0 turns it off
    ServerCancels   \* uvicorn has a timeout_graceful_shutdown (cli.py gives none)

ASSUME AdmissionAssumption ==
    /\ IsFiniteSet(Requests)
    /\ {ProxyLimit, DashboardLimit, MaxConcurrent} \subseteq Nat
    /\ ServerCancels \in BOOLEAN

VARIABLES
    slot,     \* slot[r]: the request in slot r
    free,     \* free[s]: free permits of semaphore s
    pressure, \* is_memory_pressure()
    draining, \* _draining
    inFlight, \* _in_flight
    phase,    \* how far the process is in its lifespan
    quiet     \* a drain status said "draining, none in flight", and no drain
              \* was stopped since: what a deployment acts on

admissionVars == <<slot, free, pressure, draining, inFlight, phase, quiet>>

\* Requests by path: /v2, the dashboard and its API, /health, /health/live,
\* /health/ready, the drain endpoints, and /internal/bridge/responses.
Kind == {"proxy", "dashboard", "health", "live", "ready",
         "drain_start", "drain_stop", "drain_status", "bridge"}
DrainKind == {"drain_start", "drain_stop", "drain_status"}

\* _DRAIN_ALLOWED_HTTP_PATHS
DrainAllowed == {"live", "bridge"} \cup DrainKind

\* _IN_FLIGHT_EXCLUDED_HTTP_PATHS
InFlightExcluded == {"live", "ready"} \cup DrainKind

\* Paths the admission middlewares let through.
HealthPaths == {"health", "live", "ready"}

Semaphore == {"proxy_http", "dashboard", "backpressure"}
Limit == [proxy_http |-> ProxyLimit, dashboard |-> DashboardLimit,
          backpressure |-> MaxConcurrent]

\* The semaphores a request needs: its lane's, and backpressure's if on.
Needs(kind) ==
    IF kind \in HealthPaths THEN {}
    ELSE {s \in {IF kind = "proxy" THEN "proxy_http" ELSE "dashboard", "backpressure"} :
              Limit[s] > 0}

Idle == [kind |-> "none", stage |-> "idle", cancelled |-> FALSE]
Slot == {Idle} \cup [kind : Kind, stage : {"screened", "handling"}, cancelled : BOOLEAN]

Busy == {r \in Requests : slot[r] # Idle}
Counted == {r \in Busy : slot[r].stage = "handling" /\ slot[r].kind \notin InFlightExcluded}

Phases == {"serving", "stopped", "draining", "stopping_tasks", "closing_http", "reset", "closed"}

-----------------------------------------------------------------------------
\* lifespan(): shutdown_state.reset() and the middlewares of create_app()
AdmissionInit ==
    /\ slot = [r \in Requests |-> Idle]
    /\ free = Limit
    /\ pressure \in BOOLEAN
    /\ draining = FALSE /\ inFlight = 0
    /\ phase = "serving" /\ quiet = FALSE

UnchangedProcess == UNCHANGED <<pressure, draining, phase, quiet>>

\* BulkheadMiddleware, then BackpressureMiddleware: refused at once, or with
\* permits of both.  A refusal (503 under memory pressure, 429 for a full
\* semaphore) leaves no trace: a bulkhead permit taken before backpressure
\* refuses is returned.
Admit(r, kind) ==
    /\ phase = "serving" /\ slot[r] = Idle
    /\ kind \in HealthPaths \/ ~pressure
    /\ \A s \in Needs(kind) : free[s] > 0
    /\ slot' = [slot EXCEPT ![r] = [kind |-> kind, stage |-> "screened", cancelled |-> FALSE]]
    /\ free' = [s \in Semaphore |-> IF s \in Needs(kind) THEN free[s] - 1 ELSE free[s]]
    /\ UNCHANGED inFlight /\ UnchangedProcess

\* A mutated model: whether the server drains is not asked again after the
\* firewall's wait.
MayEnterUnasked(kind) == TRUE

MayEnter(kind) == draining => kind \in DrainAllowed

\* InFlightMiddleware lets the request through and counts it.
EnterHandler(r) ==
    /\ slot[r].stage = "screened" /\ ~slot[r].cancelled
    /\ MayEnter(slot[r].kind)
    /\ slot' = [slot EXCEPT ![r].stage = "handling"]
    /\ inFlight' = IF slot[r].kind \in InFlightExcluded THEN inFlight ELSE inFlight + 1
    /\ UNCHANGED free /\ UnchangedProcess

\* A mutated model: permits are returned on success only.
ReleasedOnSuccess(r) ==
    [s \in Semaphore |->
        IF s \in Needs(slot[r].kind) /\ ~slot[r].cancelled THEN free[s] + 1 ELSE free[s]]

\* The finally of both admission middlewares.
Released(r) ==
    [s \in Semaphore |-> IF s \in Needs(slot[r].kind) THEN free[s] + 1 ELSE free[s]]

\* A mutated model: the counter goes below zero.
Decrement == inFlight - 1

\* decrement_in_flight
Decremented == IF inFlight > 0 THEN inFlight - 1 ELSE 0

Leave(r) ==
    /\ slot' = [slot EXCEPT ![r] = Idle]
    /\ free' = Released(r)
    /\ inFlight' = IF r \in Counted THEN Decremented ELSE inFlight

\* A request that ends before its handler: the firewall's 403, the 503 of a
\* draining server, or a cancellation.
Refused(r) ==
    /\ slot[r].stage = "screened"
    /\ Leave(r) /\ UnchangedProcess

\* The end of a handler, by an answer, an exception or a cancellation.
\* /health/ready and the rest only read.
Answer(r) ==
    /\ slot[r].stage = "handling"
    /\ slot[r].kind \notin DrainKind
    /\ Leave(r) /\ UnchangedProcess

\* start_internal_drain, stop_internal_drain and internal_drain_status, for a
\* client on the loopback interface (anybody else gets 403).  A cancelled
\* request does not get that far: it goes on with a CancelledError.
DrainEndpoint(r) ==
    /\ slot[r].stage = "handling" /\ slot[r].kind \in DrainKind
    /\ ~slot[r].cancelled
    /\ Leave(r)
    /\ draining' = CASE slot[r].kind = "drain_start" -> TRUE
                     [] slot[r].kind = "drain_stop" -> FALSE
                     [] OTHER -> draining
    /\ quiet' = CASE slot[r].kind = "drain_start" -> quiet
                  [] slot[r].kind = "drain_stop" -> FALSE
                  [] OTHER -> quiet \/ (draining /\ inFlight = 0)
    /\ UNCHANGED <<pressure, phase>>

\* The 403 of a drain endpoint, or its cancellation.
DrainRefused(r) ==
    /\ slot[r].stage = "handling" /\ slot[r].kind \in DrainKind
    /\ Leave(r) /\ UnchangedProcess

\* The process's memory grows and shrinks.
MemoryChanges ==
    /\ pressure' = ~pressure
    /\ UNCHANGED <<slot, free, draining, inFlight, phase, quiet>>

-----------------------------------------------------------------------------
\* The server and the second half of lifespan()

\* The server stops accepting requests.
ServerStops ==
    /\ phase = "serving" /\ phase' = "stopped"
    /\ UNCHANGED <<slot, free, pressure, draining, inFlight, quiet>>

\* The server runs the shutdown of the lifespan when the requests have ended,
\* or, started with a timeout, when it has cancelled them: their coroutines may
\* still be unwinding.
StartShutdown ==
    /\ phase = "stopped" /\ phase' = "draining"
    /\ Busy = {} \/ ServerCancels
    /\ slot' = [r \in Requests |->
                  IF slot[r] = Idle THEN Idle ELSE [slot[r] EXCEPT !.cancelled = TRUE]]
    /\ draining' = TRUE
    /\ UNCHANGED <<free, pressure, inFlight, quiet>>

\* A mutated model: the wait has no deadline.
WaitedForAll == inFlight = 0

\* wait_for_in_flight_drain ends: nothing is in flight, or the deadline passed.
WaitOver == TRUE

Drained ==
    /\ phase = "draining" /\ WaitOver
    /\ phase' = "stopping_tasks"
    /\ UNCHANGED <<slot, free, pressure, draining, inFlight, quiet>>

\* cache_poller.stop() and firecrawl_refresh_scheduler.stop()
StopTasks ==
    /\ phase = "stopping_tasks" /\ phase' = "closing_http"
    /\ UNCHANGED <<slot, free, pressure, draining, inFlight, quiet>>

\* close_http_client() ends or raises; the finally resets the counters.
ResetState ==
    /\ phase = "closing_http" /\ phase' = "reset"
    /\ draining' = FALSE /\ inFlight' = 0 /\ quiet' = FALSE
    /\ UNCHANGED <<slot, free, pressure>>

\* mark_process_dead() and close_db()
CloseDb ==
    /\ phase = "reset" /\ phase' = "closed"
    /\ UNCHANGED <<slot, free, pressure, draining, inFlight, quiet>>

LifespanStep == Drained \/ StopTasks \/ ResetState \/ CloseDb

AdmissionNext ==
    \/ \E r \in Requests, kind \in Kind : Admit(r, kind)
    \/ \E r \in Requests :
        EnterHandler(r) \/ Refused(r) \/ Answer(r) \/ DrainEndpoint(r) \/ DrainRefused(r)
    \/ MemoryChanges
    \/ ServerStops \/ StartShutdown
    \/ LifespanStep

\* Once the shutdown of the lifespan has begun, the event loop runs its
\* coroutine whenever it can go on; its wait ends at the deadline whatever the
\* requests do.  That the server begins it is not assumed: without a timeout it
\* waits for a request that hangs.
AdmissionFairness == WF_admissionVars(LifespanStep)

AdmissionSpec == AdmissionInit /\ [][AdmissionNext]_admissionVars /\ AdmissionFairness

-----------------------------------------------------------------------------
\* Properties

\* No permit is lost or returned twice, whichever way requests end.
PermitsAccounted ==
    \A s \in Semaphore :
        free[s] + Cardinality({r \in Busy : s \in Needs(slot[r].kind)}) = Limit[s]

\* The counter is the number of counted requests in their handlers until
\* lifespan() resets it, and from then on zero, although requests that were
\* cancelled may still end and decrement it.
InFlightAccounted ==
    inFlight = IF phase \in {"reset", "closed"} THEN 0 ELSE Cardinality(Counted)

\* Once the drain status said that nothing is in flight, no handler of the
\* API or the dashboard runs until a drain is stopped: requests that were
\* waiting in the firewall do not slip in.
QuietMeansIdle ==
    quiet => \A r \in Counted : slot[r].kind = "bridge"

\* Once the shutdown of the lifespan has begun, the process gets to close_db()
\* although a handler that was cancelled never ends.
ShutdownEnds == phase = "draining" ~> phase = "closed"

=============================================================================
