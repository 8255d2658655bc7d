---------------------------- MODULE ProcessProofs ----------------------------
(***************************************************************************)
(* Proofs about the parts of a process that share no state: admission and  *)
(* drain, the circuit breaker, leader election, the retry budget and the   *)
(* address of a client, each for every value of its constants.             *)
(***************************************************************************)
EXTENDS Admission, CircuitBreaker, RetryBudget, LeaderElection, ClientAddress,
        Extrema, FiniteSetTheorems, TLAPS

-----------------------------------------------------------------------------
\* Admission: permits, the in-flight counter and the drain, for any limits and any
\* finite number of concurrent requests.

AdmissionTypes ==
    /\ slot \in [Requests -> Slot]
    /\ free \in [Semaphore -> Nat]
    /\ inFlight \in Nat
    /\ pressure \in BOOLEAN /\ draining \in BOOLEAN /\ quiet \in BOOLEAN
    /\ phase \in Phases

\* The requests that hold a permit of s.
Holders(s) == {r \in Busy : s \in Needs(slot[r].kind)}

\* Whoever is left when the lifespan shuts down has been cancelled.
Unwinding == phase \notin {"serving", "stopped"} => \A r \in Busy : slot[r].cancelled

\* The drain status is remembered only while the drain goes on.
QuietDrains == quiet => draining

AdmissionInv ==
    /\ AdmissionTypes /\ PermitsAccounted /\ InFlightAccounted
    /\ Unwinding /\ QuietMeansIdle /\ QuietDrains

-----------------------------------------------------------------------------

\* Sets of requests are finite.
LEMMA FiniteRequests ==
    ASSUME NEW S, S \subseteq Requests
    PROVE  IsFiniteSet(S) /\ Cardinality(S) \in Nat
  BY AdmissionAssumption, FS_Subset, FS_CardinalityType

LEMMA RequestSets ==
    /\ Busy \subseteq Requests /\ Counted \subseteq Busy
    /\ \A s : Holders(s) \subseteq Requests
  BY DEF Busy, Counted, Holders

\* A slot is busy exactly if it is past its idle stage.
LEMMA BusyStages ==
    ASSUME slot \in [Requests -> Slot], NEW r \in Requests
    PROVE  /\ r \in Busy <=> slot[r].stage # "idle"
           /\ r \in Busy => slot[r] \in [kind : Kind, stage : {"screened", "handling"},
                                         cancelled : BOOLEAN]
           /\ slot[r].stage \in {"idle", "screened", "handling"}
  <1>1. CASE slot[r] = Idle
    BY <1>1 DEF Idle, Busy
  <1>2. CASE slot[r] # Idle
    <2>1. slot[r] \in [kind : Kind, stage : {"screened", "handling"}, cancelled : BOOLEAN]
      BY <1>2 DEF Slot
    <2> QED
      BY <1>2, <2>1 DEF Busy
  <1> QED
    BY <1>1, <1>2

\* A request that ends, at whatever stage, gives back what it holds.
LEMMA LeaveStep ==
    ASSUME AdmissionInv, NEW r \in Requests, slot[r].stage \in {"screened", "handling"},
           Leave(r), UNCHANGED phase
    PROVE  /\ slot' \in [Requests -> Slot] /\ free' \in [Semaphore -> Nat] /\ inFlight' \in Nat
           /\ PermitsAccounted' /\ InFlightAccounted' /\ Unwinding'
           /\ Counted' = Counted \ {r}
  <1> USE DEF AdmissionInv, AdmissionTypes
  <1>1. slot' = [slot EXCEPT ![r] = Idle] /\ free' = Released(r)
        /\ inFlight' = IF r \in Counted THEN Decremented ELSE inFlight
    BY DEF Leave
  <1>2. r \in Busy
    BY BusyStages
  <1>3. slot' \in [Requests -> Slot] /\ slot'[r] = Idle
        /\ \A q \in Requests : q # r => slot'[q] = slot[q]
    BY <1>1 DEF Slot
  <1>4. Busy' = Busy \ {r}
    BY <1>3 DEF Busy
  <1>5. Counted' = Counted \ {r}
    BY <1>3, <1>4 DEF Counted, Busy
  <1>6. ASSUME NEW s \in Semaphore
        PROVE  /\ Holders(s)' = Holders(s) \ {r}
               /\ r \in Holders(s) <=> s \in Needs(slot[r].kind)
    BY <1>2, <1>3, <1>4 DEF Holders, Busy
  <1>7. ASSUME NEW s \in Semaphore
        PROVE  free'[s] \in Nat /\ free'[s] + Cardinality(Holders(s)') = Limit[s]
    <2>1. free[s] + Cardinality(Holders(s)) = Limit[s]
      BY DEF PermitsAccounted, Holders
    <2>2. IsFiniteSet(Holders(s)) /\ Cardinality(Holders(s)) \in Nat
      BY FiniteRequests, RequestSets
    <2>3. Cardinality(Holders(s)') =
            IF r \in Holders(s) THEN Cardinality(Holders(s)) - 1 ELSE Cardinality(Holders(s))
      BY <1>6, <2>2, FS_RemoveElement
    <2>4. free'[s] = IF s \in Needs(slot[r].kind) THEN free[s] + 1 ELSE free[s]
      BY <1>1 DEF Released
    <2> QED
      BY <1>6, <2>1, <2>2, <2>3, <2>4
  <1>8. PermitsAccounted'
    BY <1>7 DEF PermitsAccounted, Holders
  <1>9. free' \in [Semaphore -> Nat]
    BY <1>1, <1>7 DEF Released
  <1>10. inFlight' \in Nat /\ InFlightAccounted'
    <2>1. IsFiniteSet(Counted) /\ Cardinality(Counted) \in Nat
      BY FiniteRequests, RequestSets
    <2>2. Cardinality(Counted') =
            IF r \in Counted THEN Cardinality(Counted) - 1 ELSE Cardinality(Counted)
      BY <1>5, <2>1, FS_RemoveElement
    <2>3. Cardinality(Counted') \in Nat
      BY <1>5, FiniteRequests, RequestSets
    <2> QED
      BY <1>1, <2>1, <2>2, <2>3 DEF Decremented, InFlightAccounted
  <1>11. Unwinding'
    BY <1>3, <1>4, RequestSets DEF Unwinding
  <1> QED
    BY <1>3, <1>5, <1>8, <1>9, <1>10, <1>11

\* The requests that end without touching the drain.
LEMMA EndingStep ==
    ASSUME AdmissionInv, NEW r \in Requests, slot[r].stage \in {"screened", "handling"},
           Leave(r), UnchangedProcess
    PROVE  AdmissionInv'
  <1>1. UNCHANGED <<pressure, draining, phase, quiet>>
    BY DEF UnchangedProcess
  <1>2. /\ slot' \in [Requests -> Slot] /\ free' \in [Semaphore -> Nat] /\ inFlight' \in Nat
        /\ PermitsAccounted' /\ InFlightAccounted' /\ Unwinding'
        /\ Counted' = Counted \ {r}
    BY <1>1, LeaveStep
  <1>3. \A q \in Requests : q # r => slot'[q] = slot[q]
    BY DEF Leave, AdmissionInv, AdmissionTypes
  <1>4. QuietMeansIdle'
    BY <1>1, <1>2, <1>3, RequestSets DEF QuietMeansIdle, AdmissionInv
  <1>5. AdmissionTypes' /\ QuietDrains'
    BY <1>1, <1>2 DEF AdmissionInv, AdmissionTypes, QuietDrains
  <1> QED
    BY <1>2, <1>4, <1>5 DEF AdmissionInv

\* A drain status that reports nothing in flight comes from a process that has
\* not reset its counter, so nothing is: a cancelled request does not get to
\* the endpoint.
LEMMA DrainEndpointStep ==
    ASSUME AdmissionInv, NEW r \in Requests, DrainEndpoint(r)
    PROVE  AdmissionInv'
  <1>1. /\ slot[r].stage = "handling" /\ slot[r].kind \in DrainKind /\ ~slot[r].cancelled
        /\ Leave(r) /\ UNCHANGED <<pressure, phase>>
    BY DEF DrainEndpoint
  <1>2. /\ slot' \in [Requests -> Slot] /\ free' \in [Semaphore -> Nat] /\ inFlight' \in Nat
        /\ PermitsAccounted' /\ InFlightAccounted' /\ Unwinding'
        /\ Counted' = Counted \ {r}
    BY <1>1, LeaveStep
  <1>3. \A q \in Requests : q # r => slot'[q] = slot[q]
    BY <1>1 DEF Leave, AdmissionInv, AdmissionTypes
  <1>4. quiet => QuietMeansIdle'
    BY <1>2, <1>3, RequestSets DEF QuietMeansIdle, AdmissionInv
  <1>5. CASE slot[r].kind = "drain_start"
    <2>1. draining' = TRUE /\ quiet' = quiet
      BY <1>5 DEF DrainEndpoint
    <2>2. QuietMeansIdle'
      BY <1>4, <2>1 DEF QuietMeansIdle
    <2> QED
      BY <1>1, <1>2, <2>1, <2>2 DEF AdmissionInv, AdmissionTypes, QuietDrains
  <1>6. CASE slot[r].kind = "drain_stop"
    <2>1. draining' = FALSE /\ quiet' = FALSE
      BY <1>6 DEF DrainEndpoint
    <2> QED
      BY <1>1, <1>2, <2>1 DEF AdmissionInv, AdmissionTypes, QuietDrains, QuietMeansIdle
  <1>7. CASE slot[r].kind = "drain_status"
    <2>1. draining' = draining /\ quiet' = (quiet \/ (draining /\ inFlight = 0))
      BY <1>7 DEF DrainEndpoint
    <2>2. quiet' \in BOOLEAN /\ QuietDrains'
      BY <2>1, Zenon DEF QuietDrains, AdmissionInv
    <2>3. phase \in {"serving", "stopped"}
      BY <1>1, BusyStages DEF AdmissionInv, AdmissionTypes, Unwinding
    <2>4. inFlight = 0 => Counted = {}
      <3>1. inFlight = Cardinality(Counted)
        BY <2>3 DEF AdmissionInv, InFlightAccounted
      <3>2. IsFiniteSet(Counted)
        BY FiniteRequests, RequestSets
      <3> QED
        BY <3>1, <3>2, FS_EmptySet
    <2>5. inFlight = 0 => QuietMeansIdle'
      BY <1>2, <2>4 DEF QuietMeansIdle
    <2>6. QuietMeansIdle'
      BY <1>4, <2>1, <2>5 DEF QuietMeansIdle
    <2> QED
      BY <1>1, <1>2, <2>1, <2>2, <2>6 DEF AdmissionInv, AdmissionTypes
  <1> QED
    BY <1>1, <1>5, <1>6, <1>7 DEF DrainKind

\* An admitted request takes one permit of each semaphore it needs.
LEMMA AdmitStep ==
    ASSUME AdmissionInv, NEW r \in Requests, NEW kind \in Kind, Admit(r, kind)
    PROVE  AdmissionInv'
  <1> USE DEF AdmissionInv, AdmissionTypes
  <1>1. /\ phase = "serving" /\ slot[r] = Idle
        /\ \A s \in Needs(kind) : free[s] > 0
        /\ slot' = [slot EXCEPT ![r] = [kind |-> kind, stage |-> "screened", cancelled |-> FALSE]]
        /\ free' = [s \in Semaphore |-> IF s \in Needs(kind) THEN free[s] - 1 ELSE free[s]]
        /\ UNCHANGED <<inFlight, pressure, draining, phase, quiet>>
    BY DEF Admit, UnchangedProcess
  <1>2. slot' \in [Requests -> Slot]
    BY <1>1 DEF Slot
  <1>3. /\ slot'[r] = [kind |-> kind, stage |-> "screened", cancelled |-> FALSE]
        /\ \A q \in Requests : q # r => slot'[q] = slot[q]
    BY <1>1
  <1>4. r \notin Busy /\ Busy' = Busy \cup {r}
    BY <1>1, <1>3 DEF Busy, Idle
  <1>5. Counted' = Counted
    BY <1>3, <1>4, RequestSets DEF Counted
  <1>6. ASSUME NEW s \in Semaphore
        PROVE  free'[s] \in Nat /\ free'[s] + Cardinality(Holders(s)') = Limit[s]
    <2>1. free[s] + Cardinality(Holders(s)) = Limit[s]
      BY DEF PermitsAccounted, Holders
    <2>2. IsFiniteSet(Holders(s)) /\ Cardinality(Holders(s)) \in Nat
      BY FiniteRequests, RequestSets
    <2>3. CASE s \in Needs(kind)
      <3>1. Holders(s)' = Holders(s) \cup {r} /\ r \notin Holders(s)
        BY <1>3, <1>4, <2>3, RequestSets DEF Holders
      <3>2. Cardinality(Holders(s)') = Cardinality(Holders(s)) + 1
        BY <2>2, <3>1, FS_AddElement
      <3>3. free'[s] = free[s] - 1 /\ free[s] > 0
        BY <1>1, <2>3
      <3> QED
        BY <2>1, <2>2, <3>2, <3>3
    <2>4. CASE s \notin Needs(kind)
      <3>1. Holders(s)' = Holders(s)
        BY <1>3, <1>4, <2>4, RequestSets DEF Holders
      <3>2. free'[s] = free[s]
        BY <1>1, <2>4
      <3> QED
        BY <2>1, <3>1, <3>2
    <2> QED
      BY <2>3, <2>4
  <1>7. PermitsAccounted'
    BY <1>6 DEF PermitsAccounted, Holders
  <1>8. free' \in [Semaphore -> Nat]
    BY <1>1, <1>6
  <1>9. InFlightAccounted'
    BY <1>1, <1>5 DEF InFlightAccounted
  <1>10. QuietMeansIdle'
    BY <1>1, <1>3, <1>4, <1>5, RequestSets DEF QuietMeansIdle
  <1> QED
    BY <1>1, <1>2, <1>7, <1>8, <1>9, <1>10 DEF Unwinding, QuietDrains

\* A request that meets the in-flight middleware while the server drains is
\* let in only if its path is exempt.
LEMMA EnterHandlerStep ==
    ASSUME AdmissionInv, NEW r \in Requests, EnterHandler(r)
    PROVE  AdmissionInv'
  <1> USE DEF AdmissionInv, AdmissionTypes
  <1>1. /\ slot[r].stage = "screened" /\ ~slot[r].cancelled /\ MayEnter(slot[r].kind)
        /\ slot' = [slot EXCEPT ![r].stage = "handling"]
        /\ inFlight' = IF slot[r].kind \in InFlightExcluded THEN inFlight ELSE inFlight + 1
        /\ UNCHANGED <<free, pressure, draining, phase, quiet>>
    BY DEF EnterHandler, UnchangedProcess
  <1>2. r \in Busy /\ slot[r] \in [kind : Kind, stage : {"screened", "handling"},
                                   cancelled : BOOLEAN]
    BY <1>1, BusyStages
  <1>3. slot' \in [Requests -> Slot]
    BY <1>1, <1>2 DEF Slot
  <1>4. /\ slot'[r].stage = "handling" /\ slot'[r].kind = slot[r].kind
        /\ \A q \in Requests : q # r => slot'[q] = slot[q]
    BY <1>1, <1>2
  <1>5. Busy' = Busy
    BY <1>2, <1>4 DEF Busy, Idle
  <1>6. \A s \in Semaphore : Holders(s)' = Holders(s)
    BY <1>4, <1>5, RequestSets DEF Holders
  <1>7. PermitsAccounted'
    BY <1>1, <1>6 DEF PermitsAccounted, Holders
  <1>8. phase \in {"serving", "stopped"}
    BY <1>1, <1>2 DEF Unwinding
  <1>9. r \notin Counted /\ Counted' = IF slot[r].kind \in InFlightExcluded
                                       THEN Counted ELSE Counted \cup {r}
    BY <1>1, <1>2, <1>4, <1>5, RequestSets DEF Counted
  <1>10. InFlightAccounted'
    <2>1. IsFiniteSet(Counted) /\ Cardinality(Counted) \in Nat
      BY FiniteRequests, RequestSets
    <2>2. Cardinality(Counted \cup {r}) = Cardinality(Counted) + 1
      BY <1>9, <2>1, FS_AddElement
    <2> QED
      BY <1>1, <1>8, <1>9, <2>1, <2>2 DEF InFlightAccounted
  <1>11. QuietMeansIdle'
    <2> SUFFICES ASSUME quiet, NEW q \in Counted' PROVE slot'[q].kind = "bridge"
      BY <1>1 DEF QuietMeansIdle
    <2>1. CASE q \in Counted /\ q # r
      BY <1>4, <2>1, RequestSets DEF QuietMeansIdle
    <2>2. CASE q = r
      <3>1. slot[r].kind \in DrainAllowed /\ slot[r].kind \notin InFlightExcluded
        BY <1>1, <1>9, <2>2 DEF MayEnter, QuietDrains
      <3> QED
        BY <1>4, <2>2, <3>1 DEF DrainAllowed, InFlightExcluded
    <2> QED
      BY <1>9, <2>1, <2>2
  <1>12. inFlight' \in Nat
    BY <1>1
  <1> QED
    BY <1>1, <1>3, <1>7, <1>8, <1>10, <1>11, <1>12 DEF Unwinding, QuietDrains

\* The steps that leave the requests where they are: what is left to see is the
\* phase they are in.
LEMMA SameRequests ==
    ASSUME UNCHANGED slot
    PROVE  Busy' = Busy /\ Counted' = Counted /\ \A s : Holders(s)' = Holders(s)
  BY DEF Busy, Counted, Holders

LEMMA ServerStep ==
    ASSUME AdmissionInv,
           MemoryChanges \/ ServerStops \/ Drained \/ StopTasks \/ CloseDb
    PROVE  AdmissionInv'
  <1> USE DEF AdmissionInv, AdmissionTypes
  <1>1. UNCHANGED <<slot, free, draining, inFlight, quiet>>
    BY DEF MemoryChanges, ServerStops, Drained, StopTasks, CloseDb
  <1>2. /\ phase' \in Phases
        /\ phase' \in {"reset", "closed"} <=> phase \in {"reset", "closed"}
        /\ phase' \in {"serving", "stopped"} <=> phase \in {"serving", "stopped"}
    BY DEF MemoryChanges, ServerStops, Drained, StopTasks, CloseDb, Phases
  <1>3. pressure' \in BOOLEAN
    BY DEF MemoryChanges, ServerStops, Drained, StopTasks, CloseDb
  <1>4. PermitsAccounted'
    BY <1>1, SameRequests DEF PermitsAccounted
  <1>5. InFlightAccounted'
    BY <1>1, <1>2, SameRequests DEF InFlightAccounted
  <1>6. Unwinding' /\ QuietMeansIdle' /\ QuietDrains'
    BY <1>1, <1>2, SameRequests DEF Unwinding, QuietMeansIdle, QuietDrains
  <1> QED
    BY <1>1, <1>2, <1>3, <1>4, <1>5, <1>6

LEMMA ResetStep ==
    ASSUME AdmissionInv, ResetState
    PROVE  AdmissionInv'
  <1> USE DEF AdmissionInv, AdmissionTypes
  <1>1. /\ phase = "closing_http" /\ phase' = "reset"
        /\ draining' = FALSE /\ inFlight' = 0 /\ quiet' = FALSE
        /\ UNCHANGED <<slot, free, pressure>>
    BY DEF ResetState
  <1>2. PermitsAccounted'
    BY <1>1, SameRequests DEF PermitsAccounted
  <1>3. InFlightAccounted'
    BY <1>1 DEF InFlightAccounted
  <1>4. Unwinding' /\ QuietMeansIdle' /\ QuietDrains'
    BY <1>1, SameRequests DEF Unwinding, QuietMeansIdle, QuietDrains
  <1> QED
    BY <1>1, <1>2, <1>3, <1>4 DEF Phases

\* The server cancels what is left; nothing else about the requests changes.
LEMMA StartShutdownStep ==
    ASSUME AdmissionInv, StartShutdown
    PROVE  AdmissionInv'
  <1> USE DEF AdmissionInv, AdmissionTypes
  <1>1. /\ phase = "stopped" /\ phase' = "draining" /\ draining' = TRUE
        /\ slot' = [r \in Requests |->
                      IF slot[r] = Idle THEN Idle ELSE [slot[r] EXCEPT !.cancelled = TRUE]]
        /\ UNCHANGED <<free, pressure, inFlight, quiet>>
    BY DEF StartShutdown
  <1>2. ASSUME NEW r \in Requests
        PROVE  /\ slot'[r] \in Slot
               /\ slot'[r] = Idle <=> slot[r] = Idle
               /\ slot'[r].kind = slot[r].kind /\ slot'[r].stage = slot[r].stage
               /\ slot[r] # Idle => slot'[r].cancelled
    <2>1. CASE slot[r] = Idle
      BY <1>1, <2>1 DEF Slot
    <2>2. CASE slot[r] # Idle
      <3>1. slot[r] \in [kind : Kind, stage : {"screened", "handling"}, cancelled : BOOLEAN]
        BY <2>2 DEF Slot
      <3>2. slot'[r] = [slot[r] EXCEPT !.cancelled = TRUE]
        BY <1>1, <2>2
      <3>3. /\ slot'[r] \in [kind : Kind, stage : {"screened", "handling"}, cancelled : BOOLEAN]
            /\ slot'[r].kind = slot[r].kind /\ slot'[r].stage = slot[r].stage
            /\ slot'[r].cancelled = TRUE
        BY <3>1, <3>2
      <3>4. slot'[r] # Idle
        BY <3>3 DEF Idle
      <3> QED
        BY <2>2, <3>3, <3>4 DEF Slot
    <2> QED
      BY <2>1, <2>2
  <1>3. slot' \in [Requests -> Slot]
    BY <1>1, <1>2
  <1>4. Busy' = Busy
    BY <1>2 DEF Busy
  <1>5. Counted' = Counted /\ \A s : Holders(s)' = Holders(s)
    BY <1>2, <1>4, RequestSets DEF Counted, Holders
  <1>6. PermitsAccounted'
    BY <1>1, <1>5 DEF PermitsAccounted, Holders
  <1>7. InFlightAccounted'
    BY <1>1, <1>5 DEF InFlightAccounted
  <1>8. Unwinding'
    BY <1>2, <1>4 DEF Unwinding, Busy
  <1>9. QuietMeansIdle' /\ QuietDrains'
    BY <1>1, <1>2, <1>5, RequestSets DEF QuietMeansIdle, QuietDrains
  <1> QED
    BY <1>1, <1>3, <1>6, <1>7, <1>8, <1>9 DEF Phases

LEMMA AdmissionInitial == AdmissionInit => AdmissionInv
  <1> SUFFICES ASSUME AdmissionInit PROVE AdmissionInv
    OBVIOUS
  <1> USE DEF AdmissionInit
  <1>1. \A r \in Requests : slot[r] = Idle
    OBVIOUS
  <1>2. Busy = {} /\ Counted = {} /\ \A s : Holders(s) = {}
    BY <1>1 DEF Busy, Counted, Holders
  <1>3. AdmissionTypes
    <2>1. slot \in [Requests -> Slot]
      BY DEF Slot
    <2>2. free \in [Semaphore -> Nat]
      BY AdmissionAssumption DEF Limit, Semaphore
    <2> QED
      BY <2>1, <2>2 DEF AdmissionTypes, Phases
  <1>4. PermitsAccounted
    BY <1>2, <1>3, FS_EmptySet DEF PermitsAccounted, Holders, AdmissionTypes
  <1>5. InFlightAccounted
    BY <1>2, FS_EmptySet DEF InFlightAccounted
  <1> QED
    BY <1>2, <1>3, <1>4, <1>5 DEF AdmissionInv, Unwinding, QuietMeansIdle, QuietDrains

\* The invariant holds at the start and through every step.
LEMMA AdmissionInvariant == AdmissionSpec => []AdmissionInv
  <1>1. AdmissionInv /\ [AdmissionNext]_admissionVars => AdmissionInv'
    <2> SUFFICES ASSUME AdmissionInv, [AdmissionNext]_admissionVars PROVE AdmissionInv'
      OBVIOUS
    <2>1. ASSUME NEW r \in Requests, NEW kind \in Kind, Admit(r, kind) PROVE AdmissionInv'
      BY <2>1, AdmitStep
    <2>2. ASSUME NEW r \in Requests, EnterHandler(r) PROVE AdmissionInv'
      BY <2>2, EnterHandlerStep
    <2>3. ASSUME NEW r \in Requests, Refused(r) \/ Answer(r) \/ DrainRefused(r)
          PROVE  AdmissionInv'
      BY <2>3, EndingStep DEF Refused, Answer, DrainRefused
    <2>4. ASSUME NEW r \in Requests, DrainEndpoint(r) PROVE AdmissionInv'
      BY <2>4, DrainEndpointStep
    <2>5. CASE MemoryChanges \/ ServerStops \/ Drained \/ StopTasks \/ CloseDb
      BY <2>5, ServerStep
    <2>6. CASE ResetState
      BY <2>6, ResetStep
    <2>7. CASE StartShutdown
      BY <2>7, StartShutdownStep
    <2>8. CASE UNCHANGED admissionVars
      BY <2>8, SameRequests
      DEF admissionVars, AdmissionInv, AdmissionTypes, PermitsAccounted, InFlightAccounted,
          Unwinding, QuietMeansIdle, QuietDrains
    <2> QED
      BY <2>1, <2>2, <2>3, <2>4, <2>5, <2>6, <2>7, <2>8 DEF AdmissionNext, LifespanStep
  <1> QED
    BY <1>1, AdmissionInitial, PTL DEF AdmissionSpec

-----------------------------------------------------------------------------

\* The bulkhead and backpressure never lose a permit nor return one twice.
THEOREM PermitsAccountedCorrect == AdmissionSpec => []PermitsAccounted
  <1>1. AdmissionInv => PermitsAccounted
    BY DEF AdmissionInv
  <1> QED
    BY <1>1, AdmissionInvariant, PTL

\* The in-flight counter counts the requests in their handlers until the
\* lifespan resets it, and stays zero afterwards.
THEOREM InFlightAccountedCorrect == AdmissionSpec => []InFlightAccounted
  <1>1. AdmissionInv => InFlightAccounted
    BY DEF AdmissionInv
  <1> QED
    BY <1>1, AdmissionInvariant, PTL

\* After a drain status that reported nothing in flight, no handler of the API
\* or the dashboard runs until the drain is stopped.
THEOREM QuietMeansIdleCorrect == AdmissionSpec => []QuietMeansIdle
  <1>1. AdmissionInv => QuietMeansIdle
    BY DEF AdmissionInv
  <1> QED
    BY <1>1, AdmissionInvariant, PTL

-----------------------------------------------------------------------------
\* The circuit breaker's probe and counters, for any thresholds, recovery timeout
\* and set of concurrent calls.

BreakerTypes ==
    /\ opened \in BOOLEAN /\ probing \in BOOLEAN
    /\ failures \in Nat /\ successes \in Nat
    /\ lastFailure \in Nat /\ clock \in Nat
    /\ call \in [Calls -> {"none", "call", "probe"}]

\* OneProbe without a cardinality: the flag is up for exactly one call.
Probes ==
    /\ probing => \E c \in Calls : call[c] = "probe"
    /\ \A c \in Calls : call[c] = "probe" => probing
    /\ \A c, d \in Calls : call[c] = "probe" /\ call[d] = "probe" => c = d

BreakerInv == BreakerTypes /\ Probes /\ CountersFitState

-----------------------------------------------------------------------------

\* A call that ends, however, keeps the flag and the probes together: only
\* the probe itself gives the flag back.
LEMMA EndCallKeepsProbes ==
    ASSUME BreakerTypes, Probes, NEW c \in Calls, EndCall(c)
    PROVE  /\ Probes'
           /\ probing' \in BOOLEAN
           /\ call' \in [Calls -> {"none", "call", "probe"}]
  <1>1. call' = [call EXCEPT ![c] = "none"] /\ call[c] # "none"
    BY DEF EndCall
  <1>2. probing' = (probing /\ call[c] # "probe")
    BY DEF EndCall
  <1>3. probing' \in BOOLEAN
    BY <1>2
  <1>4. call' \in [Calls -> {"none", "call", "probe"}]
    BY <1>1 DEF BreakerTypes
  <1>5. \A d \in Calls : call'[d] = IF d = c THEN "none" ELSE call[d]
    BY <1>1 DEF BreakerTypes
  <1>6. CASE call[c] = "probe"
    <2>1. ~probing'
      BY <1>2, <1>6
    <2>2. \A d \in Calls : call'[d] # "probe"
      BY <1>5, <1>6 DEF Probes
    <2> QED
      BY <2>1, <2>2, <1>3, <1>4 DEF Probes
  <1>7. CASE call[c] # "probe"
    <2>1. probing' = probing
      BY <1>2, <1>7 DEF BreakerTypes
    <2>2. \A d \in Calls : call'[d] = "probe" <=> call[d] = "probe"
      BY <1>5, <1>7
    <2> QED
      BY <2>1, <2>2, <1>3, <1>4 DEF Probes
  <1> QED
    BY <1>6, <1>7

\* A call is let through as a probe only while there is none.
LEMMA PreCallCheckStep ==
    ASSUME BreakerInv, NEW c \in Calls, PreCallCheck(c)
    PROVE  BreakerInv'
  <1>1. UNCHANGED <<opened, failures, successes, lastFailure, clock>> /\ call[c] = "none"
    BY DEF PreCallCheck
  <1>2. CountersFitState'
    BY <1>1 DEF BreakerInv, CountersFitState
  <1>3. CASE call' = [call EXCEPT ![c] = "call"] /\ UNCHANGED probing
    <2>1. \A d \in Calls : call'[d] = IF d = c THEN "call" ELSE call[d]
      BY <1>3 DEF BreakerInv, BreakerTypes
    <2>2. \A d \in Calls : call'[d] = "probe" <=> call[d] = "probe"
      BY <2>1, <1>1
    <2>3. Probes'
      BY <2>2, <1>3 DEF BreakerInv, Probes
    <2>4. BreakerTypes'
      BY <1>1, <1>3 DEF BreakerInv, BreakerTypes
    <2> QED
      BY <2>3, <2>4, <1>2 DEF BreakerInv
  <1>4. CASE ProbeFree /\ call' = [call EXCEPT ![c] = "probe"] /\ probing' = TRUE
    <2>1. \A d \in Calls : call'[d] = IF d = c THEN "probe" ELSE call[d]
      BY <1>4 DEF BreakerInv, BreakerTypes
    <2>2. \A d \in Calls : call[d] # "probe"
      BY <1>4 DEF BreakerInv, Probes, ProbeFree
    <2>3. Probes'
      BY <2>1, <2>2, <1>4 DEF Probes
    <2>4. BreakerTypes'
      BY <1>1, <1>4 DEF BreakerInv, BreakerTypes
    <2> QED
      BY <2>3, <2>4, <1>2 DEF BreakerInv
  <1> QED
    BY <1>3, <1>4 DEF PreCallCheck

\* A success closes the breaker with its counters cleared, counts for the
\* half-open state, clears the failures of a closed breaker, or is too late.
LEMMA SucceedStep ==
    ASSUME BreakerInv, NEW c \in Calls, Succeed(c)
    PROVE  BreakerInv'
  <1>1. EndCall(c) /\ UNCHANGED <<lastFailure, clock>>
    BY DEF Succeed, EndCall
  <1>2. /\ Probes' /\ probing' \in BOOLEAN
        /\ call' \in [Calls -> {"none", "call", "probe"}]
    BY <1>1, EndCallKeepsProbes DEF BreakerInv
  <1>3. /\ opened' \in BOOLEAN /\ failures' \in Nat /\ successes' \in Nat
        /\ CountersFitState'
    <2> USE BreakerAssumption DEF BreakerInv, BreakerTypes, CountersFitState
    <2>1. CASE State = "half_open" /\ successes + 1 >= SuccessThreshold
      <3>1. opened' = FALSE /\ failures' = 0 /\ successes' = 0
        <4>1. ~(successes + 1 < SuccessThreshold) /\ State # "closed"
          BY <2>1
        <4> QED
          BY <2>1, <4>1, Zenon DEF Succeed, Closed
      <3>2. ~opened' /\ opened' \in BOOLEAN
        BY <3>1
      <3> QED
        BY <3>1, <3>2
    <2>2. CASE State = "half_open" /\ successes + 1 < SuccessThreshold
      <3>1. opened
        BY <2>2 DEF State
      <3> QED
        BY <2>2, <3>1 DEF Succeed
    <2>3. CASE State = "closed"
      <3>1. ~opened
        BY <2>3 DEF State
      <3> QED
        BY <2>3, <3>1 DEF Succeed
    <2>4. CASE State \notin {"half_open", "closed"}
      BY <2>4 DEF Succeed
    <2> QED
      BY <2>1, <2>2, <2>3, <2>4
  <1> QED
    BY <1>1, <1>2, <1>3 DEF BreakerInv, BreakerTypes

\* A failure counts, restarts the successes and opens at the threshold.
LEMMA FailStep ==
    ASSUME BreakerInv, NEW c \in Calls, Fail(c)
    PROVE  BreakerInv'
  <1>1. EndCall(c)
    BY DEF Fail
  <1>2. /\ Probes' /\ probing' \in BOOLEAN
        /\ call' \in [Calls -> {"none", "call", "probe"}]
    BY <1>1, EndCallKeepsProbes DEF BreakerInv
  <1>3. /\ failures' = failures + 1 /\ lastFailure' = clock /\ successes' = 0
        /\ opened' = (opened \/ failures + 1 >= FailureThreshold)
        /\ UNCHANGED clock
    BY DEF Fail, EndCall
  <1>4. opened' \in BOOLEAN
    BY <1>3
  <1>5. CountersFitState'
    <2> USE <1>3, BreakerAssumption DEF BreakerInv, BreakerTypes, CountersFitState
    <2>1. CASE opened
      <3>1. opened' /\ failures >= FailureThreshold
        BY <2>1
      <3> QED
        BY <3>1
    <2>2. CASE ~opened /\ failures + 1 >= FailureThreshold
      <3>1. opened'
        BY <2>2
      <3> QED
        BY <2>2, <3>1
    <2>3. CASE ~opened /\ ~(failures + 1 >= FailureThreshold)
      <3>1. ~opened'
        BY <2>3
      <3> QED
        BY <2>3, <3>1
    <2> QED
      BY <2>1, <2>2, <2>3
  <1> QED
    BY <1>2, <1>3, <1>4, <1>5 DEF BreakerInv, BreakerTypes

LEMMA IgnoreStep ==
    ASSUME BreakerInv, NEW c \in Calls, Ignore(c)
    PROVE  BreakerInv'
  <1>1. EndCall(c) /\ UNCHANGED <<opened, failures, successes, lastFailure, clock>>
    BY DEF Ignore, EndCall
  <1>2. /\ Probes' /\ probing' \in BOOLEAN
        /\ call' \in [Calls -> {"none", "call", "probe"}]
    BY <1>1, EndCallKeepsProbes DEF BreakerInv
  <1> QED
    BY <1>1, <1>2 DEF BreakerInv, BreakerTypes, CountersFitState

\* The invariant holds at the start and through every step.
LEMMA BreakerInvariant == BreakerSpec => []BreakerInv
  <1>1. BreakerInit => BreakerInv
    <2> SUFFICES ASSUME BreakerInit PROVE BreakerInv
      OBVIOUS
    <2>1. ~opened /\ opened \in BOOLEAN /\ ~probing /\ probing \in BOOLEAN
      BY DEF BreakerInit
    <2>2. CountersFitState
      BY <2>1, BreakerAssumption DEF BreakerInit, CountersFitState
    <2>3. BreakerTypes
      BY <2>1 DEF BreakerInit, BreakerTypes
    <2>4. \A c \in Calls : call[c] = "none"
      BY DEF BreakerInit
    <2> QED
      BY <2>1, <2>2, <2>3, <2>4 DEF BreakerInv, Probes
  <1>2. BreakerInv /\ [BreakerNext]_breakerVars => BreakerInv'
    <2> SUFFICES ASSUME BreakerInv, [BreakerNext]_breakerVars PROVE BreakerInv'
      OBVIOUS
    <2>1. CASE ClockTick
      BY <2>1 DEF ClockTick, BreakerInv, BreakerTypes, Probes, CountersFitState
    <2>2. ASSUME NEW c \in Calls, PreCallCheck(c) PROVE BreakerInv'
      BY <2>2, PreCallCheckStep
    <2>3. ASSUME NEW c \in Calls, Succeed(c) PROVE BreakerInv'
      BY <2>3, SucceedStep
    <2>4. ASSUME NEW c \in Calls, Fail(c) PROVE BreakerInv'
      BY <2>4, FailStep
    <2>5. ASSUME NEW c \in Calls, Ignore(c) PROVE BreakerInv'
      BY <2>5, IgnoreStep
    <2>6. CASE UNCHANGED breakerVars
      BY <2>6 DEF breakerVars, BreakerInv, BreakerTypes, Probes, CountersFitState
    <2> QED
      BY <2>1, <2>2, <2>3, <2>4, <2>5, <2>6 DEF BreakerNext
  <1> QED
    BY <1>1, <1>2, PTL DEF BreakerSpec

-----------------------------------------------------------------------------

\* pre_call_check and the finally of call() keep one probe at a time and the
\* flag up exactly while it runs, whichever calls end in between.
THEOREM OneProbeCorrect == BreakerSpec => []OneProbe
  <1>1. BreakerInv => OneProbe
    <2> SUFFICES ASSUME BreakerInv PROVE OneProbe
      OBVIOUS
    <2> DEFINE P == {c \in Calls : call[c] = "probe"}
    <2>1. CASE probing
      <3>1. PICK c \in Calls : call[c] = "probe"
        BY <2>1 DEF BreakerInv, Probes
      <3>2. P = {c}
        BY <3>1 DEF BreakerInv, Probes
      <3>3. Cardinality(P) = 1
        BY <3>2, FS_Singleton
      <3> QED
        BY <3>3, <2>1 DEF OneProbe
    <2>2. CASE ~probing
      <3>1. P = {}
        BY <2>2 DEF BreakerInv, Probes
      <3>2. Cardinality(P) = 0
        BY <3>1, FS_EmptySet
      <3> QED
        BY <3>2, <2>2 DEF OneProbe
    <2> QED
      BY <2>1, <2>2
  <1> QED
    BY <1>1, BreakerInvariant, PTL

\* _record_success and _record_failure keep the counters in step with the
\* state, whichever late outcomes they record.
THEOREM CountersFitStateCorrect == BreakerSpec => []CountersFitState
  <1>1. BreakerInv => CountersFitState
    BY DEF BreakerInv
  <1> QED
    BY <1>1, BreakerInvariant, PTL

-----------------------------------------------------------------------------
\* A leader's lease excludes the other candidates, for any candidates and any
\* lifetime of the lease.

ElectionTypes ==
    /\ wall \in Nat
    /\ leader \in [id : Candidates \cup {Nobody}, expires : Int]
    /\ isLeader \in [Candidates -> BOOLEAN]
    /\ lease \in [Candidates -> Int]
    /\ step \in [Candidates -> [at : {"rest", "upsert", "select", "renew"}, now : Nat]]

\* A clock reading is not ahead of the clock, and a lease is no longer than
\* the reading that is in use, or the clock, allows.
LeasesBounded ==
    \A c \in Candidates :
        /\ step[c].now <= wall
        /\ lease[c] <= (IF step[c].at = "rest" THEN wall ELSE step[c].now) + Ttl

\* The row of a leader lasts at least as long as the lease it knows of, and
\* exactly as long as the one it is about to read back.
RowCoversLease ==
    \A c \in Candidates : leader.id = c =>
        /\ lease[c] <= leader.expires
        /\ step[c].at = "select" => leader.expires = step[c].now + Ttl

ElectionInv == ElectionTypes /\ LeasesBounded /\ RowCoversLease /\ LeaseIsExclusive

-----------------------------------------------------------------------------

\* A candidate takes the row over only when the clock is past its expiry, and
\* with it past every lease of the leader before.
LEMMA UpsertStep ==
    ASSUME ElectionInv, NEW c \in Candidates, Upsert(c)
    PROVE  ElectionInv'
  <1> USE ElectionAssumption DEF ElectionInv, ElectionTypes
  <1>1. /\ step[c].at = "upsert"
        /\ step' = [step EXCEPT ![c].at = "select"]
        /\ UNCHANGED <<wall, isLeader, lease>>
    BY DEF Upsert
  <1>2. \A d \in Candidates : /\ step'[d].now = step[d].now
                              /\ d # c => step'[d] = step[d]
    BY <1>1
  <1>3. step'[c].at = "select"
    BY <1>1
  <1>4. LeasesBounded'
    BY <1>1, <1>2, <1>3 DEF LeasesBounded
  <1>5. CASE Vacant(c)
    <2>1. leader' = [id |-> c, expires |-> step[c].now + Ttl]
      BY <1>5 DEF Upsert
    <2>2. ElectionTypes'
      BY <1>1, <2>1
    <2>3. RowCoversLease'
      BY <1>1, <1>2, <1>3, <2>1 DEF RowCoversLease, LeasesBounded
    <2>4. LeaseIsExclusive'
      <3> SUFFICES ASSUME NEW d \in Candidates, isLeader[d], wall <= lease[d]
                   PROVE  d = c
        BY <1>1, <2>1 DEF LeaseIsExclusive
      <3>1. leader.id = d
        BY DEF LeaseIsExclusive
      <3>2. lease[d] <= leader.expires /\ step[c].now <= wall
        BY <3>1 DEF RowCoversLease, LeasesBounded
      <3>3. ~(leader.expires < step[c].now)
        BY <3>2
      <3> QED
        BY <1>5, <3>1, <3>3 DEF Vacant
    <2> QED
      BY <1>4, <2>2, <2>3, <2>4
  <1>6. CASE ~Vacant(c)
    <2>1. leader' = leader /\ leader.id # c
      BY <1>6 DEF Upsert, Vacant
    <2>2. ElectionTypes'
      BY <1>1, <2>1
    <2>3. RowCoversLease'
      BY <1>1, <1>2, <2>1 DEF RowCoversLease
    <2>4. LeaseIsExclusive'
      BY <1>1, <2>1 DEF LeaseIsExclusive
    <2> QED
      BY <1>4, <2>2, <2>3, <2>4
  <1> QED
    BY <1>5, <1>6

LEMMA ReadBackStep ==
    ASSUME ElectionInv, NEW c \in Candidates, ReadBack(c)
    PROVE  ElectionInv'
  <1> USE ElectionAssumption DEF ElectionInv, ElectionTypes
  <1>1. /\ step[c].at = "select"
        /\ step' = [step EXCEPT ![c] = Resting]
        /\ isLeader' = [isLeader EXCEPT ![c] = leader.id = c]
        /\ lease' = [lease EXCEPT ![c] = IF leader.id = c THEN step[c].now + Ttl ELSE @]
        /\ UNCHANGED <<wall, leader>>
    BY DEF ReadBack
  <1>2. ElectionTypes'
    BY <1>1 DEF Resting
  <1>3. \A d \in Candidates : d # c => /\ step'[d] = step[d]
                                       /\ isLeader'[d] = isLeader[d]
                                       /\ lease'[d] = lease[d]
    BY <1>1
  <1>4. /\ step'[c] = Resting /\ isLeader'[c] = (leader.id = c)
        /\ lease'[c] = IF leader.id = c THEN step[c].now + Ttl ELSE lease[c]
    BY <1>1
  <1>5. LeasesBounded'
    BY <1>1, <1>3, <1>4 DEF LeasesBounded, Resting
  <1>6. RowCoversLease'
    BY <1>1, <1>3, <1>4 DEF RowCoversLease, Resting
  <1>7. LeaseIsExclusive'
    <2> SUFFICES ASSUME NEW d \in Candidates, isLeader'[d], wall' <= lease'[d]
                 PROVE  leader'.id = d
      BY DEF LeaseIsExclusive
    <2>1. CASE d = c
      BY <1>1, <1>4, <2>1
    <2>2. CASE d # c
      BY <1>1, <1>3, <2>2 DEF LeaseIsExclusive
    <2> QED
      BY <2>1, <2>2
  <1> QED
    BY <1>2, <1>5, <1>6, <1>7

LEMMA RenewStep ==
    ASSUME ElectionInv, NEW c \in Candidates, Renew(c)
    PROVE  ElectionInv'
  <1> USE ElectionAssumption DEF ElectionInv, ElectionTypes
  <1>1. /\ step[c].at = "renew"
        /\ step' = [step EXCEPT ![c] = Resting]
        /\ UNCHANGED <<wall, isLeader>>
    BY DEF Renew
  <1>2. \A d \in Candidates : step'[d] = IF d = c THEN Resting ELSE step[d]
    BY <1>1
  <1>3. CASE leader.id = c
    <2>1. /\ leader' = [leader EXCEPT !.expires = step[c].now + Ttl]
          /\ lease' = [lease EXCEPT ![c] = step[c].now + Ttl]
      BY <1>3 DEF Renew
    <2>2. ElectionTypes'
      BY <1>1, <2>1 DEF Resting
    <2>3. /\ leader'.id = c /\ leader'.expires = step[c].now + Ttl
          /\ \A d \in Candidates : lease'[d] = IF d = c THEN step[c].now + Ttl ELSE lease[d]
      BY <1>3, <2>1
    <2>4. LeasesBounded'
      BY <1>1, <1>2, <2>3 DEF LeasesBounded, Resting
    <2>5. RowCoversLease'
      BY <1>2, <2>3 DEF RowCoversLease, Resting
    <2>6. LeaseIsExclusive'
      BY <1>1, <1>3, <2>3 DEF LeaseIsExclusive
    <2> QED
      BY <2>2, <2>4, <2>5, <2>6
  <1>4. CASE leader.id # c
    <2>1. UNCHANGED <<leader, lease>>
      BY <1>4 DEF Renew
    <2>2. ElectionTypes'
      BY <1>1, <2>1 DEF Resting
    <2>3. LeasesBounded'
      BY <1>1, <1>2, <2>1 DEF LeasesBounded, Resting
    <2>4. RowCoversLease'
      BY <1>2, <1>4, <2>1 DEF RowCoversLease
    <2>5. LeaseIsExclusive'
      BY <1>1, <2>1 DEF LeaseIsExclusive
    <2> QED
      BY <2>2, <2>3, <2>4, <2>5
  <1> QED
    BY <1>3, <1>4

\* The steps that leave the row and the leases alone: a clock reading is
\* taken, or the database raises and leadership can only be given up.
LEMMA QuietStep ==
    ASSUME ElectionInv, NEW c \in Candidates,
           BeginAcquire(c) \/ BeginRenew(c) \/ DatabaseFails(c)
    PROVE  ElectionInv'
  <1> USE ElectionAssumption DEF ElectionInv, ElectionTypes
  <1>1. UNCHANGED <<wall, leader, lease>>
    BY DEF BeginAcquire, BeginRenew, DatabaseFails
  <1> DEFINE new == step'[c]
  <1>2. /\ step' = [step EXCEPT ![c] = new]
        /\ new \in [at : {"rest", "upsert", "renew"}, now : Nat]
        /\ new.now <= wall
        /\ lease[c] <= (IF new.at = "rest" THEN wall ELSE new.now) + Ttl
    <2>1. CASE BeginAcquire(c)
      <3>1. step' = [step EXCEPT ![c] = [at |-> "upsert", now |-> wall]] /\ step[c].at = "rest"
        BY <2>1 DEF BeginAcquire, Resting
      <3> QED
        BY <3>1 DEF LeasesBounded
    <2>2. CASE BeginRenew(c)
      <3>1. step' = [step EXCEPT ![c] = [at |-> "renew", now |-> wall]] /\ step[c].at = "rest"
        BY <2>2 DEF BeginRenew, Resting
      <3> QED
        BY <3>1 DEF LeasesBounded
    <2>3. CASE DatabaseFails(c)
      <3>1. step' = [step EXCEPT ![c] = [at |-> "rest", now |-> 0]] /\ step[c].at # "rest"
        BY <2>3 DEF DatabaseFails, Resting
      <3>2. lease[c] <= step[c].now + Ttl /\ step[c].now <= wall
        BY <3>1 DEF LeasesBounded
      <3> QED
        BY <3>1, <3>2
    <2> QED
      BY <2>1, <2>2, <2>3
  <1>3. \A d \in Candidates : step'[d] = IF d = c THEN new ELSE step[d]
    BY <1>2
  <1>4. /\ isLeader' \in [Candidates -> BOOLEAN]
        /\ \A d \in Candidates : isLeader'[d] => isLeader[d]
    <2>1. CASE UNCHANGED isLeader
      BY <2>1
    <2>2. CASE DatabaseFails(c)
      BY <2>2, Zenon DEF DatabaseFails
    <2> QED
      BY <2>1, <2>2 DEF BeginAcquire, BeginRenew
  <1>5. step' \in [Candidates -> [at : {"rest", "upsert", "select", "renew"}, now : Nat]]
    BY <1>2
  <1>6. LeasesBounded'
    BY <1>1, <1>2, <1>3 DEF LeasesBounded
  <1>7. RowCoversLease'
    BY <1>1, <1>2, <1>3 DEF RowCoversLease
  <1>8. LeaseIsExclusive'
    BY <1>1, <1>4 DEF LeaseIsExclusive
  <1> QED
    BY <1>1, <1>4, <1>5, <1>6, <1>7, <1>8

LEMMA WallTickStep ==
    ASSUME ElectionInv, WallTick
    PROVE  ElectionInv'
  <1> USE ElectionAssumption DEF ElectionInv, ElectionTypes
  <1>1. wall' = wall + 1 /\ UNCHANGED <<leader, isLeader, lease, step>>
    BY DEF WallTick
  <1>2. LeasesBounded'
    BY <1>1 DEF LeasesBounded
  <1>3. RowCoversLease' /\ LeaseIsExclusive'
    BY <1>1 DEF RowCoversLease, LeaseIsExclusive
  <1> QED
    BY <1>1, <1>2, <1>3

-----------------------------------------------------------------------------

\* While a replica that thinks it leads is within the lease it wrote, the row
\* names it, whatever the order of the upserts, read-backs and renewals of the
\* others and whatever the database refuses.
THEOREM LeaseIsExclusiveCorrect == ElectionSpec => []LeaseIsExclusive
  <1>1. ElectionInit => ElectionInv
    BY ElectionAssumption
    DEF ElectionInit, Resting, ElectionInv, ElectionTypes, LeasesBounded,
        RowCoversLease, LeaseIsExclusive
  <1>2. ElectionInv /\ [ElectionNext]_electionVars => ElectionInv'
    <2> SUFFICES ASSUME ElectionInv, [ElectionNext]_electionVars PROVE ElectionInv'
      OBVIOUS
    <2>1. CASE WallTick
      BY <2>1, WallTickStep
    <2>2. ASSUME NEW c \in Candidates, BeginAcquire(c) \/ BeginRenew(c) \/ DatabaseFails(c)
          PROVE  ElectionInv'
      BY <2>2, QuietStep
    <2>3. ASSUME NEW c \in Candidates, Upsert(c) PROVE ElectionInv'
      BY <2>3, UpsertStep
    <2>4. ASSUME NEW c \in Candidates, ReadBack(c) PROVE ElectionInv'
      BY <2>4, ReadBackStep
    <2>5. ASSUME NEW c \in Candidates, Renew(c) PROVE ElectionInv'
      BY <2>5, RenewStep
    <2>6. CASE UNCHANGED electionVars
      BY <2>6 DEF electionVars, ElectionInv, ElectionTypes, LeasesBounded,
                  RowCoversLease, LeaseIsExclusive
    <2> QED
      BY <2>1, <2>2, <2>3, <2>4, <2>5, <2>6 DEF ElectionNext
  <1>3. ElectionInv => LeaseIsExclusive
    BY DEF ElectionInv
  <1> QED
    BY <1>1, <1>2, <1>3, PTL DEF ElectionSpec

-----------------------------------------------------------------------------
\* No window of the retry budget has more retries than the budget.

\* The queue is the end of what was granted, in the order of time, and what
\* has left it is out of the window.
BudgetInv ==
    /\ seconds \in Nat /\ timestamps \in Seq(Nat) /\ granted \in Seq(Nat)
    /\ \A j \in 1..Len(granted) : granted[j] <= seconds
    /\ Len(timestamps) <= Len(granted)
    /\ \A i \in 1..Len(timestamps) : timestamps[i] = granted[Len(granted) - Len(timestamps) + i]
    /\ \A i \in 1..Len(granted) - Len(timestamps) : granted[i] < seconds - Window
    /\ BudgetKept

BudgetSpec == BudgetInit /\ [][BudgetNext]_budgetVars

\* Where the pops stop.
LEMMA FirstRecent ==
    ASSUME NEW queue, NEW last \in Nat, NEW cutoff
    PROVE  LET first == Min({i \in 1..last : queue[i] >= cutoff} \cup {last + 1})
           IN  /\ first \in Nat /\ 1 <= first /\ first <= last + 1
               /\ \A k \in 1..last : k < first => ~(queue[k] >= cutoff)
  <1> DEFINE T == {i \in 1..last : queue[i] >= cutoff} \cup {last + 1}
  <1>1. T \subseteq Nat /\ T # {} /\ T \subseteq 1..last + 1
    OBVIOUS
  <1>2. \A i \in 1..last : queue[i] >= cutoff => i \in T
    OBVIOUS
  <1> HIDE DEF T
  <1>3. PICK first : first = Min(T)
    OBVIOUS
  <1>4. first \in T /\ \A y \in T : first <= y
    <2>1. Min(T) \in T /\ \A y \in T : Min(T) <= y
      BY <1>1, MinIs
    <2> QED
      BY <1>3, <2>1
  <1>5. first \in Nat /\ 1 <= first /\ first <= last + 1
    BY <1>1, <1>4
  <1>6. ASSUME NEW k \in 1..last, k < first, queue[k] >= cutoff PROVE FALSE
    BY <1>2, <1>4, <1>5, <1>6
  <1> QED
    BY <1>3, <1>5, <1>6 DEF T

\* The queue after the pops: the same end of what was granted, cut further.
LEMMA PoppedQueue ==
    ASSUME NEW queue \in Seq(Nat), NEW all, NEW cutoff \in Int, NEW n \in Nat,
           Len(queue) <= n,
           \A i \in 1..Len(queue) : queue[i] = all[n - Len(queue) + i],
           \A i \in 1..n - Len(queue) : all[i] < cutoff,
           NEW first \in Nat, 1 <= first, first <= Len(queue) + 1,
           \A k \in 1..Len(queue) : k < first => ~(queue[k] >= cutoff)
    PROVE  LET recent == SubSeq(queue, first, Len(queue))
           IN  /\ recent \in Seq(Nat)
               /\ Len(recent) <= n
               /\ \A i \in 1..Len(recent) : recent[i] = all[n - Len(recent) + i]
               /\ \A i \in 1..n - Len(recent) : all[i] < cutoff
  <1> DEFINE recent == SubSeq(queue, first, Len(queue))
  <1>1. PICK last \in Nat : last = Len(queue)
    OBVIOUS
  <1>2. PICK m \in Nat : m = last - first + 1
    BY <1>1
  <1>3. recent \in Seq(Nat) /\ Len(recent) = m
    BY <1>1, <1>2
  <1>4. \A i \in 1..m : recent[i] = queue[first + i - 1]
    BY <1>1, <1>2
  <1> HIDE DEF recent
  <1>5. m <= n
    BY <1>1, <1>2
  <1>6. ASSUME NEW i \in 1..m PROVE recent[i] = all[n - m + i]
    <2>1. PICK k : k = first + i - 1
      OBVIOUS
    <2>2. k \in 1..last /\ n - last + k = n - m + i
      BY <1>1, <1>2, <2>1
    <2> QED
      BY <1>1, <1>4, <2>1, <2>2
  <1>7. ASSUME NEW i \in 1..n - m PROVE all[i] < cutoff
    <2>1. CASE i <= n - last
      BY <1>1, <2>1
    <2>2. CASE ~(i <= n - last)
      <3>1. PICK k \in Int : k = i - (n - last)
        OBVIOUS
      <3>2. k \in 1..last /\ k < first /\ i = n - last + k
        BY <1>1, <1>2, <2>2, <3>1
      <3>3. ~(queue[k] >= cutoff) /\ queue[k] \in Nat /\ queue[k] = all[i]
        BY <1>1, <3>2
      <3> QED
        BY <3>3
    <2> QED
      BY <2>1, <2>2
  <1> QED
    BY <1>3, <1>5, <1>6, <1>7 DEF recent

LEMMA BudgetStep == BudgetInv /\ [BudgetNext]_budgetVars => BudgetInv'
  <1> SUFFICES ASSUME BudgetInv, [BudgetNext]_budgetVars PROVE BudgetInv'
    OBVIOUS
  <1> USE BudgetAssumption
  <1>1. CASE UNCHANGED budgetVars
    BY <1>1 DEF budgetVars, BudgetInv, BudgetKept
  <1>2. CASE SecondPasses
    <2>1. seconds' = seconds + 1 /\ timestamps' = timestamps /\ granted' = granted /\ BudgetKept'
      BY <1>2 DEF SecondPasses, BudgetInv, BudgetKept
    <2>2. \A i \in 1..Len(granted) : granted[i] \in Nat
      BY DEF BudgetInv
    <2>3. \A i \in 1..Len(granted) - Len(timestamps) : i \in 1..Len(granted)
      BY DEF BudgetInv
    <2> QED
      BY <2>1, <2>2, <2>3 DEF BudgetInv
  <1>3. CASE TryAcquire
    <2>1. PICK last : last = Len(timestamps)
      OBVIOUS
    <2>2. PICK first : first = Min({i \in 1..last : InWindow(timestamps[i])} \cup {last + 1})
      OBVIOUS
    <2>3. PICK recent : recent = SubSeq(timestamps, first, last)
      OBVIOUS
    <2>4. /\ recent \in Seq(Nat)
          /\ Len(recent) <= Len(granted)
          /\ \A i \in 1..Len(recent) : recent[i] = granted[Len(granted) - Len(recent) + i]
          /\ \A i \in 1..Len(granted) - Len(recent) : granted[i] < seconds - Window
      <3>1. PICK queue, all, cutoff, n :
                queue = timestamps /\ all = granted /\ cutoff = seconds - Window /\ n = Len(granted)
        OBVIOUS
      <3>2. queue \in Seq(Nat) /\ all \in Seq(Nat) /\ seconds \in Nat
        BY <3>1 DEF BudgetInv
      <3>3. cutoff \in Int /\ last \in Nat /\ last = Len(queue) /\ n \in Nat /\ n = Len(all)
        BY <2>1, <3>1, <3>2
      <3>4. /\ last <= n
            /\ \A i \in 1..last : queue[i] = all[n - last + i]
            /\ \A i \in 1..n - last : all[i] < cutoff
        BY <2>1, <3>1 DEF BudgetInv
      <3>5. first = Min({i \in 1..last : queue[i] >= cutoff} \cup {last + 1})
        BY <2>2, <3>1 DEF InWindow
      <3>6. /\ first \in Nat /\ 1 <= first /\ first <= last + 1
            /\ \A k \in 1..last : k < first => ~(queue[k] >= cutoff)
        BY <3>3, <3>5, FirstRecent
      <3>7. recent = SubSeq(queue, first, Len(queue))
        BY <2>3, <3>1, <3>3
      <3>8. /\ Len(queue) <= n
            /\ \A i \in 1..Len(queue) : queue[i] = all[n - Len(queue) + i]
            /\ \A i \in 1..n - Len(queue) : all[i] < cutoff
            /\ first <= Len(queue) + 1
            /\ \A k \in 1..Len(queue) : k < first => ~(queue[k] >= cutoff)
        BY <3>3, <3>4, <3>6
      <3>9. /\ recent \in Seq(Nat)
            /\ Len(recent) <= n
            /\ \A i \in 1..Len(recent) : recent[i] = all[n - Len(recent) + i]
            /\ \A i \in 1..n - Len(recent) : all[i] < cutoff
        <4>1. LET cut == SubSeq(queue, first, Len(queue))
              IN  /\ cut \in Seq(Nat)
                  /\ Len(cut) <= n
                  /\ \A i \in 1..Len(cut) : cut[i] = all[n - Len(cut) + i]
                  /\ \A i \in 1..n - Len(cut) : all[i] < cutoff
          <5>1. first \in Nat /\ 1 <= first
            BY <3>6
          <5>2. n \in Nat /\ cutoff \in Int
            BY <3>3
          <5> QED
            BY <3>2, <3>8, <5>1, <5>2, PoppedQueue, Zenon
        <4> QED
          BY <3>7, <4>1
      <3> QED
        BY <3>1, <3>9
    <2>5. seconds' = seconds
      BY <1>3 DEF TryAcquire
    <2>6. CASE Len(recent) >= MaxRetries
      <3>1. timestamps' = recent /\ granted' = granted
        BY <1>3, <2>1, <2>2, <2>3, <2>6 DEF TryAcquire
      <3>2. BudgetKept'
        BY <3>1 DEF BudgetInv, BudgetKept
      <3> QED
        BY <2>4, <2>5, <3>1, <3>2 DEF BudgetInv
    <2>7. CASE ~(Len(recent) >= MaxRetries)
      <3>1. timestamps' = Append(recent, seconds) /\ granted' = Append(granted, seconds)
        BY <1>3, <2>1, <2>2, <2>3, <2>7 DEF TryAcquire
      <3>2. PICK q, g, n, m : q = timestamps' /\ g = granted' /\ n = Len(granted) /\ m = Len(recent)
        OBVIOUS
      <3>3. n \in Nat /\ m \in Nat /\ m <= n /\ m < MaxRetries /\ seconds \in Nat
        BY <2>4, <2>7, <3>2 DEF BudgetInv
      <3>4. /\ q \in Seq(Nat) /\ g \in Seq(Nat) /\ Len(q) = m + 1 /\ Len(g) = n + 1
            /\ q[m + 1] = seconds /\ g[n + 1] = seconds
            /\ \A i \in 1..m : q[i] = recent[i]
            /\ \A i \in 1..n : g[i] = granted[i] /\ granted[i] \in Nat
        <4>1. recent \in Seq(Nat) /\ granted \in Seq(Nat)
          BY <2>4 DEF BudgetInv
        <4>2. q = Append(recent, seconds) /\ g = Append(granted, seconds)
          BY <3>1, <3>2
        <4>3. q \in Seq(Nat) /\ Len(q) = m + 1 /\ q[m + 1] = seconds /\ \A i \in 1..m : q[i] = recent[i]
          BY <3>2, <3>3, <4>1, <4>2
        <4>4. g \in Seq(Nat) /\ Len(g) = n + 1 /\ g[n + 1] = seconds
              /\ \A i \in 1..n : g[i] = granted[i] /\ granted[i] \in Nat
          BY <3>2, <3>3, <4>1, <4>2
        <4> QED
          BY <4>3, <4>4
      <3>5. \A j \in 1..n + 1 : g[j] <= seconds
        <4>1. \A j \in 1..n : granted[j] <= seconds
          BY <3>2 DEF BudgetInv
        <4> QED
          BY <3>3, <3>4, <4>1
      <3>6. ASSUME NEW i \in 1..m + 1 PROVE q[i] = g[n - m + i]
        <4>1. CASE i = m + 1
          BY <3>3, <3>4, <4>1
        <4>2. CASE i \in 1..m
          <5>1. n - m + i \in 1..n
            BY <3>3, <4>2
          <5> QED
            BY <2>4, <3>2, <3>4, <4>2, <5>1
        <4> QED
          BY <3>3, <4>1, <4>2
      <3>7. ASSUME NEW i \in 1..n - m PROVE g[i] < seconds - Window
        <4>1. i \in 1..n
          BY <3>3
        <4> QED
          BY <2>4, <3>2, <3>4, <4>1
      <3>8. ASSUME NEW i \in 1..n + 1, NEW j \in 1..n + 1, i <= j, g[j] - g[i] <= Window
            PROVE  j - i < MaxRetries
        <4>1. CASE j = n + 1
          <5>1. g[j] = seconds /\ g[i] \in Nat
            BY <3>4, <4>1
          <5>2. ~(i \in 1..n - m)
            BY <3>3, <3>7, <3>8, <5>1
          <5> QED
            BY <3>3, <4>1, <5>2
        <4>2. CASE j # n + 1
          <5>1. i \in 1..n /\ j \in 1..n
            BY <3>3, <3>8, <4>2
          <5>2. granted[j] - granted[i] <= Window /\ DOMAIN granted = 1..n
            BY <3>2, <3>4, <3>8, <5>1 DEF BudgetInv
          <5> QED
            BY <3>8, <5>1, <5>2 DEF BudgetInv, BudgetKept
        <4> QED
          BY <4>1, <4>2
      <3>9. BudgetKept'
        <4>1. DOMAIN g = 1..n + 1
          BY <3>4
        <4> QED
          BY <3>2, <3>8, <4>1 DEF BudgetKept
      <3>10. Len(g) - Len(q) = n - m
        BY <3>3, <3>4
      <3>11. /\ \A i \in 1..Len(q) : q[i] = g[Len(g) - Len(q) + i]
             /\ \A i \in 1..Len(g) - Len(q) : g[i] < seconds - Window
             /\ Len(q) <= Len(g)
        BY <3>3, <3>4, <3>6, <3>7, <3>10
      <3> QED
        BY <2>5, <3>2, <3>3, <3>4, <3>5, <3>9, <3>11 DEF BudgetInv
    <2> QED
      BY <2>6, <2>7
  <1> QED
    BY <1>1, <1>2, <1>3 DEF BudgetNext

\* try_acquire keeps its budget in every window, ends included, for any budget
\* and window: a retry that left the queue was older than the window.
THEOREM BudgetIsKept == BudgetSpec => []BudgetKept
  <1>1. BudgetInit => BudgetInv
    BY BudgetAssumption DEF BudgetInit, BudgetInv, BudgetKept
  <1>2. BudgetInv => BudgetKept
    BY DEF BudgetInv
  <1> QED
    BY <1>1, <1>2, BudgetStep, PTL DEF BudgetSpec

-----------------------------------------------------------------------------
\* Whose request it is, whatever its origin wrote and through however many
\* proxies it came, trusted or not.

AddressTypes ==
    /\ origin \in Hosts /\ client \in Hosts /\ hops \in Nat /\ since \in Nat /\ trust \in BOOLEAN
    /\ request \in [peer : Hosts, forwardedFor : Seq(Entry), realIp : Entry \cup {NoHost},
                    forwarded : Seq(Entry), localName : BOOLEAN, actor : BOOLEAN]

\* The chain ends with a host and the trusted proxies after it.
Trail(chain, count, from) ==
    /\ count < Len(chain)
    /\ chain[Len(chain) - count] = from
    /\ \A i \in 1..Len(chain) : i > Len(chain) - count => chain[i] \in TrustedProxies

\* A request that passed no proxy comes from its origin; one that did has a
\* chain.
Direct ==
    IF hops = 0 THEN since = 0 /\ client = origin ELSE request.forwardedFor # <<>>

AddressInv ==
    /\ AddressTypes /\ Direct
    /\ Trail(Append(request.forwardedFor, request.peer), since, client)

AddressSpec == AddressInit /\ [][AddressNext]_addressVars

LEMMA BoundedSeqIsSeq == \A S, n : n \in Nat => BoundedSeq(S, n) \subseteq Seq(S)
  <1>1. ASSUME NEW S, NEW n \in Nat, NEW x \in BoundedSeq(S, n) PROVE x \in Seq(S)
    <2>1. PICK m \in 0..n : x \in [1..m -> S]
      BY <1>1 DEF BoundedSeq, SeqOf
    <2>2. m \in Nat
      OBVIOUS
    <2> QED
      BY <2>1, <2>2
  <1> QED
    BY <1>1

\* The walk from the socket to the left stops at the client.
LEMMA WalkEnds ==
    ASSUME NEW chain \in Seq(Entry), NEW count \in Nat, NEW from, from \notin TrustedProxies,
           Trail(chain, count, from)
    PROVE  LET untrusted == {i \in 2..Len(chain) : chain[i] \notin TrustedProxies}
           IN  (IF untrusted = {} THEN chain[1] ELSE chain[Max(untrusted)]) = from
  <1> DEFINE untrusted == {i \in 2..Len(chain) : chain[i] \notin TrustedProxies}
  <1>1. PICK n \in Nat : n = Len(chain)
    OBVIOUS
  <1>2. PICK k \in Nat : k = n - count
    BY <1>1 DEF Trail
  <1>3. /\ 1 <= k /\ k <= n /\ chain[k] = from
        /\ \A i \in 1..n : i > k => chain[i] \in TrustedProxies
    BY <1>1, <1>2 DEF Trail
  <1>4. \A i : i \in untrusted <=> i \in 2..n /\ chain[i] \notin TrustedProxies
    BY <1>1
  <1> HIDE DEF untrusted
  <1>5. \A i \in untrusted : i \in Nat /\ i <= k
    BY <1>3, <1>4
  <1>6. CASE k = 1
    <2>1. untrusted = {}
      BY <1>4, <1>5, <1>6
    <2> QED
      BY <1>3, <1>6, <2>1 DEF untrusted
  <1>7. CASE k # 1
    <2>1. k \in untrusted
      BY <1>3, <1>4, <1>7
    <2>2. Max(untrusted) = k
      BY <1>5, <2>1, MaxIs
    <2> QED
      BY <1>3, <2>1, <2>2 DEF untrusted
  <1> QED
    BY <1>6, <1>7

LEMMA AddressStart == AddressInit => AddressInv
  <1> SUFFICES ASSUME AddressInit PROVE AddressInv
    OBVIOUS
  <1>1. /\ request \in Request /\ request.peer = origin /\ hops = 0
        /\ client = origin /\ since = 0
    BY DEF AddressInit
  <1>2. AddressTypes
    <2>1. BoundedSeq(Entry, MaxForged + MaxHops) \subseteq Seq(Entry)
      BY AddressAssumption, BoundedSeqIsSeq
    <2>2. BoundedSeq(Entry, 1) \subseteq Seq(Entry)
      BY BoundedSeqIsSeq
    <2> QED
      BY <1>1, <2>1, <2>2 DEF AddressInit, AddressTypes, Request
  <1>3. PICK f, p : f = request.forwardedFor /\ p = request.peer
    OBVIOUS
  <1>4. f \in Seq(Entry) /\ p \in Entry
    BY <1>2, <1>3 DEF AddressTypes, Entry
  <1>5. Trail(Append(f, p), 0, p)
    BY <1>4 DEF Trail
  <1> QED
    BY <1>1, <1>2, <1>3, <1>5 DEF AddressInv, Direct

\* A proxy appends the peer it sees and is the next peer.
LEMMA TrailGrows ==
    ASSUME NEW chain \in Seq(Entry), NEW count \in Nat, NEW from, Trail(chain, count, from),
           NEW p \in TrustedProxies
    PROVE  Trail(Append(chain, p), count + 1, from)
  <1> DEFINE longer == Append(chain, p)
  <1>1. PICK n \in Nat : n = Len(chain)
    OBVIOUS
  <1>2. Len(longer) = n + 1 /\ longer[n + 1] = p /\ \A i \in 1..n : longer[i] = chain[i]
    BY <1>1
  <1> HIDE DEF longer
  <1>3. /\ count < n /\ chain[n - count] = from /\ n - count \in 1..n
        /\ \A i \in 1..n : i > n - count => chain[i] \in TrustedProxies
    BY <1>1 DEF Trail
  <1>4. Len(longer) - (count + 1) = n - count /\ count + 1 < Len(longer)
    BY <1>2, <1>3
  <1>5. longer[n - count] = from
    BY <1>2, <1>3
  <1>6. ASSUME NEW i \in 1..n + 1, i > n - count PROVE longer[i] \in TrustedProxies
    <2>1. CASE i = n + 1
      BY <1>2, <2>1
    <2>2. CASE i # n + 1
      BY <1>2, <1>3, <1>6, <2>2
    <2> QED
      BY <2>1, <2>2
  <1>7. Trail(longer, count + 1, from)
    BY <1>2, <1>4, <1>5, <1>6 DEF Trail
  <1> QED
    BY <1>7 DEF longer

LEMMA AddressStep == AddressInv /\ [AddressNext]_addressVars => AddressInv'
  <1> SUFFICES ASSUME AddressInv, [AddressNext]_addressVars PROVE AddressInv'
    OBVIOUS
  <1>1. CASE UNCHANGED addressVars
    BY <1>1 DEF addressVars, AddressInv, AddressTypes, Direct
  <1>2. ASSUME NEW p \in Hosts, Hop(p) PROVE AddressInv'
    <2>1. PICK actor \in BOOLEAN :
             request' = [request EXCEPT !.peer = p, !.actor = actor,
                             !.forwardedFor = Append(@, request.peer)]
      BY <1>2 DEF Hop
    <2>2. /\ hops' = hops + 1 /\ origin' = origin /\ trust' = trust
          /\ IF p \in TrustedProxies THEN since' = since + 1 /\ client' = client
                                     ELSE since' = 0 /\ client' = p
      BY <1>2 DEF Hop
    <2>3. PICK chain : chain = Append(request.forwardedFor, request.peer)
      OBVIOUS
    <2>4. chain \in Seq(Entry)
      BY <2>3 DEF AddressInv, AddressTypes, Entry
    <2>5. /\ request'.forwardedFor = chain /\ request'.peer = p
          /\ request' \in [peer : Hosts, forwardedFor : Seq(Entry), realIp : Entry \cup {NoHost},
                           forwarded : Seq(Entry), localName : BOOLEAN, actor : BOOLEAN]
      BY <2>1, <2>2, <2>3, <2>4 DEF AddressInv, AddressTypes
    <2>6. PICK count, from : count = since /\ from = client
      OBVIOUS
    <2>7. count \in Nat /\ Trail(chain, count, from)
      BY <2>3, <2>6 DEF AddressInv, AddressTypes
    <2>8. AddressTypes'
      BY <2>2, <2>5 DEF AddressInv, AddressTypes
    <2>9. chain # <<>>
      <3>1. PICK f, q : f = request.forwardedFor /\ q = request.peer
        OBVIOUS
      <3>2. f \in Seq(Entry) /\ q \in Entry /\ chain = Append(f, q)
        BY <2>3, <3>1 DEF AddressInv, AddressTypes, Entry
      <3> QED
        BY <3>2
    <2>10. Direct'
      BY <2>2, <2>5, <2>9 DEF Direct, AddressInv, AddressTypes
    <2>11. CASE p \in TrustedProxies
      <3>1. Trail(Append(chain, p), count + 1, from)
        BY <2>4, <2>7, <2>11, TrailGrows
      <3> QED
        BY <2>2, <2>5, <2>6, <2>8, <2>10, <2>11, <3>1 DEF AddressInv
    <2>12. CASE p \notin TrustedProxies
      <3>1. p \in Entry
        BY DEF Entry
      <3>2. Trail(Append(chain, p), 0, p)
        BY <2>4, <3>1 DEF Trail
      <3> QED
        BY <2>2, <2>5, <2>8, <2>10, <2>12, <3>2 DEF AddressInv
    <2> QED
      BY <2>11, <2>12
  <1> QED
    BY <1>1, <1>2 DEF AddressNext

LEMMA AddressAlways == AddressSpec => []AddressInv
  BY AddressStart, AddressStep, PTL DEF AddressSpec

\* What the trail says of the peer, and of the walk.
LEMMA TrailIs ==
    ASSUME AddressInv
    PROVE  /\ since = 0 => request.peer = client
           /\ since > 0 => request.peer \in TrustedProxies /\ request.forwardedFor # <<>>
           /\ client \notin TrustedProxies => WalkChain(request) = client
  <1>1. PICK f, p, count, from : f = request.forwardedFor /\ p = request.peer /\ count = since /\ from = client
    OBVIOUS
  <1>2. f \in Seq(Entry) /\ p \in Entry /\ count \in Nat /\ Trail(Append(f, p), count, from)
    BY <1>1 DEF AddressInv, AddressTypes, Entry
  <1>3. PICK chain : chain = Append(f, p)
    OBVIOUS
  <1>4. PICK n \in Nat : n = Len(f)
    BY <1>2
  <1>5. chain \in Seq(Entry) /\ Len(chain) = n + 1 /\ chain[n + 1] = p
    BY <1>2, <1>3, <1>4
  <1>6. Trail(chain, count, from)
    BY <1>2, <1>3
  <1>7. ASSUME count = 0 PROVE p = from
    BY <1>5, <1>6, <1>7 DEF Trail
  <1>8. ASSUME count > 0 PROVE p \in TrustedProxies /\ f # <<>>
    <2>1. n + 1 \in 1..Len(chain) /\ n + 1 > Len(chain) - count /\ count < n + 1
      BY <1>2, <1>5, <1>6, <1>8 DEF Trail
    <2>2. p \in TrustedProxies
      BY <1>5, <1>6, <2>1 DEF Trail
    <2>3. n > 0
      BY <1>2, <1>8, <2>1
    <2> QED
      BY <1>4, <2>2, <2>3
  <1>9. ASSUME from \notin TrustedProxies PROVE WalkChain(request) = from
    <2>1. LET untrusted == {i \in 2..Len(chain) : chain[i] \notin TrustedProxies}
          IN  (IF untrusted = {} THEN chain[1] ELSE chain[Max(untrusted)]) = from
      BY <1>2, <1>5, <1>6, <1>9, WalkEnds
    <2> QED
      BY <1>1, <1>3, <2>1 DEF WalkChain
  <1> QED
    BY <1>1, <1>2, <1>7, <1>8, <1>9

LEMMA FoundClient ==
    ASSUME AddressInv
    PROVE  ClientIsFound
  <1> SUFFICES ASSUME trust, client \notin TrustedProxies
               PROVE  IF since > 0 /\ ~Valid(request.forwardedFor)
                      THEN FirewallClient(request) = request.peer /\ DashboardClient(request) = NoHost
                      ELSE FirewallClient(request) = client /\ DashboardClient(request) = client
    BY DEF ClientIsFound
  <1>1. since \in Nat
    BY DEF AddressInv, AddressTypes
  <1>2. CASE since = 0
    <2>1. request.peer = client /\ ~BehindProxy(request)
      BY <1>2, TrailIs DEF BehindProxy
    <2> QED
      BY <1>2, <2>1 DEF FirewallClient, DashboardClient
  <1>3. CASE since > 0
    <2>1. /\ BehindProxy(request) /\ request.forwardedFor # <<>>
          /\ WalkChain(request) = client
      BY <1>3, TrailIs DEF BehindProxy
    <2> QED
      BY <1>3, <2>1 DEF FirewallClient, DashboardClient
  <1> QED
    BY <1>1, <1>2, <1>3

\* The API firewall's and the dashboard's resolvers name the last host on the
\* way that is no trusted proxy, whatever the origin wrote into X-Forwarded-For
\* and the other headers, for any number of proxies and entries.
THEOREM AddressFindsClient == AddressSpec => []ClientIsFound
  <1>1. AddressInv => ClientIsFound
    BY FoundClient
  <1> QED
    BY <1>1, AddressAlways, PTL

\* is_local_request holds of no request from another machine, unless headers
\* are trusted and its client is a proxy on this machine or a trusted one.
THEOREM AddressLocalIsLocal == AddressSpec => []LocalIsLocal
  <1>1. AddressInv => LocalIsLocal
    <2> SUFFICES ASSUME AddressInv, IsLocalRequest(request)
                 PROVE  origin \in Loopback \/ (trust /\ client \in Loopback \cup TrustedProxies)
      BY DEF LocalIsLocal
    <2>1. DashboardClient(request) \in Loopback /\ (Hinted(request) <=> trust)
      BY DEF IsLocalRequest
    <2>2. NoHost \notin Loopback
      BY AddressAssumption
    <2>3. CASE trust /\ client \in TrustedProxies
      BY <2>3
    <2>4. CASE trust /\ client \notin TrustedProxies
      BY <2>1, <2>2, <2>4, FoundClient DEF ClientIsFound
    <2>5. CASE ~trust
      <3>1. DashboardClient(request) = request.peer
        BY <2>5 DEF DashboardClient, BehindProxy
      <3>2. request.forwardedFor = <<>>
        BY <2>1, <2>5 DEF Hinted
      <3>3. since = 0 /\ client = origin
        BY <3>2 DEF AddressInv, Direct
      <3> QED
        BY <2>1, <3>1, <3>3, TrailIs
    <2> QED
      BY <2>3, <2>4, <2>5
  <1> QED
    BY <1>1, AddressAlways, PTL

\* The actor that is left by DashboardAuthProxyHeaderSanitizerMiddleware is a
\* trusted proxy's word.
THEOREM AddressActorFromProxy == AddressSpec => []ActorFromProxy
  <1>1. AddressInv => ActorFromProxy
    <2> SUFFICES ASSUME AddressInv, Sanitized(request).actor
                 PROVE  trust /\ (since > 0 \/ client \in TrustedProxies)
      BY DEF ActorFromProxy
    <2>1. BehindProxy(request)
      BY DEF Sanitized, AddressInv, AddressTypes
    <2>2. since \in Nat
      BY DEF AddressInv, AddressTypes
    <2>3. CASE since = 0
      BY <2>1, <2>3, TrailIs DEF BehindProxy
    <2>4. CASE since # 0
      BY <2>1, <2>2, <2>4 DEF BehindProxy
    <2> QED
      BY <2>3, <2>4
  <1> QED
    BY <1>1, AddressAlways, PTL

=============================================================================
