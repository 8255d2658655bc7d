------------------------- MODULE RateLimiterProofs -------------------------
(***************************************************************************)
(* No window holds more than MaxAttempts attempts of a key, for any number *)
(* of requests and keys, any limit and any window.                         *)
(***************************************************************************)
EXTENDS RateLimiter, FiniteSetTheorems, TLAPS

\* A request that is under way has a key.
HasKey == \A h \in Handlers : stage[h] # "idle" => held[h].key \in Keys

\* The inductive invariant: the guard's count is over a finite, well-typed table.
IInv == LimiterTypeOK /\ HasKey /\ IsFiniteSet(attempts) /\ WindowBound

\* The empty table satisfies the invariant.
LEMMA InitIInv == LimiterInit => IInv
<1> SUFFICES ASSUME LimiterInit PROVE IInv
  OBVIOUS
<1> USE DEF LimiterInit
<1>1. LimiterTypeOK
  BY DEF LimiterTypeOK, NoRequest
<1>2. HasKey
  BY DEF HasKey
<1>3. IsFiniteSet(attempts)
  BY FS_EmptySet
<1>4. WindowBound
  BY DEF WindowBound
<1> QED
  BY <1>1, <1>2, <1>3, <1>4 DEF IInv

\* The table of clear_for_key, and any table with fewer attempts, keeps the
\* bound.
LEMMA FewerAttempts ==
    ASSUME IInv, attempts' \subseteq attempts
    PROVE  IsFiniteSet(attempts)' /\ WindowBound'
<1>1. IsFiniteSet(attempts')
  BY FS_Subset DEF IInv
<1>2. ASSUME NEW row \in attempts'
      PROVE  Cardinality(WindowFrom(row)') <= MaxAttempts
  <2> DEFINE old == WindowFrom(row)
             new == WindowFrom(row)'
  <2>1. new \subseteq old /\ old \subseteq attempts
    BY DEF WindowFrom
  <2>2. IsFiniteSet(old)
    BY <2>1, FS_Subset DEF IInv
  <2>3. Cardinality(old) <= MaxAttempts
    BY <1>2 DEF IInv, WindowBound
  <2>4. IsFiniteSet(new) /\ Cardinality(new) <= Cardinality(old)
    BY <2>1, <2>2, FS_Subset
  <2>5. Cardinality(new) \in Nat /\ Cardinality(old) \in Nat
    BY <2>2, <2>4, FS_CardinalityType
  <2> HIDE DEF old, new
  <2>6. Cardinality(new) <= MaxAttempts
    BY <2>3, <2>4, <2>5, LimiterAssumption
  <2> QED
    BY <2>6 DEF new
<1> QED
  BY <1>1, <1>2 DEF WindowBound

\* The guard of the INSERT is enough, whatever the order of the clock readings:
\* every attempt that shares a window with the new one was counted.
LEMMA AdmitBound ==
    ASSUME IInv, NEW h \in Handlers, CheckAndIncrement(h)
    PROVE  IsFiniteSet(attempts)' /\ WindowBound'
<1> DEFINE key == held[h].key
           now == held[h].now
<1>1. PICK id \in RowIds :
          /\ \A row \in attempts : row.id # id
          /\ attempts' = attempts \cup {NewRow(id, key, now)}
  <2>1. FreeIds # {} /\ attempts' = attempts \cup {NewRow(CHOOSE i \in FreeIds : TRUE, key, now)}
    BY DEF CheckAndIncrement
  <2>2. (CHOOSE i \in FreeIds : TRUE) \in FreeIds
    BY <2>1
  <2> QED
    BY <2>1, <2>2 DEF FreeIds
<1> DEFINE n == NewRow(id, key, now)
<1>2. n.at = now /\ n.key = key /\ now \in Nat /\ n \notin attempts
  BY <1>1 DEF NewRow, IInv, LimiterTypeOK
<1>3. \A row \in attempts : row.at \in Nat
  BY DEF IInv, LimiterTypeOK, Row
<1>4. IsFiniteSet(attempts')
  BY <1>1, FS_AddElement DEF IInv
<1>5. /\ IsFiniteSet(AttemptsCounted(key, now))
      /\ Cardinality(AttemptsCounted(key, now)) \in Nat
      /\ Cardinality(AttemptsCounted(key, now)) < MaxAttempts
  <2>1. AttemptsCounted(key, now) \subseteq attempts
    BY DEF AttemptsCounted
  <2>2. IsFiniteSet(AttemptsCounted(key, now))
    BY <2>1, FS_Subset DEF IInv
  <2> QED
    BY <2>2, FS_CardinalityType DEF CheckAndIncrement
<1> HIDE DEF n, key, now
<1>6. ASSUME NEW row \in attempts'
      PROVE  Cardinality(WindowFrom(row)') <= MaxAttempts
  <2> DEFINE new == WindowFrom(row)'
  <2>1. new = {r \in attempts' : /\ r.key = row.key
                                 /\ r.at >= row.at
                                 /\ r.at <= row.at + AttemptWindow}
    BY DEF WindowFrom
  <2>2. attempts' = attempts \cup {n}
    BY <1>1 DEF n
  <2>3. row.at \in Nat
    BY <1>2, <1>3, <1>6, <2>2
  <2>4. CASE n \in new
    <3>1. n.key = row.key /\ n.at >= row.at /\ n.at <= row.at + AttemptWindow
      BY <2>1, <2>4
    <3>2. new \ {n} \subseteq AttemptsCounted(key, now)
      <4> SUFFICES ASSUME NEW r \in new, r # n
                   PROVE  r \in AttemptsCounted(key, now)
        OBVIOUS
      <4>1. r \in attempts /\ r.key = row.key /\ r.at >= row.at
        BY <2>1, <2>2
      <4>2. r.at \in Nat /\ r.at + AttemptWindow >= now
        BY <4>1, <3>1, <1>2, <1>3, <2>3, LimiterAssumption
      <4> QED
        BY <4>1, <4>2, <3>1, <1>2 DEF AttemptsCounted, InAttemptWindow
    <3>3. /\ IsFiniteSet(new \ {n})
          /\ Cardinality(new \ {n}) <= Cardinality(AttemptsCounted(key, now))
      BY <3>2, <1>5, FS_Subset
    <3>4. Cardinality(new \ {n}) \in Nat
      BY <3>3, FS_CardinalityType
    <3>5. Cardinality((new \ {n}) \cup {n}) = Cardinality(new \ {n}) + 1
      BY <3>3, FS_AddElement
    <3>6. new = (new \ {n}) \cup {n}
      BY <2>4
    <3> HIDE DEF new
    <3>7. Cardinality(new) = Cardinality(new \ {n}) + 1
      BY <3>5, <3>6
    <3> QED
      BY <3>3, <3>4, <3>7, <1>5, LimiterAssumption DEF new
  <2>5. CASE n \notin new
    <3>1. row \in new
      BY <1>6, <2>1, <2>3, LimiterAssumption
    <3>2. row \in attempts
      BY <3>1, <2>2, <2>5, <1>6
    <3>3. new = WindowFrom(row)
      BY <2>1, <2>2, <2>5 DEF WindowFrom
    <3>4. Cardinality(WindowFrom(row)) <= MaxAttempts
      BY <3>2 DEF IInv, WindowBound
    <3> QED
      BY <3>3, <3>4
  <2> QED
    BY <2>4, <2>5
<1> QED
  BY <1>4, <1>6 DEF WindowBound

\* Every request that is under way keeps its key, and the types are kept.
LEMMA TypeStep ==
    ASSUME LimiterTypeOK, HasKey, [LimiterNext]_limiterVars
    PROVE  LimiterTypeOK' /\ HasKey'
<1> USE DEF LimiterTypeOK, HasKey
<1>1. ASSUME NEW h \in Handlers, NEW key \in Keys, ReadClock(h, key)
      PROVE  LimiterTypeOK' /\ HasKey'
  BY <1>1 DEF ReadClock
<1>2. ASSUME NEW h \in Handlers, CheckAndIncrement(h)
      PROVE  LimiterTypeOK' /\ HasKey'
  <2>1. PICK id \in RowIds :
            attempts' = attempts \cup {NewRow(id, held[h].key, held[h].now)}
    <3>1. FreeIds # {} /\ attempts' = attempts \cup {NewRow(CHOOSE i \in FreeIds : TRUE, held[h].key, held[h].now)}
      BY <1>2 DEF CheckAndIncrement
    <3>2. (CHOOSE i \in FreeIds : TRUE) \in FreeIds
      BY <3>1
    <3> QED
      BY <3>1, <3>2 DEF FreeIds
  <2>2. NewRow(id, held[h].key, held[h].now) \in Row
    BY <1>2 DEF CheckAndIncrement, NewRow, Row
  <2>3. attempts' \subseteq Row
    BY <2>1, <2>2
  <2> QED
    BY <1>2, <2>3 DEF CheckAndIncrement
<1>3. ASSUME NEW h \in Handlers, EndRequest(h), attempts' \subseteq attempts
      PROVE  LimiterTypeOK' /\ HasKey'
  BY <1>3 DEF EndRequest, NoRequest
<1>4. CASE TimePasses
  BY <1>4 DEF TimePasses
<1>5. CASE UNCHANGED limiterVars
  BY <1>5 DEF limiterVars
<1> QED
  BY <1>1, <1>2, <1>3, <1>4, <1>5 DEF LimiterNext, TooMany, ClearForKey, Abandon

\* Only Admit adds an attempt; every other step keeps or removes attempts.
LEMMA IInvStep ==
    ASSUME IInv, [LimiterNext]_limiterVars
    PROVE  IInv'
<1>1. LimiterTypeOK' /\ HasKey'
  BY TypeStep DEF IInv
<1>2. IsFiniteSet(attempts)' /\ WindowBound'
  <2>1. CASE \E h \in Handlers : CheckAndIncrement(h)
    BY <2>1, AdmitBound
  <2>2. CASE attempts' \subseteq attempts
    BY <2>2, FewerAttempts
  <2> QED
    BY <2>1, <2>2 DEF LimiterNext, limiterVars, ReadClock, TooMany, ClearForKey, Abandon, TimePasses
<1> QED
  BY <1>1, <1>2 DEF IInv

\* The limiter's table holds at most MaxAttempts attempts of a key in any
\* window: check_and_increment counts every attempt that can share a window with
\* the one it inserts.
THEOREM WindowBoundCorrect == LimiterSpec => []WindowBound
<1>1. IInv => WindowBound
  BY DEF IInv
<1> QED
  BY InitIInv, IInvStep, <1>1, PTL DEF LimiterSpec

\* The rows check_and_increment inserts and the readings requests hold are
\* well-formed.
THEOREM RateLimiterTypeCorrect == LimiterSpec => []LimiterTypeOK
<1>1. IInv => LimiterTypeOK
  BY DEF IInv
<1> QED
  BY InitIInv, IInvStep, <1>1, PTL DEF LimiterSpec
=============================================================================
