---------------------------- MODULE RateLimiter ----------------------------
(***************************************************************************)
(* The limiter of dashboard logins and TOTP codes, as the endpoints use    *)
(* it: check_and_increment before a secret is checked, clear_for_key after *)
(* it was right.  The attempts are rows of a table all replicas share.     *)
(*                                                                         *)
(* A request reads the clock, waits for the database, and then counts and  *)
(* inserts in one statement: other requests, with earlier or later clock   *)
(* readings, get in between.  (On PostgreSQL the clock is read under the   *)
(* key's advisory lock, which only removes interleavings.)                 *)
(***************************************************************************)
EXTENDS Integers, FiniteSets

CONSTANTS
    Keys,           \* limiter type, endpoint and client address
    Handlers,       \* requests being handled
    RowIds,         \* primary keys of the attempts table
    MaxAttempts,    \* attempts allowed in a window
    AttemptWindow,  \* its length, in ticks
    MaxTime,        \* bound of the clock
    NoKey           \* no key

ASSUME LimiterAssumption ==
    /\ MaxAttempts \in Nat \ {0}
    /\ AttemptWindow \in Nat \ {0}
    /\ MaxTime \in Nat
ASSUME NoKeyAssumption == NoKey \notin Keys

VARIABLES
    attempts,       \* the rows of the table
    time,           \* the clock
    stage,          \* stage[h]: where the request of h is
    held            \* held[h]: its key and its reading of the clock

limiterVars == <<attempts, time, stage, held>>

Row == [id : RowIds, key : Keys, at : Nat]

NoRequest == [key |-> NoKey, now |-> 0]

LimiterTypeOK ==
    /\ attempts \subseteq Row
    /\ time \in Nat
    /\ stage \in [Handlers -> {"idle", "waiting", "verifying"}]
    /\ held \in [Handlers -> [key : Keys \cup {NoKey}, now : Nat]]

LimiterInit ==
    /\ attempts = {}
    /\ time = 0
    /\ stage = [h \in Handlers |-> "idle"]
    /\ held = [h \in Handlers |-> NoRequest]

-----------------------------------------------------------------------------

\* A mutated model: an attempt exactly one window old is not counted.
InOpenAttemptWindow(row, key, now) == row.key = key /\ row.at + AttemptWindow > now

\* attempted_at >= window_start
InAttemptWindow(row, key, now) == row.key = key /\ row.at + AttemptWindow >= now

\* The attempts the guard of the INSERT counts.
AttemptsCounted(key, now) == {row \in attempts : InAttemptWindow(row, key, now)}

\* The request reads the clock.
ReadClock(h, key) ==
    /\ stage[h] = "idle"
    /\ stage' = [stage EXCEPT ![h] = "waiting"]
    /\ held' = [held EXCEPT ![h] = [key |-> key, now |-> time]]
    /\ UNCHANGED <<attempts, time>>

\* A row gets a primary key no other row has.
FreeIds == {id \in RowIds : \A row \in attempts : row.id # id}

NewRow(id, key, now) == [id |-> id, key |-> key, at |-> now]

\* check_and_increment below the limit: the attempt is recorded, and the
\* endpoint goes on to check the password or the code.
CheckAndIncrement(h) ==
    /\ stage[h] = "waiting"
    /\ Cardinality(AttemptsCounted(held[h].key, held[h].now)) < MaxAttempts
    /\ FreeIds # {}
    /\ LET id == CHOOSE i \in FreeIds : TRUE
       IN  attempts' = attempts \cup {NewRow(id, held[h].key, held[h].now)}
    /\ stage' = [stage EXCEPT ![h] = "verifying"]
    /\ UNCHANGED <<time, held>>

\* The request ends: its answer is out, or it raised.
EndRequest(h) ==
    /\ stage' = [stage EXCEPT ![h] = "idle"]
    /\ held' = [held EXCEPT ![h] = NoRequest]
    /\ UNCHANGED time

\* check_and_increment at the limit: a 429.
TooMany(h) ==
    /\ stage[h] = "waiting"
    /\ Cardinality(AttemptsCounted(held[h].key, held[h].now)) >= MaxAttempts
    /\ EndRequest(h)
    /\ UNCHANGED attempts

\* The secret was right: clear_for_key, whatever other requests recorded.
ClearForKey(h) ==
    /\ stage[h] = "verifying"
    /\ attempts' = {row \in attempts : row.key # held[h].key}
    /\ EndRequest(h)

\* The secret was wrong, the request raised or was cut off: what it recorded
\* stays.
Abandon(h) ==
    /\ stage[h] \in {"waiting", "verifying"}
    /\ EndRequest(h)
    /\ UNCHANGED attempts

TimePasses ==
    /\ time < MaxTime
    /\ time' = time + 1
    /\ UNCHANGED <<attempts, stage, held>>

LimiterNext ==
    \/ \E h \in Handlers :
          \/ \E key \in Keys : ReadClock(h, key)
          \/ CheckAndIncrement(h)
          \/ TooMany(h)
          \/ ClearForKey(h)
          \/ Abandon(h)
    \/ TimePasses

LimiterSpec == LimiterInit /\ [][LimiterNext]_limiterVars

-----------------------------------------------------------------------------

\* The attempts of row's key in the window that begins with row.
WindowFrom(row) == {r \in attempts : /\ r.key = row.key
                                     /\ r.at >= row.at
                                     /\ r.at <= row.at + AttemptWindow}

\* check_and_increment never lets more than max_attempts attempts of a key fall
\* into one window, wherever the window begins, although requests count and
\* insert in another order than they read the clock.  (Both ends belong to the
\* window, as in the query.)
WindowBound ==
    \A row \in attempts : Cardinality(WindowFrom(row)) <= MaxAttempts
=============================================================================
