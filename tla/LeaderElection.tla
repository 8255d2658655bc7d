--------------------------- MODULE LeaderElection --------------------------
(***************************************************************************)
(* Leadership as a lease in one row of the database, with                  *)
(* leader_election_enabled and PostgreSQL (otherwise everybody leads).     *)
(* The clock is read before the statement that uses it runs, and           *)
(* try_acquire reads the row back in a transaction of its own.             *)
(***************************************************************************)
EXTENDS Integers

CONSTANTS
    Candidates, \* replicas
    Nobody,     \* no leader yet
    Ttl,        \* leader_election_ttl_seconds
    MaxWall     \* bound: the clock

ASSUME ElectionAssumption == Nobody \notin Candidates /\ {Ttl, MaxWall} \subseteq Nat

VARIABLES
    wall,     \* datetime.now(UTC)
    leader,   \* scheduler_leader: the row
    isLeader, \* isLeader[c]: _is_leader
    lease,    \* lease[c]: until when the row was c's when c last wrote it
    step      \* step[c]: where c is in try_acquire or renew, with its clock

electionVars == <<wall, leader, isLeader, lease, step>>

Resting == [at |-> "rest", now |-> 0]

ElectionInit ==
    /\ wall = 0
    /\ leader = [id |-> Nobody, expires |-> -1]
    /\ isLeader = [c \in Candidates |-> FALSE]
    /\ lease = [c \in Candidates |-> -1]
    /\ step = [c \in Candidates |-> Resting]

WallTick ==
    /\ wall < MaxWall /\ wall' = wall + 1
    /\ UNCHANGED <<leader, isLeader, lease, step>>

BeginAcquire(c) ==
    /\ step[c] = Resting
    /\ step' = [step EXCEPT ![c] = [at |-> "upsert", now |-> wall]]
    /\ UNCHANGED <<wall, leader, isLeader, lease>>

\* A mutated model: a lease is over in its last second.
VacantEarly(c) ==
    leader.id \in {Nobody, c} \/ leader.expires <= step[c].now

\* No row yet, or the WHERE of the upsert
Vacant(c) ==
    leader.id \in {Nobody, c} \/ leader.expires < step[c].now

\* The upsert and its COMMIT
Upsert(c) ==
    /\ step[c].at = "upsert"
    /\ leader' = IF Vacant(c) THEN [id |-> c, expires |-> step[c].now + Ttl] ELSE leader
    /\ step' = [step EXCEPT ![c].at = "select"]
    /\ UNCHANGED <<wall, isLeader, lease>>

\* try_acquire reads the row back.
ReadBack(c) ==
    /\ step[c].at = "select"
    /\ isLeader' = [isLeader EXCEPT ![c] = leader.id = c]
    /\ lease' = [lease EXCEPT ![c] = IF leader.id = c THEN step[c].now + Ttl ELSE @]
    /\ step' = [step EXCEPT ![c] = Resting]
    /\ UNCHANGED <<wall, leader>>

BeginRenew(c) ==
    /\ step[c] = Resting /\ isLeader[c]
    /\ step' = [step EXCEPT ![c] = [at |-> "renew", now |-> wall]]
    /\ UNCHANGED <<wall, leader, isLeader, lease>>

\* The UPDATE of renew and its COMMIT.  It returns TRUE also when it met
\* another leader's row and changed nothing.
Renew(c) ==
    /\ step[c].at = "renew"
    /\ IF leader.id = c
       THEN /\ leader' = [leader EXCEPT !.expires = step[c].now + Ttl]
            /\ lease' = [lease EXCEPT ![c] = step[c].now + Ttl]
       ELSE UNCHANGED <<leader, lease>>
    /\ step' = [step EXCEPT ![c] = Resting]
    /\ UNCHANGED <<wall, isLeader>>

\* The database raises: try_acquire gives leadership up, renew does not.
DatabaseFails(c) ==
    /\ step[c].at # "rest"
    /\ isLeader' = [isLeader EXCEPT ![c] = @ /\ step[c].at = "renew"]
    /\ step' = [step EXCEPT ![c] = Resting]
    /\ UNCHANGED <<wall, leader, lease>>

ElectionNext ==
    \/ WallTick
    \/ \E c \in Candidates :
        \/ BeginAcquire(c) \/ Upsert(c) \/ ReadBack(c)
        \/ BeginRenew(c) \/ Renew(c) \/ DatabaseFails(c)

ElectionSpec == ElectionInit /\ [][ElectionNext]_electionVars

-----------------------------------------------------------------------------
\* A replica that thinks it leads is the leader of the row for as long as the
\* lease it last wrote lasts, although clocks are read ahead of the statements
\* that use them and statements of the replicas come in any order.
LeaseIsExclusive ==
    \A c \in Candidates : isLeader[c] /\ wall <= lease[c] => leader.id = c

=============================================================================
