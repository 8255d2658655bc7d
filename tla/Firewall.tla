------------------------------ MODULE Firewall ------------------------------
(***************************************************************************)
(* The allowlist of the API, the decisions each replica caches, and how a  *)
(* change reaches the other replicas: the replica that made it bumps a     *)
(* version in the database, and every replica polls that version.          *)
(***************************************************************************)
EXTENDS Naturals, Sequences, FiniteSetsExt

CONSTANTS
    Addresses,      \* addresses requests come from
    Listable,       \* addresses administrators add and delete
    Replicas,       \* processes that serve the API
    Handlers,       \* API requests being handled
    Admins,         \* changes of the allowlist being handled
    MaxChanges,     \* bound of the changes committed
    MaxRestarts,    \* bound of the restarts of replicas
    None            \* nothing cached, nothing read, nobody

ASSUME FirewallAssumption ==
    MaxChanges \in Nat /\ MaxRestarts \in Nat

VARIABLES
    allowlist,      \* api_firewall_allowlist
    bumped,         \* version of the namespace in cache_invalidations, 0: no row
    decisions,      \* decisions[r][ip]: FirewallIPCache of r
    poller,         \* poller[r]: known version, initialized or not, what was read
    req,            \* req[h]: an API request
    adm,            \* adm[a]: a change
    restarts,       \* restarts so far
    changes,        \* history: changes committed so far
    sent,           \* history: sent[v], the change that bumped to version v
    told            \* history: told[r], the latest change r has been told of

vars == <<allowlist, bumped, decisions, poller, req, adm, restarts,
          changes, sent, told>>
history == <<changes, sent, told>>

\* asof: how many changes the decision takes into account.
Decision == [allowed : BOOLEAN, asof : Nat]

NoPoll == [known |-> None, initialized |-> FALSE, read |-> None]
NoRequest == [pc |-> "idle", at |-> None, ip |-> None, current |-> TRUE,
              decision |-> [allowed |-> FALSE, asof |-> 0]]
NoChange == [pc |-> "idle", at |-> None, ip |-> None, change |-> 0]

TypeOK ==
    /\ allowlist \subseteq Listable
    /\ bumped \in Nat
    /\ decisions \in [Replicas -> [Addresses -> Decision \cup {None}]]
    /\ poller \in [Replicas -> [known : Nat \cup {None}, initialized : BOOLEAN,
                                read : Nat \cup {None}]]
    /\ req \in [Handlers -> [pc : {"idle", "read", "store"}, at : Replicas \cup {None},
                             ip : Addresses \cup {None}, current : BOOLEAN,
                             decision : Decision]]
    /\ adm \in [Admins -> [pc : {"idle", "add", "delete", "invalidate", "bump"},
                           at : Replicas \cup {None}, ip : Listable \cup {None}, change : Nat]]
    /\ restarts \in Nat /\ changes \in Nat
    /\ sent \in Seq(Nat)
    /\ told \in [Replicas -> Nat]

NoDecisions == [ip \in Addresses |-> None]

Init ==
    /\ allowlist = {}
    /\ bumped = 0
    /\ decisions = [r \in Replicas |-> NoDecisions]
    /\ poller = [r \in Replicas |-> NoPoll]
    /\ req = [h \in Handlers |-> NoRequest]
    /\ adm = [a \in Admins |-> NoChange]
    /\ restarts = 0
    /\ changes = 0
    /\ sent = <<>>
    /\ told = [r \in Replicas |-> 0]

-----------------------------------------------------------------------------
\* Requests

\* is_ip_allowed: an empty list lets everybody in.
Allowed(ip) == allowlist = {} \/ ip \in allowlist

\* No decision is cached for the client: the middleware notes the cache's
\* version and opens a session.  (The decision on a client without an address
\* is not kept, and a cached decision changes nothing.)
Miss(h, r, ip) ==
    /\ req[h].pc = "idle"
    /\ decisions[r][ip] = None
    /\ req' = [req EXCEPT ![h] = [NoRequest EXCEPT !.pc = "read", !.at = r, !.ip = ip]]
    /\ UNCHANGED <<allowlist, bumped, decisions, poller, adm, restarts, history>>

\* list_ip_addresses
ReadAllowlist(h) ==
    /\ req[h].pc = "read"
    /\ req' = [req EXCEPT ![h].pc = "store",
                          ![h].decision = [allowed |-> Allowed(req[h].ip), asof |-> changes]]
    /\ UNCHANGED <<allowlist, bumped, decisions, poller, adm, restarts, history>>

\* A mutated model: set without if_version.
AnyVersion(h) == TRUE

\* if_version: the version only grows, so it is the one noted if the cache was
\* not emptied since.
SameVersion(h) == req[h].current

\* FirewallIPCache.set, and the answer.
StoreDecision(h) ==
    /\ req[h].pc = "store"
    /\ decisions' = IF SameVersion(h)
                    THEN [decisions EXCEPT ![req[h].at][req[h].ip] = req[h].decision]
                    ELSE decisions
    /\ req' = [req EXCEPT ![h] = NoRequest]
    /\ UNCHANGED <<allowlist, bumped, poller, adm, restarts, history>>

\* A mutated model: expires_at is not looked at.
NeverExpire(r, ip) == FALSE /\ UNCHANGED vars

\* expires_at has passed: is_allowed no longer answers.
Expire(r, ip) ==
    /\ decisions[r][ip] # None
    /\ decisions' = [decisions EXCEPT ![r][ip] = None]
    /\ UNCHANGED <<allowlist, bumped, poller, req, adm, restarts, history>>

-----------------------------------------------------------------------------
\* Changes

\* add_ip up to the INSERT, delete up to the DELETE: the address was not, or
\* was, on the list.
BeginChange(a, r, ip) ==
    /\ adm[a].pc = "idle"
    /\ changes + Cardinality({b \in Admins : adm[b].pc # "idle"}) < MaxChanges
    /\ adm' = [adm EXCEPT ![a] = [NoChange EXCEPT
                 !.pc = IF ip \in allowlist THEN "delete" ELSE "add", !.at = r, !.ip = ip]]
    /\ UNCHANGED <<allowlist, bumped, decisions, poller, req, restarts, history>>

Committed(a, new) ==
    /\ allowlist' = new
    /\ changes' = changes + 1
    /\ adm' = [adm EXCEPT ![a].pc = "invalidate", ![a].change = changes + 1]
    /\ UNCHANGED <<bumped, decisions, poller, req, restarts, sent, told>>

CommitAdd(a) ==
    /\ adm[a].pc = "add" /\ adm[a].ip \notin allowlist
    /\ Committed(a, allowlist \cup {adm[a].ip})

\* IntegrityError: somebody added the address meanwhile.
AddConflict(a) ==
    /\ adm[a].pc = "add" /\ adm[a].ip \in allowlist
    /\ adm' = [adm EXCEPT ![a] = NoChange]
    /\ UNCHANGED <<allowlist, bumped, decisions, poller, req, restarts, history>>

\* A DELETE of a row that is gone is a warning, and the handler goes on.
CommitDelete(a) ==
    /\ adm[a].pc = "delete"
    /\ Committed(a, allowlist \ {adm[a].ip})

Larger(m, n) == IF m > n THEN m ELSE n

\* A mutated model: the dictionary goes with its entries.
ForgetAll(r, change) ==
    /\ decisions' = [decisions EXCEPT ![r] = <<>>]
    /\ told' = [told EXCEPT ![r] = Larger(@, change)]
    /\ UNCHANGED req

\* invalidate_all, because r is told of a change: the decisions go, and the
\* version that requests under way have noted is no longer the cache's.
InvalidateAll(r, change) ==
    /\ decisions' = [decisions EXCEPT ![r] = NoDecisions]
    /\ req' = [h \in Handlers |-> [req[h] EXCEPT !.current = @ /\ req[h].at # r]]
    /\ told' = [told EXCEPT ![r] = Larger(@, change)]

Invalidate(a) ==
    /\ adm[a].pc = "invalidate"
    /\ InvalidateAll(adm[a].at, adm[a].change)
    /\ adm' = [adm EXCEPT ![a].pc = "bump"]
    /\ UNCHANGED <<allowlist, bumped, poller, restarts, changes, sent>>

\* bump: an upsert
Bump(a) ==
    /\ adm[a].pc = "bump"
    /\ bumped' = bumped + 1
    /\ sent' = Append(sent, adm[a].change)
    /\ adm' = [adm EXCEPT ![a] = NoChange]
    /\ UNCHANGED <<allowlist, decisions, poller, req, restarts, changes, told>>

\* A bump that fails is logged, and the change answered all the same.
BumpFails(a) ==
    /\ adm[a].pc = "bump"
    /\ adm' = [adm EXCEPT ![a] = NoChange]
    /\ UNCHANGED <<allowlist, bumped, decisions, poller, req, restarts, history>>

-----------------------------------------------------------------------------
\* The poller

\* _poll_once up to the close of its session; a poll that fails changes nothing.
PollRead(r) ==
    /\ poller[r].read = None
    /\ poller' = [poller EXCEPT ![r].read = bumped]
    /\ UNCHANGED <<allowlist, bumped, decisions, req, adm, restarts, history>>

\* A mutated model: the first version of a namespace is never news.
IsNewsOfKnown(p) == p.read > 0 /\ p.known # None /\ p.read # p.known

\* The callbacks run for a version that differs from the one known, or that
\* appears after the first poll.
IsNews(p) ==
    /\ p.read > 0
    /\ IF p.known = None THEN p.initialized ELSE p.read # p.known

\* The changes announced by the versions the poll has not seen before.
Announced(p) ==
    LET from == IF p.known = None THEN 0 ELSE p.known
    IN  Max({sent[v] : v \in (from + 1)..p.read} \cup {0})

\* The rest of _poll_once.
PollApply(r) ==
    LET p == poller[r]
        known == IF p.read > 0 THEN p.read ELSE p.known
    IN  /\ p.read # None
        /\ poller' = [poller EXCEPT ![r] =
                        [known |-> known, initialized |-> TRUE, read |-> None]]
        /\ IF IsNews(p) THEN InvalidateAll(r, Announced(p))
                        ELSE UNCHANGED <<decisions, req, told>>
        /\ UNCHANGED <<allowlist, bumped, adm, restarts, changes, sent>>

\* A replica dies with its requests and changes, and starts with nothing.
Restart(r) ==
    /\ restarts < MaxRestarts
    /\ restarts' = restarts + 1
    /\ decisions' = [decisions EXCEPT ![r] = NoDecisions]
    /\ poller' = [poller EXCEPT ![r] = NoPoll]
    /\ req' = [h \in Handlers |-> IF req[h].at = r THEN NoRequest ELSE req[h]]
    /\ adm' = [a \in Admins |-> IF adm[a].at = r THEN NoChange ELSE adm[a]]
    /\ told' = [told EXCEPT ![r] = 0]
    /\ UNCHANGED <<allowlist, bumped, changes, sent>>

-----------------------------------------------------------------------------

Poll(r) == PollRead(r) \/ PollApply(r)

Next ==
    \/ \E r \in Replicas :
          \/ \E h \in Handlers, ip \in Addresses : Miss(h, r, ip)
          \/ \E a \in Admins, ip \in Listable : BeginChange(a, r, ip)
          \/ \E ip \in Addresses : Expire(r, ip)
          \/ Poll(r) \/ Restart(r)
    \/ \E h \in Handlers : ReadAllowlist(h) \/ StoreDecision(h)
    \/ \E a \in Admins :
          \/ CommitAdd(a) \/ AddConflict(a) \/ CommitDelete(a)
          \/ Invalidate(a) \/ Bump(a) \/ BumpFails(a)

\* Time passes: a decision expires, and every replica polls.
Fairness ==
    \A r \in Replicas : WF_vars(Poll(r)) /\ \A ip \in Addresses : WF_vars(Expire(r, ip))

Spec == Init /\ [][Next]_vars /\ Fairness

-----------------------------------------------------------------------------
\* Properties

\* A replica that was told of a change, by the request that made it or by a
\* poll, has no decision cached that leaves the change out, although requests
\* that read the list before may still be about to cache what they found.
ToldIsForgotten ==
    \A r \in Replicas, ip \in Addresses :
        decisions[r][ip] # None => decisions[r][ip].asof >= told[r]

\* A poll that runs the callbacks is told of every change that was announced
\* since the one before; one that does not has nothing to tell, except the
\* first of a replica.
PollMissesNothing ==
    [][\A r \in Replicas :
         poller[r].initialized /\ poller'[r].known # poller[r].known /\ poller'[r].initialized
            => \A v \in 1..poller'[r].known :
                 (poller[r].known = None \/ v > poller[r].known) => told'[r] >= sent[v]]_vars

\* A change gets everywhere in the end, also when its bump fails, when its
\* replica dies before the bump, or when it is announced just before another
\* replica polls for the first time.
Consistent ==
    \A r \in Replicas, ip \in Addresses :
        decisions[r][ip] # None => decisions[r][ip].allowed = Allowed(ip)

Converges == <>[]Consistent

=============================================================================
