--------------------------- MODULE FirewallProofs ---------------------------
(***************************************************************************)
(* Proofs about Firewall: the types, what a replica that was told of a     *)
(* change has cached, and what a poll tells it, for any number of          *)
(* addresses, replicas, requests, changes and restarts.                    *)
(***************************************************************************)
EXTENDS Firewall, Integers, Extrema, TLAPS

-----------------------------------------------------------------------------
\* The inductive invariant

\* A request or a change under way knows its replica and its address.
Located ==
    /\ \A h \in Handlers : req[h].pc # "idle" =>
          req[h].at \in Replicas /\ req[h].ip \in Addresses
    /\ \A a \in Admins : adm[a].pc # "idle" =>
          adm[a].at \in Replicas /\ adm[a].ip \in Listable

\* Every version has its change, and nobody knows of a change to come.
Numbered ==
    /\ Len(sent) = bumped
    /\ \A v \in 1..bumped : sent[v] <= changes
    /\ \A a \in Admins : adm[a].change <= changes
    /\ \A r \in Replicas : told[r] <= changes

\* A poller never runs ahead of the database, and never back.
Behind ==
    \A r \in Replicas :
        /\ poller[r].read # None => poller[r].read <= bumped
        /\ poller[r].known # None => poller[r].known \in 1..bumped
        /\ poller[r].read # None /\ poller[r].known # None =>
              poller[r].known <= poller[r].read

\* What a request is about to cache takes into account all its replica was
\* told of, unless the cache was emptied meanwhile.
Current ==
    \A h \in Handlers :
        req[h].pc = "store" /\ req[h].current =>
            req[h].decision.asof >= told[req[h].at]

FirewallInv == TypeOK /\ Located /\ Numbered /\ Behind /\ Current /\ ToldIsForgotten

LEMMA InitInv == Init => FirewallInv
  <1> SUFFICES ASSUME Init PROVE FirewallInv
    OBVIOUS
  <1> USE DEF Init, NoRequest, NoChange, NoPoll, NoDecisions
  <1>1. TypeOK
    BY DEF TypeOK, Decision
  <1>2. Located /\ Numbered /\ Behind /\ Current /\ ToldIsForgotten
    BY DEF Located, Numbered, Behind, Current, ToldIsForgotten
  <1> QED
    BY <1>1, <1>2 DEF FirewallInv

\* What a poll announces is a change, and not an older one than any version
\* the poll had not seen.
LEMMA AnnouncedAll ==
    ASSUME FirewallInv, NEW r \in Replicas, poller[r].read # None
    PROVE  /\ Announced(poller[r]) \in Nat
           /\ Announced(poller[r]) <= changes
           /\ \A v \in 1..poller[r].read :
                 (poller[r].known = None \/ v > poller[r].known) =>
                     Announced(poller[r]) >= sent[v]
  <1> DEFINE p == poller[r]
             from == IF p.known = None THEN 0 ELSE p.known
             S == {sent[v] : v \in (from + 1)..p.read}
             T == S \cup {0}
  <1>1. p.read \in Nat /\ from \in Nat /\ p.read <= bumped
    BY DEF FirewallInv, TypeOK, Behind
  <1>2. changes \in Nat /\ bumped \in Nat
    BY DEF FirewallInv, TypeOK
  <1>3. \A v \in 1..bumped : sent[v] \in 0..changes
    <2>1. \A v \in 1..bumped : sent[v] \in Nat
      BY DEF FirewallInv, TypeOK, Numbered
    <2> QED
      BY <1>2, <2>1 DEF FirewallInv, Numbered
  <1>4. \A v \in (from + 1)..p.read : v \in 1..bumped
    BY <1>1, <1>2
  <1> HIDE DEF from, p
  <1>5. T \subseteq 0..changes /\ T # {}
    BY <1>2, <1>3, <1>4
  <1>6. Announced(p) = Max(T)
    BY DEF Announced, from
  <1>7. \A v \in (from + 1)..p.read : sent[v] \in T
    OBVIOUS
  <1> HIDE DEF T
  <1>8. Max(T) \in T /\ \A y \in T : y <= Max(T)
    BY <1>2, <1>5, MaxOfBounded
  <1>9. Max(T) \in 0..changes
    BY <1>5, <1>8
  <1>10. ASSUME NEW v \in 1..p.read, p.known = None \/ v > p.known
         PROVE  Max(T) >= sent[v]
    <2>1. v \in (from + 1)..p.read
      BY <1>1, <1>10 DEF from
    <2>2. sent[v] \in T /\ sent[v] \in 0..changes
      BY <1>3, <1>4, <1>7, <2>1
    <2> QED
      BY <1>8, <1>9, <2>2
  <1> QED
    BY <1>2, <1>6, <1>9, <1>10 DEF p

-----------------------------------------------------------------------------
\* The steps

\* The records of TypeOK.
Request == [pc : {"idle", "read", "store"}, at : Replicas \cup {None},
            ip : Addresses \cup {None}, current : BOOLEAN, decision : Decision]
Change == [pc : {"idle", "add", "delete", "invalidate", "bump"},
           at : Replicas \cup {None}, ip : Listable \cup {None}, change : Nat]
Polling == [known : Nat \cup {None}, initialized : BOOLEAN, read : Nat \cup {None}]

Types ==
    /\ allowlist \subseteq Listable
    /\ bumped \in Nat
    /\ decisions \in [Replicas -> [Addresses -> Decision \cup {None}]]
    /\ poller \in [Replicas -> Polling]
    /\ req \in [Handlers -> Request]
    /\ adm \in [Admins -> Change]
    /\ restarts \in Nat /\ changes \in Nat
    /\ sent \in Seq(Nat)
    /\ told \in [Replicas -> Nat]

LEMMA TypesAre == (TypeOK <=> Types) /\ (TypeOK' <=> Types')
  BY DEF TypeOK, Types, Request, Change, Polling

\* A record with some of its fields set is of its type.
LEMMA Updated ==
    /\ NoRequest \in Request /\ NoChange \in Change /\ NoPoll \in Polling
    /\ \A r \in Replicas, ip \in Addresses :
          [NoRequest EXCEPT !.pc = "read", !.at = r, !.ip = ip] \in Request
    /\ \A q \in Request, d \in Decision : [q EXCEPT !.pc = "store", !.decision = d] \in Request
    /\ \A q \in Request, b \in BOOLEAN : [q EXCEPT !.current = b] \in Request
    /\ \A r \in Replicas, ip \in Listable, pc \in {"add", "delete"} :
          [NoChange EXCEPT !.pc = pc, !.at = r, !.ip = ip] \in Change
    /\ \A c \in Change, n \in Nat : [c EXCEPT !.pc = "invalidate", !.change = n] \in Change
    /\ \A c \in Change : [c EXCEPT !.pc = "bump"] \in Change
    /\ \A p \in Polling, n \in Nat : [p EXCEPT !.read = n] \in Polling
    /\ \A known \in Nat \cup {None} :
          [known |-> known, initialized |-> TRUE, read |-> None] \in Polling
  <1>1. NoRequest \in Request /\ NoChange \in Change /\ NoPoll \in Polling
    BY DEF NoRequest, NoChange, NoPoll, Request, Change, Polling, Decision
  <1>2. \A r \in Replicas, ip \in Addresses :
          [NoRequest EXCEPT !.pc = "read", !.at = r, !.ip = ip] \in Request
    BY DEF NoRequest, Request, Decision
  <1>3. \A q \in Request, d \in Decision : [q EXCEPT !.pc = "store", !.decision = d] \in Request
    BY DEF Request
  <1>4. \A q \in Request, b \in BOOLEAN : [q EXCEPT !.current = b] \in Request
    BY DEF Request
  <1>5. \A r \in Replicas, ip \in Listable, pc \in {"add", "delete"} :
          [NoChange EXCEPT !.pc = pc, !.at = r, !.ip = ip] \in Change
    BY DEF NoChange, Change
  <1>6. \A c \in Change, n \in Nat : [c EXCEPT !.pc = "invalidate", !.change = n] \in Change
    BY DEF Change
  <1>7. \A c \in Change : [c EXCEPT !.pc = "bump"] \in Change
    BY DEF Change
  <1>8. \A p \in Polling, n \in Nat : [p EXCEPT !.read = n] \in Polling
    BY DEF Polling
  <1>9. \A known \in Nat \cup {None} :
          [known |-> known, initialized |-> TRUE, read |-> None] \in Polling
    BY DEF Polling
  <1> QED
    BY <1>1, <1>2, <1>3, <1>4, <1>5, <1>6, <1>7, <1>8, <1>9

\* The variables apart, as the parts of the invariant read them.
LEMMA Typed ==
    ASSUME FirewallInv
    PROVE  /\ TypeOK /\ Located /\ Numbered /\ Behind /\ Current /\ ToldIsForgotten
           /\ \A r \in Replicas : told[r] \in Nat /\ told[r] <= changes
           /\ changes \in Nat /\ bumped \in Nat /\ Len(sent) = bumped
  BY DEF FirewallInv, TypeOK, Numbered

\* Emptying a cache: no decision is left, and none of the requests under way
\* at the replica may cache what it read.
LEMMA InvalidateAllStep ==
    ASSUME FirewallInv, NEW r \in Replicas, NEW change \in Nat, change <= changes,
           InvalidateAll(r, change), changes' = changes
    PROVE  /\ decisions' \in [Replicas -> [Addresses -> Decision \cup {None}]]
           /\ req' \in [Handlers -> [pc : {"idle", "read", "store"}, at : Replicas \cup {None},
                                     ip : Addresses \cup {None}, current : BOOLEAN,
                                     decision : Decision]]
           /\ told' \in [Replicas -> Nat]
           /\ \A q \in Replicas : told'[q] <= changes'
           /\ told'[r] >= change
           /\ \A h \in Handlers : req'[h].pc # "idle" =>
                 req'[h].at \in Replicas /\ req'[h].ip \in Addresses
           /\ Current' /\ ToldIsForgotten'
  <1> USE Typed DEF InvalidateAll
  <1>1. decisions' \in [Replicas -> [Addresses -> Decision \cup {None}]]
    BY DEF TypeOK, NoDecisions
  <1>2. req' \in [Handlers -> [pc : {"idle", "read", "store"}, at : Replicas \cup {None},
                               ip : Addresses \cup {None}, current : BOOLEAN,
                               decision : Decision]]
    <2>1. req \in [Handlers -> Request]
      BY TypesAre DEF Types
    <2>2. ASSUME NEW h \in Handlers
          PROVE  [req[h] EXCEPT !.current = @ /\ req[h].at # r] \in Request
      <3>1. (req[h].current /\ req[h].at # r) \in BOOLEAN
        OBVIOUS
      <3> QED
        BY <2>1, <3>1, Updated
    <2>3. req' \in [Handlers -> Request]
      BY <2>2
    <2> QED
      BY <2>3 DEF Request
  <1>3. /\ told' \in [Replicas -> Nat]
        /\ \A q \in Replicas : told'[q] <= changes'
        /\ told'[r] >= change
        /\ \A q \in Replicas : q # r => told'[q] = told[q]
    BY DEF TypeOK, Larger
  <1>4. \A h \in Handlers : /\ req'[h].pc = req[h].pc /\ req'[h].at = req[h].at
                            /\ req'[h].ip = req[h].ip /\ req'[h].decision = req[h].decision
                            /\ req'[h].current = (req[h].current /\ req[h].at # r)
    BY DEF TypeOK
  <1>5. \A h \in Handlers : req'[h].pc # "idle" =>
            req'[h].at \in Replicas /\ req'[h].ip \in Addresses
    BY <1>4 DEF Located
  <1>6. Current'
    <2> SUFFICES ASSUME NEW h \in Handlers, req'[h].pc = "store", req'[h].current
                 PROVE  req'[h].decision.asof >= told'[req'[h].at]
      BY DEF Current
    <2>1. req[h].pc = "store" /\ req[h].current /\ req[h].at # r
      BY <1>4
    <2>2. req[h].at \in Replicas /\ req[h].decision.asof >= told[req[h].at]
      BY <2>1 DEF Current, Located
    <2> QED
      BY <1>3, <1>4, <2>1, <2>2
  <1>7. ToldIsForgotten'
    <2> SUFFICES ASSUME NEW q \in Replicas, NEW ip \in Addresses, decisions'[q][ip] # None
                 PROVE  decisions'[q][ip].asof >= told'[q]
      BY DEF ToldIsForgotten
    <2>1. q # r /\ decisions'[q] = decisions[q]
      BY DEF TypeOK, NoDecisions
    <2> QED
      BY <1>3, <2>1 DEF ToldIsForgotten
  <1> QED
    BY <1>1, <1>2, <1>3, <1>5, <1>6, <1>7

\* What requests do.
LEMMA RequestStep ==
    ASSUME FirewallInv,
           \/ \E h \in Handlers, r \in Replicas, ip \in Addresses : Miss(h, r, ip)
           \/ \E h \in Handlers : ReadAllowlist(h) \/ StoreDecision(h)
           \/ \E r \in Replicas, ip \in Addresses : Expire(r, ip)
    PROVE  FirewallInv'
  <1> USE Typed
  <1>1. ASSUME NEW h \in Handlers, NEW r \in Replicas, NEW ip \in Addresses, Miss(h, r, ip)
        PROVE  FirewallInv'
    <2> USE <1>1 DEF Miss, history
    <2>1. TypeOK'
      BY DEF TypeOK, NoRequest, Decision
    <2>2. Located' /\ Numbered' /\ Behind' /\ Current' /\ ToldIsForgotten'
      BY DEF TypeOK, NoRequest, Located, Numbered, Behind, Current, ToldIsForgotten
    <2> QED
      BY <2>1, <2>2 DEF FirewallInv
  <1>2. ASSUME NEW h \in Handlers, ReadAllowlist(h)
        PROVE  FirewallInv'
    <2> USE <1>2 DEF ReadAllowlist, history
    <2>0. Allowed(req[h].ip) \in BOOLEAN
      BY DEF Allowed
    <2> DEFINE d == [allowed |-> Allowed(req[h].ip), asof |-> changes]
    <2>1. d \in Decision /\ d.asof = changes
      BY <2>0 DEF Decision
    <2>2. req' = [req EXCEPT ![h].pc = "store", ![h].decision = d]
      OBVIOUS
    <2> HIDE DEF d
    <2>3. TypeOK'
      <3>1. req' = [req EXCEPT ![h] = [req[h] EXCEPT !.pc = "store", !.decision = d]]
        BY <2>2
      <3>2. req \in [Handlers -> Request]
        BY TypesAre DEF Types
      <3>3. [req[h] EXCEPT !.pc = "store", !.decision = d] \in Request
        BY <2>1, <3>2, Updated
      <3>4. req' \in [Handlers -> Request]
        BY <3>1, <3>2, <3>3
      <3> QED
        BY <3>4, TypesAre DEF Types
    <2>4. Located' /\ Numbered' /\ Behind' /\ ToldIsForgotten'
      BY <2>2 DEF TypeOK, Located, Numbered, Behind, ToldIsForgotten
    <2>5. Current'
      BY <2>1, <2>2 DEF TypeOK, Located, Current
    <2> QED
      BY <2>3, <2>4, <2>5 DEF FirewallInv
  <1>3. ASSUME NEW h \in Handlers, StoreDecision(h)
        PROVE  FirewallInv'
    <2> USE <1>3 DEF StoreDecision, history
    <2>0. req[h].at \in Replicas /\ req[h].ip \in Addresses /\ req[h].decision \in Decision
      BY DEF Located, TypeOK
    <2>1. TypeOK'
      BY <2>0 DEF TypeOK, NoRequest, Decision
    <2>2. Located' /\ Numbered' /\ Behind' /\ Current'
      BY DEF TypeOK, NoRequest, Located, Numbered, Behind, Current
    <2>3. SameVersion(h) => req[h].decision.asof >= told[req[h].at]
      BY DEF SameVersion, Current
    <2>4. ToldIsForgotten'
      BY <2>0, <2>3 DEF TypeOK, ToldIsForgotten
    <2> QED
      BY <2>1, <2>2, <2>4 DEF FirewallInv
  <1>4. ASSUME NEW r \in Replicas, NEW ip \in Addresses, Expire(r, ip)
        PROVE  FirewallInv'
    <2> USE <1>4 DEF Expire, history
    <2>1. TypeOK'
      BY DEF TypeOK
    <2>2. Located' /\ Numbered' /\ Behind' /\ Current' /\ ToldIsForgotten'
      BY DEF TypeOK, Located, Numbered, Behind, Current, ToldIsForgotten
    <2> QED
      BY <2>1, <2>2 DEF FirewallInv
  <1> QED
    BY <1>1, <1>2, <1>3, <1>4

\* What changes of the list do.
LEMMA ChangeStep ==
    ASSUME FirewallInv,
           \/ \E a \in Admins, r \in Replicas, ip \in Listable : BeginChange(a, r, ip)
           \/ \E a \in Admins : \/ CommitAdd(a) \/ AddConflict(a) \/ CommitDelete(a)
                                \/ Invalidate(a) \/ Bump(a) \/ BumpFails(a)
    PROVE  FirewallInv'
  <1> USE Typed
  <1>1. ASSUME NEW a \in Admins, NEW r \in Replicas, NEW ip \in Listable, BeginChange(a, r, ip)
        PROVE  FirewallInv'
    <2>0. 0 <= changes
      OBVIOUS
    <2> USE <1>1 DEF BeginChange, history
    <2> DEFINE pc == IF ip \in allowlist THEN "delete" ELSE "add"
               c == [NoChange EXCEPT !.pc = pc, !.at = r, !.ip = ip]
    <2>1. /\ pc \in {"add", "delete"} /\ c \in Change
          /\ c.pc # "idle" /\ c.at = r /\ c.ip = ip /\ c.change = 0
      BY Updated DEF NoChange
    <2>2. adm' = [adm EXCEPT ![a] = c]
      OBVIOUS
    <2> HIDE DEF c
    <2>3. TypeOK'
      BY <2>1, <2>2, TypesAre DEF Types
    <2>4. Located' /\ Numbered'
      <3>1. \A b \in Admins : adm'[b] = IF b = a THEN c ELSE adm[b]
        BY <2>2 DEF TypeOK
      <3>2. Located'
        BY <2>1, <3>1 DEF Located
      <3>3. ASSUME NEW b \in Admins PROVE adm'[b].change <= changes
        <4>1. CASE b = a
          BY <2>0, <2>1, <3>1, <4>1
        <4>2. CASE b # a
          BY <3>1, <4>2 DEF Numbered
        <4> QED
          BY <4>1, <4>2
      <3>4. Numbered'
        <4> HIDE DEF BeginChange
        <4>1. UNCHANGED <<sent, bumped, changes, told>>
          BY DEF BeginChange
        <4> QED
          BY <3>3, <4>1 DEF Numbered
      <3> QED
        BY <3>2, <3>4
    <2>5. Behind' /\ Current' /\ ToldIsForgotten'
      BY DEF Behind, Current, ToldIsForgotten
    <2> QED
      BY <2>3, <2>4, <2>5 DEF FirewallInv
  <1>2. ASSUME NEW a \in Admins, NEW new \in SUBSET Listable, adm[a].pc # "idle",
               Committed(a, new)
        PROVE  FirewallInv'
    <2> USE <1>2 DEF Committed
    <2> DEFINE n == changes + 1
    <2>0. n \in Nat /\ changes <= n /\ changes' = n
      OBVIOUS
    <2>1. adm' = [adm EXCEPT ![a].pc = "invalidate", ![a].change = n]
      OBVIOUS
    <2> HIDE DEF n
    <2>2. TypeOK'
      <3>1. adm' = [adm EXCEPT ![a] = [adm[a] EXCEPT !.pc = "invalidate", !.change = n]]
        BY <2>1
      <3>2. [adm[a] EXCEPT !.pc = "invalidate", !.change = n] \in Change
        BY <2>0, TypesAre, Updated DEF Types
      <3>3. adm' \in [Admins -> Change]
        BY <3>1, <3>2, TypesAre DEF Types
      <3> QED
        BY <2>0, <3>3, TypesAre DEF Types
    <2>3. Located' /\ Behind' /\ Current' /\ ToldIsForgotten'
      BY <2>1 DEF TypeOK, Located, Behind, Current, ToldIsForgotten
    <2>4. Numbered'
      <3>1. \A b \in Admins : adm'[b].change <= n
        BY <2>0, <2>1 DEF TypeOK, Numbered
      <3>2. \A v \in 1..bumped : sent[v] \in Nat
        BY DEF TypeOK
      <3>3. \A v \in 1..bumped : sent[v] <= n
        BY <2>0, <3>2 DEF Numbered
      <3> QED
        BY <2>0, <3>1, <3>3 DEF TypeOK, Numbered
    <2> QED
      BY <2>2, <2>3, <2>4 DEF FirewallInv
  <1>3. ASSUME NEW a \in Admins, CommitAdd(a) \/ CommitDelete(a)
        PROVE  FirewallInv'
    <2>1. allowlist \subseteq Listable /\ adm[a].pc # "idle" /\ adm[a].ip \in Listable
      BY <1>3 DEF CommitAdd, CommitDelete, TypeOK, Located
    <2> QED
      BY <1>2, <1>3, <2>1 DEF CommitAdd, CommitDelete
  <1>4. ASSUME NEW a \in Admins, AddConflict(a) \/ BumpFails(a)
        PROVE  FirewallInv'
    <2>0. /\ adm' = [adm EXCEPT ![a] = NoChange]
          /\ UNCHANGED <<allowlist, bumped, decisions, poller, req, restarts, changes, sent, told>>
      BY <1>4 DEF AddConflict, BumpFails, history
    <2>1. TypeOK'
      BY <2>0, TypesAre, Updated DEF Types
    <2>2. Located' /\ Numbered'
      BY <2>0 DEF TypeOK, NoChange, Located, Numbered
    <2>3. Behind' /\ Current' /\ ToldIsForgotten'
      BY <2>0 DEF Behind, Current, ToldIsForgotten
    <2> QED
      BY <2>1, <2>2, <2>3 DEF FirewallInv
  <1>5. ASSUME NEW a \in Admins, Invalidate(a)
        PROVE  FirewallInv'
    <2> USE <1>5 DEF Invalidate
    <2>1. adm[a].at \in Replicas /\ adm[a].change \in Nat /\ adm[a].change <= changes
      BY DEF Located, Numbered, TypeOK
    <2>2. InvalidateAll(adm[a].at, adm[a].change) /\ changes' = changes
      OBVIOUS
    <2>3. TypeOK'
      <3>1. adm' \in [Admins -> Change]
        BY TypesAre, Updated DEF Types
      <3>2. Types'
        BY <2>1, <2>2, <3>1, TypesAre, InvalidateAllStep DEF Types, Request
      <3> QED
        BY <3>2, TypesAre
    <2>4. Located'
      BY <2>1, <2>2, InvalidateAllStep DEF Located, TypeOK
    <2>5. Numbered'
      BY <2>1, <2>2, InvalidateAllStep DEF Numbered, TypeOK
    <2>6. Behind'
      BY DEF Behind
    <2> QED
      BY <2>1, <2>2, <2>3, <2>4, <2>5, <2>6, InvalidateAllStep DEF FirewallInv
  <1>6. ASSUME NEW a \in Admins, Bump(a)
        PROVE  FirewallInv'
    <2> USE <1>6 DEF Bump
    <2>0. adm[a].change \in Nat /\ adm[a].change <= changes
      BY DEF TypeOK, Numbered
    <2>1. TypeOK'
      BY <2>0 DEF TypeOK, NoChange
    <2>2. Located' /\ Current' /\ ToldIsForgotten'
      BY DEF TypeOK, NoChange, Located, Current, ToldIsForgotten
    <2>3. Behind'
      BY DEF TypeOK, Behind
    <2>4. Numbered'
      BY <2>0 DEF TypeOK, Numbered, NoChange
    <2> QED
      BY <2>1, <2>2, <2>3, <2>4 DEF FirewallInv
  <1> QED
    BY <1>1, <1>3, <1>4, <1>5, <1>6

\* What the poller does, and what a restart does.
LEMMA ReplicaStep ==
    ASSUME FirewallInv, NEW r \in Replicas, Poll(r) \/ Restart(r)
    PROVE  FirewallInv'
  <1> USE Typed
  <1>1. CASE PollRead(r)
    <2> USE <1>1 DEF PollRead, history
    <2>1. TypeOK'
      <3>1. poller' = [poller EXCEPT ![r] = [poller[r] EXCEPT !.read = bumped]]
        OBVIOUS
      <3>2. [poller[r] EXCEPT !.read = bumped] \in Polling
        BY TypesAre, Updated DEF Types
      <3>3. poller' \in [Replicas -> Polling]
        BY <3>1, <3>2, TypesAre DEF Types
      <3> QED
        BY <3>3, TypesAre DEF Types
    <2>2. Located' /\ Numbered' /\ Current' /\ ToldIsForgotten'
      BY DEF TypeOK, Located, Numbered, Current, ToldIsForgotten
    <2>3. Behind'
      BY DEF TypeOK, Behind
    <2> QED
      BY <2>1, <2>2, <2>3 DEF FirewallInv
  <1>2. CASE PollApply(r)
    <2> DEFINE known == IF poller[r].read > 0 THEN poller[r].read ELSE poller[r].known
    <2>0. /\ poller[r].read # None
          /\ poller' = [poller EXCEPT ![r] = [known |-> known, initialized |-> TRUE, read |-> None]]
          /\ UNCHANGED <<allowlist, bumped, adm, restarts, changes, sent>>
      BY <1>2 DEF PollApply
    <2>1. poller[r].read \in 0..bumped
      BY <2>0 DEF TypeOK, Behind
    <2>2. known \in Nat \cup {None} /\ (known # None => known \in 1..bumped)
      BY <2>1 DEF TypeOK, Behind
    <2> HIDE DEF known
    <2>3. poller' \in [Replicas -> [known : Nat \cup {None}, initialized : BOOLEAN,
                                    read : Nat \cup {None}]]
      BY <2>0, <2>2 DEF TypeOK
    <2>4. Behind'
      BY <2>0, <2>2 DEF TypeOK, Behind
    <2>5. CASE IsNews(poller[r])
      <3>1. InvalidateAll(r, Announced(poller[r]))
        BY <1>2, <2>5 DEF PollApply
      <3>2. Announced(poller[r]) \in Nat /\ Announced(poller[r]) <= changes
        BY <2>0, AnnouncedAll
      <3>3. TypeOK' /\ Located' /\ Numbered' /\ Current' /\ ToldIsForgotten'
        BY <2>0, <2>3, <3>1, <3>2, InvalidateAllStep DEF TypeOK, Located, Numbered
      <3> QED
        BY <2>4, <3>3 DEF FirewallInv
    <2>6. CASE ~IsNews(poller[r])
      <3>1. UNCHANGED <<decisions, req, told>>
        BY <1>2, <2>6 DEF PollApply
      <3>2. TypeOK' /\ Located' /\ Numbered' /\ Current' /\ ToldIsForgotten'
        BY <2>0, <2>3, <3>1 DEF TypeOK, Located, Numbered, Current, ToldIsForgotten
      <3> QED
        BY <2>4, <3>2 DEF FirewallInv
    <2> QED
      BY <2>5, <2>6
  <1>3. CASE Restart(r)
    <2> USE <1>3 DEF Restart, NoRequest, NoChange, NoPoll, NoDecisions
    <2>1. TypeOK'
      BY DEF TypeOK, Decision
    <2>2. Located' /\ Numbered' /\ Behind'
      BY DEF TypeOK, Located, Numbered, Behind
    <2>3. Current'
      BY DEF TypeOK, Located, Current
    <2>4. ToldIsForgotten'
      BY DEF TypeOK, ToldIsForgotten
    <2> QED
      BY <2>1, <2>2, <2>3, <2>4 DEF FirewallInv
  <1> QED
    BY <1>1, <1>2, <1>3 DEF Poll

LEMMA NextInv == FirewallInv /\ [Next]_vars => FirewallInv'
  <1> SUFFICES ASSUME FirewallInv, [Next]_vars PROVE FirewallInv'
    OBVIOUS
  <1>1. CASE UNCHANGED vars
    BY <1>1 DEF vars, FirewallInv, TypeOK, Located, Numbered, Behind, Current, ToldIsForgotten
  <1>2. CASE Next
    BY <1>2, RequestStep, ChangeStep, ReplicaStep DEF Next
  <1> QED
    BY <1>1, <1>2

\* The inductive invariant holds of every reachable state.
LEMMA Invariance == Spec => []FirewallInv
  BY InitInv, NextInv, PTL DEF Spec

\* Every variable keeps its type: Announced, the maximum over the versions a
\* poll has not seen, always exists.
THEOREM FirewallTypes == Spec => []TypeOK
  <1>1. FirewallInv => TypeOK
    BY DEF FirewallInv
  <1> QED
    BY <1>1, Invariance, PTL

\* Whatever the interleaving of FirewallIPCache.set with invalidate_all, a
\* replica has no decision cached that leaves out a change it was told of.
THEOREM FirewallForgets == Spec => []ToldIsForgotten
  <1>1. FirewallInv => ToldIsForgotten
    BY DEF FirewallInv
  <1> QED
    BY <1>1, Invariance, PTL

\* A poll after the first tells its replica of every change announced since
\* the version it knew, however many versions it skips.
THEOREM FirewallPolls == Spec => PollMissesNothing
  <1> DEFINE Told(r) ==
        poller[r].initialized /\ poller'[r].known # poller[r].known /\ poller'[r].initialized
            => \A v \in 1..poller'[r].known :
                 (poller[r].known = None \/ v > poller[r].known) => told'[r] >= sent[v]
  <1>1. FirewallInv /\ [Next]_vars => [\A r \in Replicas : Told(r)]_vars
    <2> SUFFICES ASSUME FirewallInv, Next, NEW r \in Replicas,
                        poller[r].initialized, poller'[r].known # poller[r].known,
                        poller'[r].initialized,
                        NEW v \in 1..poller'[r].known,
                        poller[r].known = None \/ v > poller[r].known
                 PROVE  told'[r] >= sent[v]
      BY Zenon
    <2>1. PollApply(r)
      <3>1. ASSUME NEW q \in Replicas, Restart(q) PROVE FALSE
        <4>1. q = r
          BY <3>1, Typed DEF Restart, TypeOK
        <4>2. ~poller'[r].initialized
          BY <3>1, <4>1, Typed DEF Restart, TypeOK, NoPoll
        <4> QED
          BY <4>2
      <3>2. ASSUME NEW q \in Replicas, PollRead(q) PROVE FALSE
        BY <3>2, Typed DEF PollRead, TypeOK
      <3>3. ASSUME NEW q \in Replicas, PollApply(q), q # r PROVE FALSE
        BY <3>3, Typed DEF PollApply, TypeOK
      <3>4. ASSUME UNCHANGED poller PROVE FALSE
        BY <3>4
      <3> QED
        BY <3>1, <3>2, <3>3, <3>4
           DEF Next, Poll, Miss, BeginChange, Expire, ReadAllowlist, StoreDecision, CommitAdd,
               CommitDelete, Committed, AddConflict, Invalidate, Bump, BumpFails
    <2> DEFINE p == poller[r]
    <2>2. p.read # None /\ p.read \in Nat
      BY <2>1, Typed DEF PollApply, TypeOK
    <2>3. p.read > 0 /\ poller'[r].known = p.read
      BY <2>1, <2>2, Typed DEF PollApply, TypeOK
    <2>4. IsNews(p)
      BY <2>3 DEF IsNews
    <2>5. InvalidateAll(r, Announced(p)) /\ changes' = changes
      BY <2>1, <2>4 DEF PollApply
    <2>6. told'[r] >= Announced(p) /\ told'[r] \in Nat
      BY <2>2, <2>5, AnnouncedAll, InvalidateAllStep
    <2>7. Announced(p) >= sent[v] /\ Announced(p) \in Nat
      BY <2>2, <2>3, AnnouncedAll
    <2>8. sent[v] \in Nat
      BY <2>2, <2>3, Typed DEF TypeOK, Behind
    <2> QED
      BY <2>6, <2>7, <2>8
  <1>2. [][\A r \in Replicas : Told(r)]_vars => PollMissesNothing
    BY DEF PollMissesNothing
  <1> QED
    BY <1>1, <1>2, Invariance, PTL DEF Spec

=============================================================================
