------------------------ MODULE DashboardAuthProofs -------------------------
(***************************************************************************)
(* The dashboard's password, TOTP step, settings cache and bootstrap token *)
(* for any number of replicas and requests.                                *)
(***************************************************************************)
EXTENDS DashboardAuth, TLAPS

\* A request that presents a code holds the cookie it came with.
CookieKept ==
    \A h \in Handlers :
        req[h].pc = "advance" \/ (req[h].pc = "issue" /\ req[h].op = "verify")
            => req[h].cookie \in Session

\* Only a setup has its token checked.
TokenIsSetup == \A h \in Handlers : req[h].pc = "token" => req[h].op = "setup"

\* Without a password, as many setups as removals have succeeded at most.
SetupsCounted ==
    IF row.pw THEN setups.done <= setups.removed + 1 ELSE setups.done <= setups.removed

\* The stored step is the latest one accepted.
StepsBelow == \A s \in accepted : s <= row.step

\* TOTP stops being required and never starts again, so a request that read
\* "not required" is still right when it commits.
RequiredFalls ==
    \A h \in Handlers :
        req[h].pc \in {"write", "advance"} /\ req[h].op \in {"remove", "disable"}
            => (row.required => req[h].row.required)

\* Settings older than a commit are in a replica only while the request that
\* committed there is about to invalidate them.
Outstanding ==
    \A r \in Replicas, h \in Handlers :
        \/ cache[r] # None /\ h \in cache[r].before
        \/ filling[r] # None /\ h \in filling[r].before
        => req[h].pc = "invalidate" /\ req[h].at = r

\* Unless a change revived a removed password: password and token exclude each
\* other, nobody is about to clear a token, and where both are missing
\* somebody is about to make one, or has lapsed.
TokenOwed ==
    ~revived =>
        /\ ~(row.pw /\ row.token)
        /\ ~config.manual =>
            /\ \A h \in Handlers : req[h].pc # "clear"
            /\ ~row.pw /\ ~row.token /\ ~lapsed => \E h \in Handlers : Ensuring(req[h])

AuthInv ==
    /\ TypeOK /\ CookieKept /\ TokenIsSetup /\ SetupsCounted /\ StepsBelow
    /\ RequiredFalls /\ RequiredTotpCanBeMet /\ Outstanding /\ TokenOwed

-----------------------------------------------------------------------------
\* Steps of one request that leave the row and the caches alone

LEMMA LocalStep ==
    ASSUME AuthInv, NEW h \in Handlers, NEW new \in Request,
           req' = [req EXCEPT ![h] = new],
           UNCHANGED <<config, row, cache, filling, clock, up, crashes, accepted, setups, revived>>,
           lapsed' \in BOOLEAN, lapsed => lapsed',
           sessions' \subseteq Session,
           req[h].pc # "invalidate",
           new.pc = "advance" \/ (new.pc = "issue" /\ new.op = "verify") => new.cookie \in Session,
           new.pc = "token" => new.op = "setup",
           new.pc \in {"write", "advance"} /\ new.op \in {"remove", "disable"}
               => (row.required => new.row.required),
           ~revived /\ ~config.manual => new.pc # "clear",
           ~revived /\ ~lapsed' /\ ~config.manual /\ ~row.pw /\ ~row.token /\ Ensuring(req[h])
               => Ensuring(new)
    PROVE  AuthInv'
  <1> USE DEF AuthInv
  <1>1. req' \in [Handlers -> Request]
    BY DEF TypeOK
  <1>2. \A g \in Handlers : req'[g] = IF g = h THEN new ELSE req[g]
    BY DEF TypeOK
  <1>3. TypeOK'
    BY <1>1 DEF TypeOK
  <1>4. CookieKept' /\ TokenIsSetup'
    BY <1>2 DEF CookieKept, TokenIsSetup
  <1>5. SetupsCounted' /\ StepsBelow' /\ RequiredTotpCanBeMet'
    BY DEF SetupsCounted, StepsBelow, RequiredTotpCanBeMet
  <1>6. RequiredFalls'
    BY <1>2 DEF RequiredFalls
  <1>7. Outstanding'
    BY <1>2 DEF Outstanding
  <1>8. TokenOwed'
    BY <1>2 DEF TokenOwed
  <1> QED
    BY <1>3, <1>4, <1>5, <1>6, <1>7, <1>8

\* A request that only ends.
LEMMA FinishStep ==
    ASSUME AuthInv, NEW h \in Handlers, Finish(h), UNCHANGED <<store, history>>,
           req[h].pc \in {"token", "write", "load", "advance"}
    PROVE  AuthInv'
  <1>1. NoRequest \in Request /\ NoRequest.pc = "idle"
    BY DEF NoRequest, Request, Pc, Op, Call, Blank, Row
  <1>2. sessions \subseteq Session /\ lapsed \in BOOLEAN
    BY DEF AuthInv, TypeOK
  <1> QED
    BY <1>1, <1>2, LocalStep DEF Finish, Ensuring, store, history, others

\* A request that only moves on.
LEMMA GotoStep ==
    ASSUME AuthInv, NEW h \in Handlers, NEW pc \in Pc, Goto(h, pc), UNCHANGED <<store, history>>,
           req[h].pc # "invalidate", pc \notin {"advance", "issue", "clear", "token"},
           pc = "write" => req[h].op \notin {"remove", "disable"},
           Ensuring(req[h]) /\ ~revived /\ ~config.manual /\ ~row.pw /\ ~row.token
               => pc \in {"ensure", "store"}
    PROVE  AuthInv'
  <1> DEFINE new == [req[h] EXCEPT !.pc = pc]
  <1>1. req[h] \in Request /\ sessions \subseteq Session /\ lapsed \in BOOLEAN
    BY DEF AuthInv, TypeOK
  <1>2. new \in Request /\ new.pc = pc /\ new.op = req[h].op
    BY <1>1 DEF Request
  <1>3. req' = [req EXCEPT ![h] = new]
    BY DEF Goto
  <1> HIDE DEF new
  <1> QED
    BY <1>1, <1>2, <1>3, LocalStep DEF Ensuring, store, history, others

\* A request begins: it comes with a cookie or without, and has read the row
\* or not.
LEMMA BeginStep ==
    ASSUME AuthInv, NEW h \in Handlers, NEW r \in Replicas, NEW op \in Op,
           NEW pc \in {"token", "write", "load", "advance"}, NEW c \in Session \cup {None},
           NEW read \in Row, Begin(h, r, op, pc, c, read), UNCHANGED <<store, history>>,
           pc = "advance" => c \in Session /\ read = row,
           pc = "token" => op = "setup",
           pc = "write" => op \notin {"remove", "disable"}
    PROVE  AuthInv'
  <1> DEFINE new == [pc |-> pc, op |-> op, at |-> r, cookie |-> c, row |-> read,
                     since |-> IF op \in {"verify", "disable"} THEN clock ELSE 0]
  <1>1. req[h].pc = "idle" /\ req' = [req EXCEPT ![h] = new]
    BY DEF Begin
  <1>2. sessions \subseteq Session /\ clock \in Nat /\ lapsed \in BOOLEAN
    BY DEF AuthInv, TypeOK
  <1>3. new \in Request
    BY <1>2 DEF Request, Pc
  <1>4. new.pc = pc /\ new.op = op /\ new.cookie = c /\ new.row = read
    OBVIOUS
  <1> HIDE DEF new
  <1> QED
    BY <1>1, <1>2, <1>3, <1>4, LocalStep DEF Ensuring, store, history, others

LEMMA ArriveStep ==
    ASSUME AuthInv, NEW h \in Handlers, NEW r \in Replicas, Arrive(h, r)
    PROVE  AuthInv'
  <1>1. /\ sessions \subseteq Session /\ row \in Row /\ Blank \in Row
        /\ None \in Session \cup {None}
    BY DEF AuthInv, TypeOK, Blank, Row
  <1>2. CASE \E local, proxied \in BOOLEAN : BeginSetup(h, r, local, proxied)
    <2>1. PICK local \in BOOLEAN, proxied \in BOOLEAN : BeginSetup(h, r, local, proxied)
      BY <1>2
    <2> DEFINE pc == IF config.mode = "standard" /\ ~row.pw /\ ~local THEN "token" ELSE "write"
    <2>2. Begin(h, r, "setup", pc, None, Blank) /\ UNCHANGED <<store, history>>
      BY <2>1 DEF BeginSetup
    <2>3. pc \in {"token", "write", "load", "advance"} /\ pc # "advance"
      OBVIOUS
    <2>4. "setup" \in Op
      BY DEF Op, Call
    <2> HIDE DEF pc
    <2> QED
      BY <1>1, <2>2, <2>3, <2>4, BeginStep
  <1>3. CASE BeginLogin(h, r)
    <2>1. Begin(h, r, "login", "load", None, Blank) /\ UNCHANGED <<store, history>>
      BY <1>3 DEF BeginLogin
    <2>2. "login" \in Op
      BY DEF Op, Call
    <2> QED
      BY <1>1, <2>1, <2>2, BeginStep
  <1>4. ASSUME NEW c \in sessions, NEW op \in config.calls \cap {"change", "remove"},
               BeginManage(h, r, op, c)
        PROVE  AuthInv'
    <2>1. Begin(h, r, op, "load", None, Blank) /\ UNCHANGED <<store, history>>
      BY <1>4 DEF BeginManage
    <2>2. op \in Op
      BY DEF Op, Call
    <2> QED
      BY <1>1, <2>1, <2>2, BeginStep
  <1>5. ASSUME NEW c \in sessions, BeginEnroll(h, r, c)
        PROVE  AuthInv'
    <2>1. Begin(h, r, "enroll", "write", None, row) /\ UNCHANGED <<store, history>>
      BY <1>5 DEF BeginEnroll
    <2>2. "enroll" \in Op
      BY DEF Op, Call
    <2> QED
      BY <1>1, <2>1, <2>2, BeginStep
  <1>6. ASSUME NEW c \in sessions, NEW op \in config.calls \cap {"verify", "disable"},
               BeginCode(h, r, op, c)
        PROVE  AuthInv'
    <2>1. Begin(h, r, op, "advance", c, row) /\ UNCHANGED <<store, history>>
      BY <1>6 DEF BeginCode
    <2>2. op \in Op /\ c \in Session
      BY <1>1 DEF Op, Call
    <2> QED
      BY <1>1, <2>1, <2>2, BeginStep
  <1> QED
    BY <1>2, <1>3, <1>4, <1>5, <1>6 DEF Arrive

-----------------------------------------------------------------------------
\* The other steps of a request between its commits

LEMMA TokenStep ==
    ASSUME AuthInv, NEW h \in Handlers,
           TokenValid(h) \/ TokenRefused(h) \/ SetupConflict(h) \/ PasswordRefused(h) \/ CodeRefused(h)
    PROVE  AuthInv'
  <1>1. CASE TokenValid(h)
    <2>1. req[h].pc = "token" /\ Goto(h, "write") /\ UNCHANGED <<store, history>>
      BY <1>1 DEF TokenValid
    <2>2. CASE req[h].op \notin {"remove", "disable"}
      BY <2>1, <2>2, GotoStep DEF Pc, Ensuring
    <2>3. CASE req[h].op \in {"remove", "disable"}
      BY <2>1, <2>3 DEF AuthInv, TokenIsSetup
    <2> QED
      BY <2>2, <2>3
  <1>2. CASE ~TokenValid(h)
    <2>1. Finish(h) /\ UNCHANGED <<store, history>> /\ req[h].pc \in {"token", "write", "load", "advance"}
      BY <1>2 DEF TokenRefused, SetupConflict, PasswordRefused, CodeRefused
    <2> QED
      BY <2>1, FinishStep
  <1> QED
    BY <1>1, <1>2

\* The right password: a login goes on to its session, a change or a removal
\* to another look at the row.
LEMMA PasswordVerifiedStep ==
    ASSUME AuthInv, NEW h \in Handlers, PasswordVerified(h)
    PROVE  AuthInv'
  <1> DEFINE new == [req[h] EXCEPT !.pc = IF req[h].op = "login" THEN "issue" ELSE "select"]
  <1>1. req[h] \in Request /\ sessions \subseteq Session /\ lapsed \in BOOLEAN
    BY DEF AuthInv, TypeOK
  <1>2. req[h].pc = "load" /\ req' = [req EXCEPT ![h] = new] /\ UNCHANGED <<store, history>>
    BY DEF PasswordVerified, Goto
  <1>3. new \in Request
    BY <1>1 DEF Request, Pc
  <1>4. /\ new.pc = "issue" => new.op = "login"
        /\ new.pc \in {"issue", "select"}
    BY <1>1 DEF Request
  <1> HIDE DEF new
  <1> QED
    BY <1>1, <1>2, <1>3, <1>4, LocalStep DEF Ensuring, store, history, others

\* A change or a removal has the row as it is now.
LEMMA SelectAgainStep ==
    ASSUME AuthInv, NEW h \in Handlers, SelectAgain(h)
    PROVE  AuthInv'
  <1> DEFINE new == [req[h] EXCEPT !.row = row, !.pc = "write"]
  <1>1. req[h] \in Request /\ row \in Row /\ sessions \subseteq Session /\ lapsed \in BOOLEAN
    BY DEF AuthInv, TypeOK
  <1>2. req[h].pc = "select" /\ req' = [req EXCEPT ![h] = new] /\ UNCHANGED <<store, history>>
    BY DEF SelectAgain
  <1>3. new \in Request
    BY <1>1 DEF Request, Pc
  <1>4. new.pc = "write" /\ new.row = row
    BY <1>1 DEF Request
  <1> HIDE DEF new
  <1> QED
    BY <1>1, <1>2, <1>3, <1>4, LocalStep DEF Ensuring, store, history, others

LEMMA EnsureLoadStep ==
    ASSUME AuthInv, NEW h \in Handlers, EnsureLoad(h)
    PROVE  AuthInv'
  <1>1. req[h].pc = "ensure" /\ UNCHANGED <<store, history>>
    BY DEF EnsureLoad
  <1>2. req[h] \in Request /\ sessions \subseteq Session /\ lapsed \in BOOLEAN
    BY DEF AuthInv, TypeOK
  <1>3. CASE Finish(h)
    <2>1. config.manual \/ row.pw \/ row.token
      BY <1>1, <1>3, <1>2 DEF EnsureLoad, Finish, Goto, NoRequest, AuthInv, TypeOK, Request
    <2>2. NoRequest \in Request /\ NoRequest.pc = "idle"
      BY DEF NoRequest, Request, Pc, Op, Call, Blank, Row
    <2> QED
      BY <1>1, <1>2, <1>3, <2>1, <2>2, LocalStep DEF Finish, Ensuring, store, history, others
  <1>4. CASE Goto(h, "store")
    BY <1>1, <1>4, GotoStep DEF Pc
  <1>5. CASE Goto(h, "clear") /\ (config.manual \/ row.pw) /\ row.token
    <2> DEFINE new == [req[h] EXCEPT !.pc = "clear"]
    <2>1. new \in Request /\ new.pc = "clear" /\ req' = [req EXCEPT ![h] = new]
      BY <1>2, <1>5 DEF Goto, Request, Pc
    <2>2. config.manual \/ revived
      BY <1>5 DEF AuthInv, TokenOwed
    <2> HIDE DEF new
    <2> QED
      BY <1>1, <1>2, <1>5, <2>1, <2>2, LocalStep DEF Ensuring, store, history, others
  <1> QED
    BY <1>3, <1>4, <1>5 DEF EnsureLoad

\* A token that is not made has lapsed.
LEMMA EnsureFailsStep ==
    ASSUME AuthInv, NEW h \in Handlers, EnsureFails(h)
    PROVE  AuthInv'
  <1>1. /\ req[h].pc \in {"ensure", "clear", "store"} /\ Finish(h)
        /\ lapsed' = (lapsed \/ Ensuring(req[h])) /\ UNCHANGED <<store, accepted, setups, revived>>
    BY DEF EnsureFails
  <1>2. sessions \subseteq Session /\ lapsed \in BOOLEAN
    BY DEF AuthInv, TypeOK
  <1>3. NoRequest \in Request /\ NoRequest.pc = "idle"
    BY DEF NoRequest, Request, Pc, Op, Call, Blank, Row
  <1>4. lapsed' \in BOOLEAN /\ (lapsed => lapsed') /\ (~lapsed' => ~Ensuring(req[h]))
    BY <1>1, <1>2
  <1> QED
    BY <1>1, <1>2, <1>3, <1>4, LocalStep DEF Finish, store, others

\* A session is issued: to whoever has a password, or has passed TOTP, until the
\* end of the password's session.
LEMMA IssueStep ==
    ASSUME AuthInv, NEW h \in Handlers, IssueSession(h) \/ IssueVerified(h)
    PROVE  AuthInv'
  <1>1. /\ req[h].pc = "issue" /\ Finish(h)
        /\ UNCHANGED <<config, row, cache, filling, clock, up, crashes, accepted, setups, revived, lapsed>>
    BY DEF IssueSession, IssueVerified, history
  <1>2. sessions \subseteq Session /\ clock \in Nat /\ SessionTtl \in Nat /\ lapsed \in BOOLEAN
    BY AuthAssumption DEF AuthInv, TypeOK
  <1>3. sessions' \subseteq Session
    <2>1. CASE IssueSession(h)
      <3>1. clock + SessionTtl \in Nat
        BY <1>2
      <3>2. sessions' = sessions \cup {[exp |-> clock + SessionTtl, tv |-> FALSE]}
        BY <2>1 DEF IssueSession, Issue
      <3>3. [exp |-> clock + SessionTtl, tv |-> FALSE] \in Session
        BY <3>1 DEF Session
      <3> QED
        BY <1>2, <3>2, <3>3
    <2>2. CASE IssueVerified(h)
      <3> DEFINE exp == req[h].cookie.exp
      <3>1. exp \in Nat
        BY <2>2 DEF IssueVerified, AuthInv, CookieKept, Session
      <3>2. sessions' = sessions \cup {[exp |-> IF exp > clock THEN exp ELSE clock + 1, tv |-> TRUE]}
        BY <2>2 DEF IssueVerified, Issue
      <3>3. (IF exp > clock THEN exp ELSE clock + 1) \in Nat
        BY <1>2, <3>1
      <3>4. [exp |-> IF exp > clock THEN exp ELSE clock + 1, tv |-> TRUE] \in Session
        BY <3>3 DEF Session
      <3> QED
        BY <1>2, <3>2, <3>4
    <2> QED
      BY <2>1, <2>2
  <1>4. NoRequest \in Request /\ NoRequest.pc = "idle"
    BY DEF NoRequest, Request, Pc, Op, Call, Blank, Row
  <1> QED
    BY <1>1, <1>2, <1>3, <1>4, LocalStep DEF Finish, Ensuring

-----------------------------------------------------------------------------
\* Commits to the row

\* What all commits share: the request goes on to invalidate the cache of its
\* replica, whose entries are now known to be older than the commit.
LEMMA CommitStep ==
    ASSUME AuthInv, NEW h \in Handlers, NEW new \in Row, Commit(h, new),
           req[h].pc \in {"write", "clear", "store"}, UNCHANGED <<others, lapsed>>,
           accepted' \subseteq Nat, setups' \in [done : Nat, removed : Nat], revived' \in BOOLEAN,
           new.required => row.required, new.required => new.pw /\ new.secret,
           IF new.pw THEN setups'.done <= setups'.removed + 1 ELSE setups'.done <= setups'.removed,
           \A s \in accepted' : s <= new.step,
           revived => revived',
           ~revived' => ~(new.pw /\ new.token),
           ~revived' /\ ~lapsed /\ ~config.manual /\ ~new.pw /\ ~new.token =>
               req[h].op = "remove" \/ (~row.pw /\ ~row.token /\ req[h].pc = "write")
    PROVE  AuthInv'
  <1> USE DEF AuthInv
  <1> DEFINE q == [req[h] EXCEPT !.pc = "invalidate", !.row = Blank]
  <1>1. /\ row' = [new EXCEPT !.ver = row.ver + 1]
        /\ req' = [req EXCEPT ![h] = q]
        /\ cache' = Outdated(h, cache) /\ filling' = Outdated(h, filling)
    BY DEF Commit
  <1>2. req[h] \in Request /\ row \in Row
    BY DEF TypeOK
  <1>3. /\ row' \in Row
        /\ row'.pw = new.pw /\ row'.token = new.token /\ row'.secret = new.secret
        /\ row'.required = new.required /\ row'.step = new.step
    BY <1>1, <1>2 DEF Row
  <1>4. q \in Request /\ q.pc = "invalidate" /\ q.op = req[h].op /\ q.at = req[h].at
    BY <1>2 DEF Request, Pc, Blank, Row
  <1>5. \A g \in Handlers : req'[g] = IF g = h THEN q ELSE req[g]
    BY <1>1 DEF TypeOK
  <1>6. req' \in [Handlers -> Request]
    BY <1>1, <1>4 DEF TypeOK
  <1> HIDE DEF q
  <1>7. ASSUME NEW e \in [Replicas -> Settings \cup {None}], NEW r \in Replicas
        PROVE  /\ Outdated(h, e)[r] \in Settings \cup {None}
               /\ Outdated(h, e)[r] # None => e[r] # None
               /\ Outdated(h, e)[r] # None => \A g \in Outdated(h, e)[r].before :
                      g \in e[r].before \/ (g = h /\ req[h].at = r)
    <2>1. CASE r = req[h].at /\ e[r] # None
      <3>1. e[r] \in Settings
        BY <2>1
      <3>2. Outdated(h, e)[r] = [e[r] EXCEPT !.before = @ \cup {h}]
        BY <2>1 DEF Outdated
      <3>3. Outdated(h, e)[r] \in Settings /\ Outdated(h, e)[r].before = e[r].before \cup {h}
        BY <3>1, <3>2 DEF Settings
      <3> QED
        BY <2>1, <3>3
    <2>2. CASE ~(r = req[h].at /\ e[r] # None)
      BY <2>2 DEF Outdated
    <2> QED
      BY <2>1, <2>2
  <1>8. cache' \in [Replicas -> Settings \cup {None}] /\ filling' \in [Replicas -> Settings \cup {None}]
    <2>1. ASSUME NEW e \in [Replicas -> Settings \cup {None}]
          PROVE  Outdated(h, e) \in [Replicas -> Settings \cup {None}]
      <3>1. \A r \in Replicas : Outdated(h, e)[r] \in Settings \cup {None}
        BY <1>7
      <3> QED
        BY <3>1 DEF Outdated
    <2> QED
      BY <1>1, <2>1 DEF TypeOK
  <1>9. TypeOK'
    BY <1>3, <1>6, <1>8 DEF TypeOK, others
  <1>10. CookieKept' /\ TokenIsSetup'
    BY <1>4, <1>5 DEF CookieKept, TokenIsSetup
  <1>11. SetupsCounted' /\ StepsBelow' /\ RequiredTotpCanBeMet'
    BY <1>3 DEF SetupsCounted, StepsBelow, RequiredTotpCanBeMet
  <1>12. RequiredFalls'
    BY <1>3, <1>4, <1>5 DEF RequiredFalls
  <1>13. Outstanding'
    <2> SUFFICES ASSUME NEW r \in Replicas, NEW g \in Handlers,
                        \/ cache'[r] # None /\ g \in cache'[r].before
                        \/ filling'[r] # None /\ g \in filling'[r].before
                 PROVE  req'[g].pc = "invalidate" /\ req'[g].at = r
      BY DEF Outstanding
    <2>1. \/ cache[r] # None /\ g \in cache[r].before
          \/ filling[r] # None /\ g \in filling[r].before
          \/ g = h /\ req[h].at = r
      BY <1>1, <1>7 DEF TypeOK
    <2>2. CASE g = h
      BY <1>4, <1>5, <2>1, <2>2 DEF Outstanding
    <2>3. CASE g # h
      BY <1>5, <2>1, <2>3 DEF Outstanding
    <2> QED
      BY <2>2, <2>3
  <1>14. TokenOwed'
    <2> SUFFICES ASSUME ~revived' PROVE TokenOwed'
      BY DEF TokenOwed
    <2>1. ~(row'.pw /\ row'.token) /\ config' = config
      BY <1>3 DEF others
    <2>2. ~config.manual => \A g \in Handlers : req'[g].pc # "clear"
      BY <1>4, <1>5 DEF TokenOwed
    <2>3. ASSUME ~config.manual, ~row'.pw, ~row'.token, ~lapsed'
          PROVE  \E g \in Handlers : Ensuring(req'[g])
      <3>1. CASE req[h].op = "remove"
        BY <1>4, <1>5, <3>1 DEF Ensuring
      <3>2. CASE ~row.pw /\ ~row.token /\ req[h].pc = "write"
        <4>1. PICK g \in Handlers : Ensuring(req[g])
          BY <2>3, <3>2 DEF TokenOwed
        <4>2. g # h
          BY <3>2, <4>1 DEF Ensuring
        <4> QED
          BY <1>5, <4>1, <4>2
      <3> QED
        BY <1>3, <2>3, <3>1, <3>2
    <2> QED
      BY <2>1, <2>2, <2>3 DEF TokenOwed
  <1> QED
    BY <1>9, <1>10, <1>11, <1>12, <1>13, <1>14

\* WHERE password_hash IS NULL: a setup fills a vacancy.
LEMMA CommitSetupStep ==
    ASSUME AuthInv, NEW h \in Handlers, CommitSetup(h)
    PROVE  AuthInv'
  <1> DEFINE new == [row EXCEPT !.pw = TRUE, !.token = FALSE]
  <1>1. /\ req[h].pc = "write" /\ ~row.pw /\ Commit(h, new) /\ UNCHANGED <<others, accepted, revived, lapsed>>
        /\ setups' = [setups EXCEPT !.done = @ + 1]
    BY DEF CommitSetup, Unset
  <1>2. row \in Row /\ setups \in [done : Nat, removed : Nat] /\ accepted \subseteq Nat /\ revived \in BOOLEAN
    BY DEF AuthInv, TypeOK
  <1>3. /\ new \in Row /\ new.pw = TRUE /\ new.token = FALSE
        /\ new.secret = row.secret /\ new.required = row.required /\ new.step = row.step
    BY <1>2 DEF Row
  <1>4. /\ setups' \in [done : Nat, removed : Nat]
        /\ setups'.done = setups.done + 1 /\ setups'.removed = setups.removed
    BY <1>1, <1>2
  <1>5. setups'.done <= setups'.removed + 1
    BY <1>1, <1>2, <1>4 DEF AuthInv, SetupsCounted
  <1>6. \A s \in accepted' : s <= new.step
    BY <1>1, <1>3 DEF AuthInv, StepsBelow
  <1>7. new.required => new.pw /\ new.secret
    BY <1>3 DEF AuthInv, RequiredTotpCanBeMet
  <1> HIDE DEF new
  <1> QED
    BY <1>1, <1>2, <1>3, <1>4, <1>5, <1>6, <1>7, CommitStep

\* A change that finds the password removed revives it.
LEMMA CommitChangeStep ==
    ASSUME AuthInv, NEW h \in Handlers, CommitChange(h)
    PROVE  AuthInv'
  <1> DEFINE new == [row EXCEPT !.pw = TRUE, !.token = Net(@, req[h].row.token, FALSE)]
  <1>1. /\ req[h].pc = "write" /\ Commit(h, new) /\ UNCHANGED <<others, accepted, setups, lapsed>>
        /\ revived' = (revived \/ ~row.pw)
    BY DEF CommitChange
  <1>2. /\ row \in Row /\ req[h].row \in Row /\ setups \in [done : Nat, removed : Nat]
        /\ accepted \subseteq Nat /\ revived \in BOOLEAN
    BY DEF AuthInv, TypeOK, Request
  <1>3. Net(row.token, req[h].row.token, FALSE) \in {row.token, FALSE}
    BY DEF Net
  <1>4. /\ new \in Row /\ new.pw = TRUE /\ new.token \in {row.token, FALSE}
        /\ new.secret = row.secret /\ new.required = row.required /\ new.step = row.step
    BY <1>2, <1>3 DEF Row
  <1>5. setups'.done <= setups'.removed + 1
    BY <1>1, <1>2 DEF AuthInv, SetupsCounted
  <1>6. \A s \in accepted' : s <= new.step
    BY <1>1, <1>4 DEF AuthInv, StepsBelow
  <1>7. new.required => new.pw /\ new.secret
    BY <1>4 DEF AuthInv, RequiredTotpCanBeMet
  <1>8. revived' \in BOOLEAN /\ (revived => revived')
    BY <1>1
  <1>9. ~revived' => ~new.token
    <2> SUFFICES ASSUME ~revived' PROVE ~new.token
      OBVIOUS
    <2>1. ~revived /\ row.pw
      BY <1>1
    <2>2. ~row.token
      BY <2>1 DEF AuthInv, TokenOwed
    <2> QED
      BY <1>4, <2>2
  <1> HIDE DEF new
  <1> QED
    BY <1>1, <1>2, <1>4, <1>5, <1>6, <1>7, <1>8, <1>9, CommitStep

\* A removal clears what it knew of; what it read as not required is not.
LEMMA CommitRemoveStep ==
    ASSUME AuthInv, NEW h \in Handlers, CommitRemove(h)
    PROVE  AuthInv'
  <1> DEFINE old == req[h].row
             new == Cleared(old)
  <1>1. /\ req[h].pc = "write" /\ req[h].op = "remove" /\ Commit(h, new) /\ Accepted(new)
        /\ setups' = [setups EXCEPT !.removed = @ + 1] /\ UNCHANGED <<others, revived, lapsed>>
    BY DEF CommitRemove
  <1>2. /\ row \in Row /\ old \in Row /\ setups \in [done : Nat, removed : Nat]
        /\ accepted \subseteq Nat /\ revived \in BOOLEAN
    BY DEF AuthInv, TypeOK, Request
  <1>3. /\ new \in Row /\ new.pw = Net(row.pw, old.pw, FALSE)
        /\ new.token = Net(row.token, old.token, FALSE)
        /\ new.required = Net(row.required, old.required, FALSE)
        /\ new.step = Net(row.step, old.step, 0)
    BY <1>2 DEF Cleared, Row, Net
  <1>4. ~new.required
    <2>1. row.required => old.required
      BY <1>1 DEF AuthInv, RequiredFalls
    <2> QED
      BY <1>2, <1>3, <2>1 DEF Net, Row
  <1>5. /\ setups' \in [done : Nat, removed : Nat]
        /\ setups'.done = setups.done /\ setups'.removed = setups.removed + 1
    BY <1>1, <1>2
  <1>6. setups'.done <= setups'.removed
    BY <1>2, <1>5 DEF AuthInv, SetupsCounted
  <1>8. setups'.done <= setups'.removed + 1
    BY <1>5, <1>6
  <1>9. ~revived => ~(new.pw /\ new.token)
    <2>1. (new.pw => row.pw) /\ (new.token => row.token)
      BY <1>2, <1>3 DEF Net, Row
    <2> QED
      BY <2>1 DEF AuthInv, TokenOwed
  <1>7. accepted' \subseteq Nat /\ \A s \in accepted' : s <= new.step
    <2>1. CASE new.step = 0
      BY <1>1, <2>1 DEF Accepted
    <2>2. CASE new.step # 0
      BY <1>1, <1>2, <1>3, <2>2 DEF Accepted, Net, AuthInv, StepsBelow
    <2> QED
      BY <2>1, <2>2
  <1> HIDE DEF new, old
  <1> QED
    BY <1>1, <1>2, <1>3, <1>4, <1>5, <1>6, <1>7, <1>8, <1>9, CommitStep

LEMMA CommitEnrollStep ==
    ASSUME AuthInv, NEW h \in Handlers, CommitEnroll(h)
    PROVE  AuthInv'
  <1> DEFINE old == req[h].row
             new == Enrolled(old)
  <1>1. /\ req[h].pc = "write" /\ Commit(h, new) /\ Accepted(new)
        /\ UNCHANGED <<others, setups, revived, lapsed>>
    BY DEF CommitEnroll
  <1>2. /\ row \in Row /\ old \in Row /\ setups \in [done : Nat, removed : Nat]
        /\ accepted \subseteq Nat /\ revived \in BOOLEAN
    BY DEF AuthInv, TypeOK, Request
  <1>3. /\ new \in Row /\ new.pw = row.pw /\ new.token = row.token /\ new.secret = TRUE
        /\ new.required = row.required /\ new.step = Net(row.step, old.step, 0)
    BY <1>2 DEF Enrolled, Row, Net
  <1>4. accepted' \subseteq Nat /\ \A s \in accepted' : s <= new.step
    <2>1. CASE new.step = 0
      BY <1>1, <2>1 DEF Accepted
    <2>2. CASE new.step # 0
      BY <1>1, <1>2, <1>3, <2>2 DEF Accepted, Net, AuthInv, StepsBelow
    <2> QED
      BY <2>1, <2>2
  <1>5. new.required => new.pw /\ new.secret
    BY <1>3 DEF AuthInv, RequiredTotpCanBeMet
  <1>6. IF new.pw THEN setups'.done <= setups'.removed + 1 ELSE setups'.done <= setups'.removed
    BY <1>1, <1>3 DEF AuthInv, SetupsCounted
  <1>7. ~revived => ~(new.pw /\ new.token)
    BY <1>3 DEF AuthInv, TokenOwed
  <1> HIDE DEF new, old
  <1> QED
    BY <1>1, <1>2, <1>3, <1>4, <1>5, <1>6, <1>7, CommitStep

LEMMA CommitDisableStep ==
    ASSUME AuthInv, NEW h \in Handlers, CommitDisable(h)
    PROVE  AuthInv'
  <1> DEFINE old == req[h].row
             new == Disabled(old)
  <1>1. /\ req[h].pc = "write" /\ req[h].op = "disable" /\ Commit(h, new) /\ Accepted(new)
        /\ UNCHANGED <<others, setups, revived, lapsed>>
    BY DEF CommitDisable
  <1>2. /\ row \in Row /\ old \in Row /\ setups \in [done : Nat, removed : Nat]
        /\ accepted \subseteq Nat /\ revived \in BOOLEAN
    BY DEF AuthInv, TypeOK, Request
  <1>3. /\ new \in Row /\ new.pw = row.pw /\ new.token = row.token /\ new.step = 0
        /\ new.required = Net(row.required, old.required, FALSE)
    BY <1>2 DEF Disabled, Row, Net
  <1>4. ~new.required
    <2>1. row.required => old.required
      BY <1>1 DEF AuthInv, RequiredFalls
    <2> QED
      BY <1>2, <1>3, <2>1 DEF Net, Row
  <1>5. accepted' = {}
    BY <1>1, <1>3 DEF Accepted
  <1>6. IF new.pw THEN setups'.done <= setups'.removed + 1 ELSE setups'.done <= setups'.removed
    BY <1>1, <1>3 DEF AuthInv, SetupsCounted
  <1>7. ~revived => ~(new.pw /\ new.token)
    BY <1>3 DEF AuthInv, TokenOwed
  <1> HIDE DEF new, old
  <1> QED
    BY <1>1, <1>2, <1>3, <1>4, <1>5, <1>6, <1>7, CommitStep

\* A clear or a store that matches no row writes nothing and invalidates.
LEMMA TokenNotWritten ==
    ASSUME AuthInv, NEW h \in Handlers, Goto(h, "invalidate"), UNCHANGED <<store, history>>,
           \/ req[h].pc = "clear"
           \/ req[h].pc = "store" /\ (row.pw \/ row.token)
    PROVE  AuthInv'
  BY GotoStep DEF Pc, Ensuring, AuthInv

\* The token is only cleared where it does not count.
LEMMA ClearTokenStep ==
    ASSUME AuthInv, NEW h \in Handlers, ClearToken(h)
    PROVE  AuthInv'
  <1> DEFINE new == [row EXCEPT !.token = FALSE]
  <1>1. req[h].pc = "clear" /\ UNCHANGED <<others, accepted, setups, revived, lapsed>>
    BY DEF ClearToken, history
  <1>2. CASE row.token
    <2>1. Commit(h, new)
      BY <1>2 DEF ClearToken
    <2>2. /\ row \in Row /\ setups \in [done : Nat, removed : Nat]
          /\ accepted \subseteq Nat /\ revived \in BOOLEAN
      BY DEF AuthInv, TypeOK
    <2>3. /\ new \in Row /\ new.pw = row.pw /\ new.token = FALSE /\ new.secret = row.secret
          /\ new.required = row.required /\ new.step = row.step
      BY <2>2 DEF Row
    <2>4. config.manual \/ revived
      BY <1>1 DEF AuthInv, TokenOwed
    <2>5. /\ new.required => new.pw /\ new.secret
          /\ IF new.pw THEN setups'.done <= setups'.removed + 1 ELSE setups'.done <= setups'.removed
          /\ \A s \in accepted' : s <= new.step
      BY <1>1, <2>3 DEF AuthInv, RequiredTotpCanBeMet, SetupsCounted, StepsBelow
    <2> HIDE DEF new
    <2> QED
      BY <1>1, <2>1, <2>2, <2>3, <2>4, <2>5, CommitStep
  <1>3. CASE ~row.token
    BY <1>1, <1>3, TokenNotWritten DEF ClearToken, store, history
  <1> QED
    BY <1>2, <1>3

\* A token is stored only where there is no password.
LEMMA StoreTokenStep ==
    ASSUME AuthInv, NEW h \in Handlers, StoreToken(h)
    PROVE  AuthInv'
  <1> DEFINE new == [row EXCEPT !.token = TRUE]
  <1>1. req[h].pc = "store" /\ UNCHANGED <<others, accepted, setups, revived, lapsed>>
    BY DEF StoreToken, history
  <1>2. CASE ~row.pw /\ ~row.token
    <2>1. Commit(h, new)
      BY <1>2 DEF StoreToken
    <2>2. /\ row \in Row /\ setups \in [done : Nat, removed : Nat]
          /\ accepted \subseteq Nat /\ revived \in BOOLEAN
      BY DEF AuthInv, TypeOK
    <2>3. /\ new \in Row /\ new.pw = row.pw /\ new.token = TRUE /\ new.secret = row.secret
          /\ new.required = row.required /\ new.step = row.step
      BY <2>2 DEF Row
    <2>4. /\ new.required => new.pw /\ new.secret
          /\ IF new.pw THEN setups'.done <= setups'.removed + 1 ELSE setups'.done <= setups'.removed
          /\ \A s \in accepted' : s <= new.step
      BY <1>1, <2>3 DEF AuthInv, RequiredTotpCanBeMet, SetupsCounted, StepsBelow
    <2> HIDE DEF new
    <2> QED
      BY <1>1, <1>2, <2>1, <2>2, <2>3, <2>4, CommitStep
  <1>3. CASE ~(~row.pw /\ ~row.token)
    BY <1>1, <1>3, TokenNotWritten DEF StoreToken, store, history
  <1> QED
    BY <1>2, <1>3

-----------------------------------------------------------------------------
\* The remaining steps

\* totp_last_verified_step < step: the accepted step is the newest.
LEMMA AdvanceStepStep ==
    ASSUME AuthInv, NEW h \in Handlers, NEW s \in Nat, AdvanceStep(h, s)
    PROVE  AuthInv' /\ s \notin accepted /\ req'[h].row.step = s
  <1> USE DEF AuthInv
  <1> DEFINE q == [req[h] EXCEPT !.row.step = s,
                                 !.pc = IF req[h].op = "verify" THEN "issue" ELSE "write"]
  <1>1. /\ req[h].pc = "advance" /\ row.step < s
        /\ row' = [row EXCEPT !.step = s, !.ver = @ + 1]
        /\ req' = [req EXCEPT ![h] = q]
        /\ accepted' = accepted \cup {s}
        /\ UNCHANGED <<cache, filling, others, setups, revived, lapsed>>
    BY DEF AdvanceStep, Newer
  <1>2. req[h] \in Request /\ req[h].row \in Row /\ row \in Row /\ accepted \subseteq Nat
    BY DEF TypeOK, Request
  <1>3. /\ row' \in Row /\ row'.step = s
        /\ row'.pw = row.pw /\ row'.token = row.token /\ row'.secret = row.secret
        /\ row'.required = row.required
    <2> DEFINE v == row.ver + 1
    <2>1. v \in Nat
      BY <1>2 DEF Row
    <2>2. row' = [row EXCEPT !.step = s, !.ver = v]
      BY <1>1
    <2> HIDE DEF v
    <2> QED
      BY <1>2, <2>1, <2>2 DEF Row
  <1>4. /\ q \in Request /\ q.pc = (IF req[h].op = "verify" THEN "issue" ELSE "write")
        /\ q.op = req[h].op /\ q.cookie = req[h].cookie /\ q.row.required = req[h].row.required
        /\ q.row.step = s
    BY <1>2 DEF Request, Pc, Row
  <1>5. \A g \in Handlers : req'[g] = IF g = h THEN q ELSE req[g]
    BY <1>1 DEF TypeOK
  <1>6. req' \in [Handlers -> Request]
    BY <1>1, <1>4 DEF TypeOK
  <1> HIDE DEF q
  <1>7. TypeOK'
    BY <1>1, <1>3, <1>6 DEF TypeOK, others
  <1>8. CookieKept' /\ TokenIsSetup'
    BY <1>1, <1>4, <1>5 DEF CookieKept, TokenIsSetup
  <1>9. SetupsCounted' /\ RequiredTotpCanBeMet'
    BY <1>1, <1>3 DEF SetupsCounted, RequiredTotpCanBeMet
  <1>10. StepsBelow' /\ s \notin accepted
    BY <1>1, <1>2, <1>3 DEF StepsBelow, Row
  <1>11. RequiredFalls'
    BY <1>1, <1>3, <1>4, <1>5 DEF RequiredFalls
  <1>12. Outstanding'
    BY <1>1, <1>5 DEF Outstanding
  <1>13. TokenOwed'
    <2>1. \A g \in Handlers : /\ Ensuring(req[g]) => Ensuring(req'[g])
                              /\ req[g].pc # "clear" => req'[g].pc # "clear"
      BY <1>1, <1>4, <1>5 DEF Ensuring
    <2> QED
      BY <1>1, <1>3, <2>1 DEF TokenOwed, others
  <1> QED
    BY <1>4, <1>5, <1>7, <1>8, <1>9, <1>10, <1>11, <1>12, <1>13

\* invalidate takes the cache's lock, so what was read before the commit is
\* gone when the request goes on.
LEMMA InvalidateStep ==
    ASSUME AuthInv, NEW h \in Handlers, Invalidate(h)
    PROVE  AuthInv'
  <1> USE DEF AuthInv
  <1> DEFINE r == req[h].at
  <1>1. /\ req[h].pc = "invalidate" /\ LockFree(r)
        /\ cache' = [cache EXCEPT ![r] = None]
        /\ UNCHANGED <<row, filling, others, accepted, setups, revived, lapsed>>
    BY DEF Invalidate, history
  <1>2. req[h] \in Request
    BY DEF TypeOK
  <1> DEFINE q == req'[h]
  <1>3. /\ req' = [req EXCEPT ![h] = q] /\ q \in Request
        /\ q.pc \in {"issue", "ensure", "idle"}
        /\ q.pc = "issue" => q.op = "setup"
        /\ Ensuring(req[h]) => q.pc = "ensure"
    <2>1. CASE req[h].op = "setup" /\ Goto(h, "issue")
      <3>1. req' = [req EXCEPT ![h] = [req[h] EXCEPT !.pc = "issue"]]
        BY <2>1 DEF Goto
      <3> QED
        BY <1>1, <1>2, <2>1, <3>1 DEF TypeOK, Request, Pc, Ensuring
    <2>2. CASE req[h].op = "remove" /\ req' = [req EXCEPT ![h].op = "ensure", ![h].pc = "ensure"]
      <3>1. req' = [req EXCEPT ![h] = [req[h] EXCEPT !.op = "ensure", !.pc = "ensure"]]
        BY <2>2
      <3> QED
        BY <1>1, <1>2, <2>2, <3>1 DEF TypeOK, Request, Pc, Op, Ensuring
    <2>3. CASE req[h].op \notin {"setup", "remove"} /\ Finish(h)
      <3>1. NoRequest \in Request /\ NoRequest.pc = "idle"
        BY DEF NoRequest, Request, Pc, Op, Call, Blank, Row
      <3> QED
        BY <1>1, <2>3, <3>1 DEF Finish, TypeOK, Ensuring
    <2> QED
      BY <2>1, <2>2, <2>3 DEF Invalidate
  <1>4. \A g \in Handlers : g # h => req'[g] = req[g]
    BY <1>3 DEF TypeOK
  <1>5. /\ req' \in [Handlers -> Request]
        /\ cache' \in [Replicas -> Settings \cup {None}]
        /\ \A k \in Replicas : cache'[k] = IF k = r THEN None ELSE cache[k]
    BY <1>1, <1>3 DEF TypeOK
  <1> HIDE DEF q
  <1>6. TypeOK'
    BY <1>1, <1>5 DEF TypeOK, others
  <1>7. CookieKept' /\ TokenIsSetup' /\ RequiredFalls'
    BY <1>1, <1>3, <1>4 DEF CookieKept, TokenIsSetup, RequiredFalls, q
  <1>8. SetupsCounted' /\ StepsBelow' /\ RequiredTotpCanBeMet'
    BY <1>1 DEF SetupsCounted, StepsBelow, RequiredTotpCanBeMet
  <1>9. Outstanding'
    <2> SUFFICES ASSUME NEW k \in Replicas, NEW g \in Handlers,
                        \/ cache'[k] # None /\ g \in cache'[k].before
                        \/ filling'[k] # None /\ g \in filling'[k].before
                 PROVE  req'[g].pc = "invalidate" /\ req'[g].at = k
      BY DEF Outstanding
    <2>1. k # r
      BY <1>1, <1>5 DEF LockFree
    <2>2. req[g].pc = "invalidate" /\ req[g].at = k
      BY <1>1, <1>5, <2>1 DEF Outstanding
    <2> QED
      BY <1>4, <2>1, <2>2
  <1>10. TokenOwed'
    <2>1. \A g \in Handlers : /\ Ensuring(req[g]) => Ensuring(req'[g])
                              /\ req[g].pc # "clear" => req'[g].pc # "clear"
      BY <1>3, <1>4 DEF Ensuring, q
    <2> QED
      BY <1>1, <2>1 DEF TokenOwed, others
  <1> QED
    BY <1>6, <1>7, <1>8, <1>9, <1>10

\* A reader of the cache sees what it read, or nothing.
LEMMA CacheStep ==
    ASSUME AuthInv, NEW r \in Replicas, Fill(r) \/ ExpireCache(r)
    PROVE  AuthInv'
  <1> USE DEF AuthInv
  <1>1. UNCHANGED <<row, others, req, history>>
    BY DEF Fill, BeginFill, EndFill, ExpireCache
  <1> DEFINE read == [pw |-> row.pw, required |-> row.required, before |-> {}]
  <1>2. read \in Settings /\ read.before = {}
    BY DEF TypeOK, Row, Settings
  <1>3. /\ cache' \in [Replicas -> Settings \cup {None}]
        /\ filling' \in [Replicas -> Settings \cup {None}]
        /\ \A k \in Replicas : /\ cache'[k] \in {None, cache[k], filling[k]}
                               /\ filling'[k] \in {None, read, filling[k]}
    <2> HIDE DEF read
    <2>1. CASE BeginFill(r)
      BY <1>2, <2>1 DEF BeginFill, TypeOK, read
    <2>2. CASE EndFill(r)
      BY <2>2 DEF EndFill, TypeOK
    <2>3. CASE ExpireCache(r)
      BY <2>3 DEF ExpireCache, TypeOK
    <2> QED
      BY <2>1, <2>2, <2>3 DEF Fill
  <1> HIDE DEF read
  <1>4. TypeOK'
    BY <1>1, <1>3 DEF TypeOK, others, history
  <1>5. Outstanding'
    BY <1>1, <1>2, <1>3 DEF Outstanding
  <1>6. CookieKept' /\ TokenIsSetup' /\ RequiredFalls'
    BY <1>1 DEF CookieKept, TokenIsSetup, RequiredFalls
  <1>7. SetupsCounted' /\ StepsBelow' /\ RequiredTotpCanBeMet'
    BY <1>1 DEF SetupsCounted, StepsBelow, RequiredTotpCanBeMet, history
  <1>8. TokenOwed'
    BY <1>1 DEF TokenOwed, others, history
  <1> QED
    BY <1>4, <1>5, <1>6, <1>7, <1>8

\* A replica that dies takes its requests with it; a token one of them owed
\* has lapsed.
LEMMA CrashStep ==
    ASSUME AuthInv, NEW r \in Replicas, Crash(r)
    PROVE  AuthInv'
  <1> USE DEF AuthInv
  <1>1. NoRequest \in Request /\ NoRequest.pc = "idle"
    BY DEF NoRequest, Request, Pc, Op, Call, Blank, Row
  <1>2. /\ crashes' = crashes + 1 /\ up' = up \ {r}
        /\ cache' = [cache EXCEPT ![r] = None] /\ filling' = [filling EXCEPT ![r] = None]
        /\ UNCHANGED <<config, row, sessions, clock, accepted, setups, revived>>
        /\ req' = [g \in Handlers |-> IF req[g].at = r THEN NoRequest ELSE req[g]]
        /\ lapsed' = (lapsed \/ \E g \in Handlers : req[g].at = r /\ Ensuring(req[g]))
    BY DEF Crash
  <1>3. \A g \in Handlers : req'[g] = IF req[g].at = r THEN NoRequest ELSE req[g]
    BY <1>2
  <1>4. \A g \in Handlers : req'[g] \in Request
    BY <1>1, <1>3 DEF TypeOK
  <1>5. req' \in [Handlers -> Request]
    BY <1>2, <1>4
  <1>6. /\ cache' \in [Replicas -> Settings \cup {None}]
        /\ filling' \in [Replicas -> Settings \cup {None}]
        /\ \A k \in Replicas : cache'[k] = IF k = r THEN None ELSE cache[k]
        /\ \A k \in Replicas : filling'[k] = IF k = r THEN None ELSE filling[k]
    BY <1>2 DEF TypeOK
  <1>7. TypeOK'
    <2>1. lapsed' \in BOOLEAN
      BY <1>2
    <2> QED
      BY <1>2, <1>5, <1>6, <2>1 DEF TypeOK
  <1>8. CookieKept' /\ TokenIsSetup' /\ RequiredFalls'
    BY <1>1, <1>2, <1>3 DEF CookieKept, TokenIsSetup, RequiredFalls
  <1>9. SetupsCounted' /\ StepsBelow' /\ RequiredTotpCanBeMet'
    BY <1>2 DEF SetupsCounted, StepsBelow, RequiredTotpCanBeMet
  <1>10. Outstanding'
    <2> SUFFICES ASSUME NEW k \in Replicas, NEW g \in Handlers,
                        \/ cache'[k] # None /\ g \in cache'[k].before
                        \/ filling'[k] # None /\ g \in filling'[k].before
                 PROVE  req'[g].pc = "invalidate" /\ req'[g].at = k
      BY DEF Outstanding
    <2>1. k # r /\ req[g].pc = "invalidate" /\ req[g].at = k
      BY <1>6 DEF Outstanding
    <2> QED
      BY <1>3, <2>1
  <1>11. TokenOwed'
    <2> SUFFICES ASSUME ~revived PROVE TokenOwed'
      BY <1>2 DEF TokenOwed
    <2>1. ~(row'.pw /\ row'.token)
      BY <1>2 DEF TokenOwed
    <2>2. ~config.manual => \A g \in Handlers : req'[g].pc # "clear"
      BY <1>1, <1>3 DEF TokenOwed
    <2>3. ASSUME ~config.manual, ~row.pw, ~row.token, ~lapsed'
          PROVE  \E g \in Handlers : Ensuring(req'[g])
      <3>1. ~lapsed /\ \A g \in Handlers : Ensuring(req[g]) => req[g].at # r
        BY <1>2, <2>3
      <3>2. PICK g \in Handlers : Ensuring(req[g])
        BY <2>3, <3>1 DEF TokenOwed
      <3> QED
        BY <1>3, <3>1, <3>2
    <2> QED
      BY <1>2, <2>1, <2>2, <2>3 DEF TokenOwed
  <1> QED
    BY <1>7, <1>8, <1>9, <1>10, <1>11

\* A replica that starts will make the token that is owed.
LEMMA StartStep ==
    ASSUME AuthInv, NEW r \in Replicas, NEW h \in Handlers, Start(r, h)
    PROVE  AuthInv'
  <1> USE DEF AuthInv
  <1> DEFINE start == [NoRequest EXCEPT !.pc = "ensure", !.op = "startup", !.at = r]
  <1>1. start \in Request /\ start.pc = "ensure"
    BY DEF NoRequest, Request, Pc, Op, Call, Blank, Row
  <1>2. /\ up' = up \cup {r} /\ req[h].pc = "idle" /\ lapsed' = FALSE
        /\ UNCHANGED <<row, cache, filling, config, sessions, clock, crashes, accepted, setups, revived>>
        /\ req' = [req EXCEPT ![h] = start]
    BY DEF Start
  <1> HIDE DEF start
  <1>3. \A g \in Handlers : req'[g] = IF g = h THEN start ELSE req[g]
    BY <1>2 DEF TypeOK
  <1>4. TypeOK'
    <2>1. req' \in [Handlers -> Request]
      BY <1>1, <1>2 DEF TypeOK
    <2>2. up' \subseteq Replicas /\ lapsed' \in BOOLEAN
      BY <1>2 DEF TypeOK
    <2> QED
      BY <1>2, <2>1, <2>2 DEF TypeOK
  <1>5. CookieKept' /\ TokenIsSetup' /\ RequiredFalls'
    BY <1>1, <1>2, <1>3 DEF CookieKept, TokenIsSetup, RequiredFalls
  <1>6. SetupsCounted' /\ StepsBelow' /\ RequiredTotpCanBeMet'
    BY <1>2 DEF SetupsCounted, StepsBelow, RequiredTotpCanBeMet
  <1>7. Outstanding'
    BY <1>2, <1>3 DEF Outstanding
  <1>8. TokenOwed'
    <2>1. Ensuring(req'[h]) /\ \A g \in Handlers : req[g].pc # "clear" => req'[g].pc # "clear"
      BY <1>1, <1>3 DEF Ensuring
    <2> QED
      BY <1>2, <2>1 DEF TokenOwed
  <1> QED
    BY <1>4, <1>5, <1>6, <1>7, <1>8

LEMMA TickStep ==
    ASSUME AuthInv, Tick
    PROVE  AuthInv'
  <1> USE DEF AuthInv
  <1>1. /\ clock' = clock + 1
        /\ UNCHANGED <<config, row, cache, filling, sessions, up, crashes, req, accepted, setups, revived, lapsed>>
    BY DEF Tick, history
  <1>2. TypeOK'
    BY <1>1 DEF TypeOK
  <1>3. CookieKept' /\ TokenIsSetup' /\ RequiredFalls' /\ Outstanding'
    BY <1>1 DEF CookieKept, TokenIsSetup, RequiredFalls, Outstanding
  <1>4. SetupsCounted' /\ StepsBelow' /\ RequiredTotpCanBeMet' /\ TokenOwed'
    BY <1>1 DEF SetupsCounted, StepsBelow, RequiredTotpCanBeMet, TokenOwed
  <1> QED
    BY <1>2, <1>3, <1>4

LEMMA ProceedStep ==
    ASSUME AuthInv, NEW h \in Handlers, Proceed(h)
    PROVE  AuthInv'
  <1>1. ASSUME NEW s \in 0..(MaxTime + 2), AdvanceStep(h, s)
        PROVE  AuthInv'
    <2>1. s \in Nat
      BY AuthAssumption
    <2> QED
      BY <1>1, <2>1, AdvanceStepStep
  <1> QED
    BY <1>1, TokenStep, PasswordVerifiedStep, SelectAgainStep, EnsureLoadStep, EnsureFailsStep,
       IssueStep, CommitSetupStep,
       CommitChangeStep, CommitRemoveStep, CommitEnrollStep, CommitDisableStep,
       ClearTokenStep, StoreTokenStep, InvalidateStep
       DEF Proceed

-----------------------------------------------------------------------------
\* The invariant

LEMMA AuthInitial == Init => AuthInv
  <1> SUFFICES ASSUME Init PROVE AuthInv
    OBVIOUS
  <1>1. /\ req = [h \in Handlers |-> NoRequest] /\ NoRequest \in Request /\ NoRequest.pc = "idle"
    BY DEF Init, NoRequest, Request, Pc, Op, Call, Blank, Row
  <1>2. \A h \in Handlers : req[h].pc = "idle"
    BY <1>1
  <1>3. config \in Configs /\ config.manual \in BOOLEAN
    BY AuthAssumption DEF Init
  <1>4. /\ row \in Row /\ row.step = 0
        /\ row.required => row.pw /\ row.secret
        /\ ~(row.pw /\ row.token)
        /\ ~config.manual /\ ~row.pw => row.token
    <2>1. CASE row = [Blank EXCEPT !.token = ~config.manual]
      BY <1>3, <2>1 DEF Blank, Row
    <2>2. CASE row = [Blank EXCEPT !.pw = TRUE]
      BY <2>2 DEF Blank, Row
    <2>3. CASE row = [Blank EXCEPT !.pw = TRUE, !.secret = TRUE, !.required = TRUE]
      BY <2>3 DEF Blank, Row
    <2> QED
      BY <2>1, <2>2, <2>3 DEF Init
  <1>5. sessions \subseteq Session
    <2>1. row.secret \in BOOLEAN /\ StepLength \in Nat
      BY <1>4, AuthAssumption DEF Row
    <2>2. [exp |-> StepLength, tv |-> row.secret] \in Session
      BY <2>1 DEF Session
    <2> QED
      BY <2>2 DEF Init
  <1>6. /\ setups \in [done : Nat, removed : Nat]
        /\ setups.done = (IF row.pw THEN 1 ELSE 0) /\ setups.removed = 0
    BY DEF Init
  <1>7. TypeOK
    <2>1. cache = [r \in Replicas |-> None] /\ filling = [r \in Replicas |-> None]
      BY DEF Init
    <2>2. /\ cache \in [Replicas -> Settings \cup {None}]
          /\ filling \in [Replicas -> Settings \cup {None}]
      BY <2>1
    <2>3. req \in [Handlers -> Request]
      BY <1>1
    <2>4. clock \in Nat /\ crashes \in Nat /\ up \subseteq Replicas
      BY AuthAssumption DEF Init
    <2>5. accepted \subseteq Nat /\ revived \in BOOLEAN /\ lapsed \in BOOLEAN
      BY DEF Init
    <2> QED
      BY <1>3, <1>4, <1>5, <1>6, <2>2, <2>3, <2>4, <2>5 DEF TypeOK
  <1>8. CookieKept /\ TokenIsSetup /\ RequiredFalls
    BY <1>2 DEF CookieKept, TokenIsSetup, RequiredFalls
  <1>9. SetupsCounted
    BY <1>6 DEF SetupsCounted
  <1>10. StepsBelow /\ RequiredTotpCanBeMet
    BY <1>4 DEF Init, StepsBelow, RequiredTotpCanBeMet
  <1>11. Outstanding
    BY DEF Init, Outstanding
  <1>12. TokenOwed
    BY <1>2, <1>4 DEF TokenOwed
  <1> QED
    BY <1>7, <1>8, <1>9, <1>10, <1>11, <1>12 DEF AuthInv

LEMMA AuthStep == AuthInv /\ [Next]_vars => AuthInv'
  <1> SUFFICES ASSUME AuthInv, [Next]_vars PROVE AuthInv'
    OBVIOUS
  <1>1. CASE Next
    BY <1>1, ArriveStep, StartStep, CrashStep, ProceedStep, CacheStep, TickStep DEF Next
  <1>2. CASE UNCHANGED vars
    BY <1>2 DEF vars, store, others, history, AuthInv, TypeOK, CookieKept, TokenIsSetup,
       SetupsCounted, StepsBelow, RequiredFalls, RequiredTotpCanBeMet, Outstanding, TokenOwed
  <1> QED
    BY <1>1, <1>2

LEMMA AuthInvariant == Spec => []AuthInv
  BY AuthInitial, AuthStep, PTL DEF Spec

-----------------------------------------------------------------------------
\* The theorems

\* Every variable of the dashboard's authentication keeps its type.
THEOREM DashboardAuthTypeCorrect == Spec => []TypeOK
  <1>1. AuthInv => TypeOK
    BY DEF AuthInv
  <1> QED
    BY <1>1, AuthInvariant, PTL

\* However many setups race in however many replicas, the conditional UPDATE
\* of try_set_password_hash lets one of them fill each vacancy.
THEOREM OneSetupPerVacancyCorrect == Spec => []OneSetupPerVacancy
  <1>1. AuthInv => OneSetupPerVacancy
    <2> SUFFICES ASSUME AuthInv PROVE setups.done <= setups.removed + 1
      BY DEF OneSetupPerVacancy
    <2>1. setups.done \in Nat /\ setups.removed \in Nat
      BY DEF AuthInv, TypeOK
    <2>2. CASE row.pw
      BY <2>1, <2>2 DEF AuthInv, SetupsCounted
    <2>3. CASE ~row.pw
      BY <2>1, <2>3 DEF AuthInv, SetupsCounted
    <2> QED
      BY <2>2, <2>3
  <1> QED
    BY <1>1, AuthInvariant, PTL

\* The lock of SettingsCache keeps a replica from using settings older than a
\* commit it has answered.
THEOREM ReplicaSeesItsWritesCorrect == Spec => []ReplicaSeesItsWrites
  <1>1. AuthInv => ReplicaSeesItsWrites
    <2> SUFFICES ASSUME AuthInv, NEW r \in Replicas, cache[r] # None, NEW h \in cache[r].before
                 PROVE  req[h].pc # "idle"
      BY DEF ReplicaSeesItsWrites
    <2>1. cache[r] \in Settings
      BY DEF AuthInv, TypeOK
    <2>2. h \in Handlers
      BY <2>1 DEF Settings
    <2>3. req[h].pc = "invalidate"
      BY <2>2 DEF AuthInv, Outstanding
    <2> QED
      BY <2>3
  <1> QED
    BY <1>1, AuthInvariant, PTL

\* No race of removals, enrolments and disablings, each writing the columns
\* it knows to differ, leaves TOTP required without a password or a secret.
THEOREM RequiredTotpCanBeMetCorrect == Spec => []RequiredTotpCanBeMet
  <1>1. AuthInv => RequiredTotpCanBeMet
    BY DEF AuthInv
  <1> QED
    BY <1>1, AuthInvariant, PTL

\* An installation without a password that has come to rest has a bootstrap
\* token, however removals and setups overlapped, unless a change was committed
\* over a removal, or a removal failed or died before its token was made and no
\* replica has started since.
THEOREM VacantHasTokenCorrect == Spec => []VacantHasToken
  <1>1. AuthInv => VacantHasToken
    BY DEF AuthInv, TokenOwed, VacantHasToken, Quiet, Ensuring
  <1> QED
    BY <1>1, AuthInvariant, PTL

-----------------------------------------------------------------------------
\* Replay

\* No step but AdvanceStep accepts a code.
LEMMA OnlyAdvanceAccepts ==
    ASSUME AuthInv, Next, NEW h \in Handlers, req[h].pc = "advance",
           req'[h].pc \in {"issue", "write"}
    PROVE  \E s \in Nat : AdvanceStep(h, s)
  <1> USE DEF AuthInv
  <1>1. NoRequest.pc = "idle"
    BY DEF NoRequest
  <1>2. ASSUME NEW g \in Handlers, NEW r \in Replicas, Arrive(g, r)
        PROVE  FALSE
    <2>1. PICK new : req[g].pc = "idle" /\ req' = [req EXCEPT ![g] = new]
      BY <1>2 DEF Arrive, BeginSetup, BeginLogin, BeginManage, BeginEnroll, BeginCode, Begin
    <2> QED
      BY <2>1 DEF TypeOK
  <1>3. ASSUME NEW g \in Handlers, NEW r \in Replicas, Start(r, g)
        PROVE  FALSE
    <2>1. PICK new : req[g].pc = "idle" /\ req' = [req EXCEPT ![g] = new]
      BY <1>3 DEF Start
    <2> QED
      BY <2>1 DEF TypeOK
  <1>4. ASSUME NEW r \in Replicas, Fill(r) \/ ExpireCache(r) \/ Crash(r)
        PROVE  FALSE
    BY <1>1, <1>4 DEF Fill, BeginFill, EndFill, ExpireCache, Crash
  <1>5. ASSUME Tick PROVE FALSE
    BY <1>5 DEF Tick
  <1>6. ASSUME NEW g \in Handlers, Proceed(g), g # h PROVE FALSE
    <2>1. PICK new : req' = [req EXCEPT ![g] = new]
      BY <1>6 DEF Proceed, TokenValid, TokenRefused, CommitSetup, SetupConflict, PasswordVerified,
         PasswordRefused, SelectAgain, CommitChange, CommitRemove, EnsureLoad, EnsureFails,
         ClearToken, StoreToken,
         CommitEnroll, CommitDisable, AdvanceStep, CodeRefused, Invalidate, IssueSession,
         IssueVerified, Commit, Goto, Finish
    <2> QED
      BY <1>6, <2>1 DEF TypeOK
  <1>7. ASSUME Proceed(h) PROVE \E s \in Nat : AdvanceStep(h, s)
    <2>1. CodeRefused(h) \/ \E s \in 0..(MaxTime + 2) : AdvanceStep(h, s)
      BY <1>7 DEF Proceed, TokenValid, TokenRefused, CommitSetup, SetupConflict, PasswordVerified,
         PasswordRefused, SelectAgain, CommitChange, CommitRemove, EnsureLoad, EnsureFails,
         ClearToken, StoreToken,
         CommitEnroll, CommitDisable, Invalidate, IssueSession, IssueVerified
    <2>2. ~CodeRefused(h)
      BY <1>1 DEF CodeRefused, Finish, TypeOK
    <2>3. \A s \in 0..(MaxTime + 2) : s \in Nat
      BY AuthAssumption
    <2> QED
      BY <2>1, <2>2, <2>3
  <1> QED
    BY <1>2, <1>3, <1>4, <1>5, <1>6, <1>7 DEF Next

\* A TOTP step that was accepted is not accepted again before the stored step
\* is reset, whatever requests were checked against the same row.
THEOREM NoReplayCorrect == Spec => NoReplay
  <1> DEFINE Fresh ==
        \A h \in Handlers :
            req[h].pc = "advance" /\ req'[h].pc \in {"issue", "write"}
                => req'[h].row.step \notin accepted
  <1>1. AuthInv /\ [Next]_vars => [Fresh]_vars
    <2> SUFFICES ASSUME AuthInv, Next, NEW h \in Handlers, req[h].pc = "advance",
                        req'[h].pc \in {"issue", "write"}
                 PROVE  req'[h].row.step \notin accepted
      OBVIOUS
    <2>1. PICK s \in Nat : AdvanceStep(h, s)
      BY OnlyAdvanceAccepts
    <2> QED
      BY <2>1, AdvanceStepStep
  <1> QED
    BY <1>1, AuthInvariant, PTL DEF Spec, NoReplay

=============================================================================
