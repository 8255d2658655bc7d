--------------------------- MODULE DashboardAuth ---------------------------
(***************************************************************************)
(* The dashboard's password, TOTP enrolment and bootstrap token: one row   *)
(* of dashboard_settings that every replica writes, a cache of that row in *)
(* each replica, and session cookies no replica keeps.                     *)
(*                                                                         *)
(* A request reads the row, waits for the limiter, bcrypt and the          *)
(* database, and then commits either a conditional UPDATE or the columns   *)
(* it changed with respect to what it had read.  SQLAlchemy's identity map *)
(* is weak: a row the handler still holds (TOTP) answers the get_or_create *)
(* before the commit, one it has let go of (password) is selected again.   *)
(* Requests of all replicas, and crashes and starts of replicas, come in   *)
(* between.                                                                *)
(*                                                                         *)
(* The password, the secret and the token are "set or not"; what the       *)
(* client submits is right or wrong.  The limiter is module RateLimiter.   *)
(***************************************************************************)
EXTENDS Integers, FiniteSetsExt

CONSTANTS
    Configs,        \* deployments: auth mode, manual token, clients' operations
    Replicas,       \* processes that serve the dashboard
    Handlers,       \* requests being handled
    StepLength,     \* ticks of the clock in one TOTP period
    SessionTtl,     \* dashboard_session_ttl_seconds, in ticks
    MaxTime,        \* bound of the clock
    MaxCommits,     \* bound of the commits to the row
    MaxCrashes,     \* bound of the crashes of replicas
    None            \* no session, nothing cached, nobody

\* DashboardAuthMode
Mode == {"standard", "trusted_header", "disabled"}

\* What a request, a removal's last part or the start of a replica does.
Call == {"setup", "login", "change", "remove", "enroll", "verify", "disable"}
Op == Call \cup {"ensure", "startup"}

ASSUME AuthAssumption ==
    /\ Configs \subseteq [mode : Mode, manual : BOOLEAN, calls : SUBSET Call]
    /\ StepLength \in Nat \ {0}
    /\ SessionTtl \in Nat \ {0}
    /\ MaxTime \in Nat /\ MaxCommits \in Nat /\ MaxCrashes \in Nat
    /\ None \notin Replicas

VARIABLES
    config,         \* dashboard_auth_mode, a manual token or not, and what clients do
    row,            \* the settings row
    cache,          \* cache[r]: SettingsCache of replica r
    filling,        \* filling[r]: what a reader holding its lock has read
    sessions,       \* the cookies issued so far
    clock,          \* the time
    req,            \* req[h]: the request of h
    up,             \* the replicas that run
    crashes,        \* crashes so far
    accepted,       \* history: TOTP steps accepted since the step was reset
    setups,         \* history: setups and removals that succeeded
    revived,        \* history: a change was committed over a removal
    lapsed          \* history: since a replica last started, somebody who was to
                    \* make a token failed or died

others == <<config, sessions, clock, up, crashes>>
store == <<row, cache, filling, others>>
history == <<accepted, setups, revived, lapsed>>
vars == <<store, req, history>>

\* DashboardSettings; step 0 is NULL.  ver, which no code reads, numbers
\* the commits.
Row == [pw : BOOLEAN, token : BOOLEAN, secret : BOOLEAN, required : BOOLEAN,
        step : Nat, ver : Nat]

\* What the readers of the cache look at, and a history: the requests of the
\* replica that have committed since it was read.
Settings == [pw : BOOLEAN, required : BOOLEAN, before : SUBSET Handlers]

\* The payload of a session cookie; every cookie of the code has pw true.
Session == [exp : Nat, tv : BOOLEAN]

Pc == {"idle", "token", "load", "select", "write", "advance", "invalidate",
       "ensure", "clear", "store", "issue"}

\* at: its replica; cookie: the session it came with; row: what it has read,
\* and since: when.
Request == [pc : Pc, op : Op, at : Replicas \cup {None},
            cookie : Session \cup {None}, row : Row, since : Nat]

Blank == [pw |-> FALSE, token |-> FALSE, secret |-> FALSE, required |-> FALSE,
          step |-> 0, ver |-> 0]

NoRequest == [pc |-> "idle", op |-> "login", at |-> None, cookie |-> None,
              row |-> Blank, since |-> 0]

TypeOK ==
    /\ config \in Configs
    /\ row \in Row
    /\ cache \in [Replicas -> Settings \cup {None}]
    /\ filling \in [Replicas -> Settings \cup {None}]
    /\ sessions \subseteq Session
    /\ clock \in Nat /\ crashes \in Nat
    /\ up \subseteq Replicas
    /\ req \in [Handlers -> Request]
    /\ accepted \subseteq Nat
    /\ setups \in [done : Nat, removed : Nat]
    /\ revived \in BOOLEAN /\ lapsed \in BOOLEAN

\* A new installation, one whose password is set, or one an earlier release
\* left with TOTP required at login (no endpoint of this one turns it on).
\* Where there is a password, somebody's session is about to expire.
Init ==
    /\ config \in Configs
    /\ row \in {[Blank EXCEPT !.token = ~config.manual],
                [Blank EXCEPT !.pw = TRUE],
                [Blank EXCEPT !.pw = TRUE, !.secret = TRUE, !.required = TRUE]}
    /\ cache = [r \in Replicas |-> None]
    /\ filling = [r \in Replicas |-> None]
    /\ sessions = IF row.pw THEN {[exp |-> StepLength, tv |-> row.secret]} ELSE {}
    /\ clock = StepLength
    /\ req = [h \in Handlers |-> NoRequest]
    /\ up = Replicas /\ crashes = 0
    /\ accepted = {}
    /\ setups = [done |-> IF row.pw THEN 1 ELSE 0, removed |-> 0]
    /\ revived = FALSE /\ lapsed = FALSE

-----------------------------------------------------------------------------
\* Sessions and the settings cache

\* DashboardSessionStore.get: a cookie counts up to and including its expiry.
Live(c) == c # None /\ c.exp >= clock

Issue(exp, tv) == sessions' = sessions \cup {[exp |-> exp, tv |-> tv]}

\* A replica that runs and has finished the startup of its lifespan.
Serving(r) ==
    /\ r \in up
    /\ \A h \in Handlers : req[h].at = r => req[h].op # "startup"

\* SettingsCache.get: a reader that finds nothing reads the row under the
\* cache's lock, and stores it before it lets go of the lock.
BeginFill(r) ==
    /\ Serving(r)
    /\ cache[r] = None /\ filling[r] = None
    /\ filling' = [filling EXCEPT ![r] =
                     [pw |-> row.pw, required |-> row.required, before |-> {}]]
    /\ UNCHANGED <<row, cache, others, req, history>>

EndFill(r) ==
    /\ filling[r] # None
    /\ cache' = [cache EXCEPT ![r] = filling[r]]
    /\ filling' = [filling EXCEPT ![r] = None]
    /\ UNCHANGED <<row, others, req, history>>

\* ttl_seconds is over
ExpireCache(r) ==
    /\ cache[r] # None
    /\ cache' = [cache EXCEPT ![r] = None]
    /\ UNCHANGED <<row, filling, others, req, history>>

\* A mutated model: invalidate does not wait for the lock.
Unlocked(r) == TRUE

\* anyio.Lock of the cache: nobody is between reading the row and storing it.
LockFree(r) == filling[r] = None

\* The commits an operation may still make: it only comes when they fit the
\* bound.
Cost(op) ==
    CASE op = "login" -> 0 [] op \in {"remove", "disable"} -> 2 [] OTHER -> 1

Room(op) ==
    row.ver + Cost(op)
        + MapThenSumSet(LAMBDA h : IF req[h].pc = "idle" THEN 0 ELSE Cost(req[h].op), Handlers)
            <= MaxCommits

\* A request of r starts; its first step is the guard of the action that
\* calls this.
Begin(h, r, op, pc, c, read) ==
    /\ req[h].pc = "idle"
    /\ Serving(r) /\ Room(op)
    /\ req' = [req EXCEPT ![h] =
                 [pc |-> pc, op |-> op, at |-> r, cookie |-> c, row |-> read,
                  since |-> IF op \in {"verify", "disable"} THEN clock ELSE 0]]

Goto(h, pc) == req' = [req EXCEPT ![h].pc = pc]

Finish(h) == req' = [req EXCEPT ![h] = NoRequest]

\* History: h has committed since these were read.
Outdated(h, entries) ==
    [r \in Replicas |-> IF r = req[h].at /\ entries[r] # None
                        THEN [entries[r] EXCEPT !.before = @ \cup {h}]
                        ELSE entries[r]]

\* A commit that writes the row: what its replica has cached is older.
Commit(h, new) ==
    /\ row' = [new EXCEPT !.ver = row.ver + 1]
    /\ req' = [req EXCEPT ![h].pc = "invalidate", ![h].row = Blank]
    /\ cache' = Outdated(h, cache)
    /\ filling' = Outdated(h, filling)

\* await get_settings_cache().invalidate(), and what the handler does next:
\* a setup issues a session, a removal makes a new bootstrap token.
Invalidate(h) ==
    LET r == req[h].at
    IN  /\ req[h].pc = "invalidate"
        /\ LockFree(r)
        /\ cache' = [cache EXCEPT ![r] = None]
        /\ \/ req[h].op = "setup" /\ Goto(h, "issue")
           \/ /\ req[h].op = "remove"
              /\ req' = [req EXCEPT ![h].op = "ensure", ![h].pc = "ensure"]
           \/ req[h].op \notin {"setup", "remove"} /\ Finish(h)
        /\ UNCHANGED <<row, filling, others, history>>

-----------------------------------------------------------------------------
\* Password setup

\* setup_password up to its first query.  A remote client of the standard
\* mode that finds no password has its token checked first; with trusted
\* headers the proxy must have authenticated it.
BeginSetup(h, r, local, proxied) ==
    /\ config.mode # "disabled"
    /\ config.mode = "trusted_header" => proxied \/ row.pw
    /\ LET remote == config.mode = "standard" /\ ~row.pw /\ ~local
       IN  Begin(h, r, "setup", IF remote THEN "token" ELSE "write", None, Blank)
    /\ UNCHANGED <<store, history>>

\* get_bootstrap_validation_status, in a session of its own, of the right
\* token.  The stored hash is compared before the password is looked at.
TokenValid(h) ==
    /\ req[h].pc = "token"
    /\ config.manual \/ row.token
    /\ Goto(h, "write")
    /\ UNCHANGED <<store, history>>

\* A wrong token, no token, or a password meanwhile.
TokenRefused(h) ==
    /\ req[h].pc = "token"
    /\ Finish(h)
    /\ UNCHANGED <<store, history>>

\* A mutated model: the UPDATE has no condition.
Always == TRUE

\* WHERE password_hash IS NULL
Unset == ~row.pw

\* try_set_password_hash
CommitSetup(h) ==
    /\ req[h].pc = "write" /\ req[h].op = "setup"
    /\ Unset
    /\ Commit(h, [row EXCEPT !.pw = TRUE, !.token = FALSE])
    /\ setups' = [setups EXCEPT !.done = @ + 1]
    /\ UNCHANGED <<others, accepted, revived, lapsed>>

\* PasswordAlreadyConfiguredError
SetupConflict(h) ==
    /\ req[h].pc = "write" /\ req[h].op = "setup"
    /\ ~Unset
    /\ Finish(h)
    /\ UNCHANGED <<store, history>>

\* _create_dashboard_session, which asks the cache for the lifetime.
IssueSession(h) ==
    /\ req[h].pc = "issue" /\ req[h].op \in {"setup", "login"}
    /\ cache[req[h].at] # None
    /\ Issue(clock + SessionTtl, FALSE)
    /\ Finish(h)
    /\ UNCHANGED <<config, row, cache, filling, clock, up, crashes, history>>

-----------------------------------------------------------------------------
\* Login, change and removal of the password

\* login_password: the cached row says whether there is a password ...
BeginLogin(h, r) ==
    /\ config.mode # "disabled"
    /\ cache[r] # None /\ cache[r].pw
    /\ Begin(h, r, "login", "load", None, Blank)
    /\ UNCHANGED <<store, history>>

\* _validate_password_management_session
BeginManage(h, r, op, c) ==
    /\ config.mode # "disabled"
    /\ Live(c)
    /\ cache[r] # None /\ (cache[r].required => c.tv)
    /\ Begin(h, r, op, "load", None, Blank)
    /\ UNCHANGED <<store, history>>

\* ... and the stored one is checked: verify_password, of the right password.
\* The row it has read goes out of scope.
PasswordVerified(h) ==
    /\ req[h].pc = "load"
    /\ row.pw
    /\ Goto(h, IF req[h].op = "login" THEN "issue" ELSE "select")
    /\ UNCHANGED <<store, history>>

\* get_or_create of set_password_hash and clear_password_and_totp: the row as
\* it is now, whether there still is a password or not.
SelectAgain(h) ==
    /\ req[h].pc = "select"
    /\ req' = [req EXCEPT ![h].row = row, ![h].pc = "write"]
    /\ UNCHANGED <<store, history>>

\* InvalidCredentialsError, PasswordNotConfiguredError
PasswordRefused(h) ==
    /\ req[h].pc = "load"
    /\ Finish(h)
    /\ UNCHANGED <<store, history>>

\* A column the session loads as "old" and sets to "new" is only part of the
\* UPDATE if the two differ; otherwise the stored value stays.
Net(stored, old, new) == IF old # new THEN new ELSE stored

\* set_password_hash.  A new hash always differs, bcrypt salts it.
CommitChange(h) ==
    /\ req[h].pc = "write" /\ req[h].op = "change"
    /\ Commit(h, [row EXCEPT !.pw = TRUE, !.token = Net(@, req[h].row.token, FALSE)])
    /\ revived' = (revived \/ ~row.pw)
    /\ UNCHANGED <<others, accepted, setups, lapsed>>

\* The history of the step column: forgotten when it is written NULL.
Accepted(new) == accepted' = IF new.step = 0 THEN {} ELSE accepted

\* clear_password_and_totp
Cleared(old) ==
    [row EXCEPT !.pw = Net(@, old.pw, FALSE), !.token = Net(@, old.token, FALSE),
                !.required = Net(@, old.required, FALSE),
                !.secret = Net(@, old.secret, FALSE), !.step = Net(@, old.step, 0)]

CommitRemove(h) ==
    /\ req[h].pc = "write" /\ req[h].op = "remove"
    /\ Commit(h, Cleared(req[h].row))
    /\ Accepted(Cleared(req[h].row))
    /\ setups' = [setups EXCEPT !.removed = @ + 1]
    /\ UNCHANGED <<others, revived, lapsed>>

-----------------------------------------------------------------------------
\* The bootstrap token

\* ensure_auto_bootstrap_token: what it does depends on the row it reads.
EnsureLoad(h) ==
    /\ req[h].pc = "ensure"
    /\ \/ /\ config.manual \/ row.pw
          /\ IF row.token THEN Goto(h, "clear") ELSE Finish(h)
       \/ /\ ~config.manual /\ ~row.pw
          /\ IF row.token THEN Finish(h) ELSE Goto(h, "store")
    /\ UNCHANGED <<store, history>>

\* clear_bootstrap_token: WHERE bootstrap_token_hash IS NOT NULL
ClearToken(h) ==
    /\ req[h].pc = "clear"
    /\ IF row.token
       THEN Commit(h, [row EXCEPT !.token = FALSE])
       ELSE Goto(h, "invalidate") /\ UNCHANGED <<row, cache, filling>>
    /\ UNCHANGED <<others, history>>

\* store_bootstrap_token_if_absent: neither a password nor a token
StoreToken(h) ==
    /\ req[h].pc = "store"
    /\ IF ~row.pw /\ ~row.token
       THEN Commit(h, [row EXCEPT !.token = TRUE])
       ELSE Goto(h, "invalidate") /\ UNCHANGED <<row, cache, filling>>
    /\ UNCHANGED <<others, history>>

\* A request that will make a bootstrap token if there is none.
Ensuring(q) == (q.pc = "invalidate" /\ q.op = "remove") \/ q.pc \in {"ensure", "store"}

\* ensure_auto_bootstrap_token raises (its session, the database, the key):
\* the removal it follows stays.  In a lifespan the process ends: Crash.
EnsureFails(h) ==
    /\ req[h].pc \in {"ensure", "clear", "store"} /\ req[h].op = "ensure"
    /\ Finish(h)
    /\ lapsed' = (lapsed \/ Ensuring(req[h]))
    /\ UNCHANGED <<store, accepted, setups, revived>>

\* A replica dies, and with it its requests and its cache.
Crash(r) ==
    /\ r \in up /\ crashes < MaxCrashes
    /\ up' = up \ {r} /\ crashes' = crashes + 1
    /\ req' = [g \in Handlers |-> IF req[g].at = r THEN NoRequest ELSE req[g]]
    /\ cache' = [cache EXCEPT ![r] = None]
    /\ filling' = [filling EXCEPT ![r] = None]
    /\ lapsed' = (lapsed \/ \E g \in Handlers : req[g].at = r /\ Ensuring(req[g]))
    /\ UNCHANGED <<config, row, sessions, clock, accepted, setups, revived>>

\* A mutated model: a replica that starts serves at once.
StartServing(r, h) ==
    /\ r \notin up /\ req[h].pc = "idle"
    /\ up' = up \cup {r}
    /\ lapsed' = FALSE
    /\ UNCHANGED <<row, cache, filling, config, sessions, clock, crashes, req,
                   accepted, setups, revived>>

\* lifespan of a replica that starts: it makes sure of the token before it
\* serves.
Start(r, h) ==
    /\ r \notin up /\ req[h].pc = "idle" /\ Room("startup")
    /\ up' = up \cup {r}
    /\ req' = [req EXCEPT ![h] = [NoRequest EXCEPT !.pc = "ensure", !.op = "startup", !.at = r]]
    /\ lapsed' = FALSE
    /\ UNCHANGED <<row, cache, filling, config, sessions, clock, crashes,
                   accepted, setups, revived>>

-----------------------------------------------------------------------------
\* TOTP

\* _require_active_password_session on the row the request reads
SessionRow(c) == config.mode # "disabled" /\ row.pw /\ Live(c)

\* confirm_totp_setup, of a code that fits the client's secret
BeginEnroll(h, r, c) ==
    /\ SessionRow(c)
    /\ ~row.secret
    /\ Begin(h, r, "enroll", "write", None, row)
    /\ UNCHANGED <<store, history>>

\* A mutated model: a new enrolment starts at the step before the first.
EnrolledBefore(old) == [row EXCEPT !.secret = TRUE, !.step = -1]

\* set_totp_secret with a secret
Enrolled(old) == [row EXCEPT !.secret = TRUE, !.step = Net(@, old.step, 0)]

CommitEnroll(h) ==
    /\ req[h].pc = "write" /\ req[h].op = "enroll"
    /\ Commit(h, Enrolled(req[h].row))
    /\ Accepted(Enrolled(req[h].row))
    /\ UNCHANGED <<others, setups, revived, lapsed>>

\* verify_totp; disable_totp wants a session that has passed TOTP before.
BeginCode(h, r, op, c) ==
    /\ SessionRow(c)
    /\ op = "disable" => c.tv
    /\ row.secret
    /\ Begin(h, r, op, "advance", c, row)
    /\ UNCHANGED <<store, history>>

\* The steps verify_totp_code may match, numbered from 1: a code one period
\* early or late, looked at some time after the row was read, and newer than
\* the step read.
Matches(h) ==
    {s \in (req[h].since \div StepLength)..(clock \div StepLength + 2) :
        s > req[h].row.step}

\* A mutated model: the step is compared with what was read, not stored.
NewerThanRead(s) == TRUE

\* totp_last_verified_step IS NULL OR totp_last_verified_step < step
Newer(s) == row.step < s

\* try_advance_totp_last_verified_step.  The session's copy follows.
AdvanceStep(h, s) ==
    /\ req[h].pc = "advance"
    /\ s \in Matches(h) /\ Newer(s)
    /\ row' = [row EXCEPT !.step = s, !.ver = @ + 1]
    /\ req' = [req EXCEPT ![h].row.step = s,
                          ![h].pc = IF req[h].op = "verify" THEN "issue" ELSE "write"]
    /\ accepted' = accepted \cup {s}
    /\ UNCHANGED <<cache, filling, others, setups, revived, lapsed>>

\* TotpInvalidCodeError: no match, or somebody was faster.
CodeRefused(h) ==
    /\ req[h].pc = "advance"
    /\ Finish(h)
    /\ UNCHANGED <<store, history>>

\* inherited_ttl: what is left of the password session, at least one second.
IssueVerified(h) ==
    /\ req[h].pc = "issue" /\ req[h].op = "verify"
    /\ LET exp == req[h].cookie.exp
       IN  Issue(IF exp > clock THEN exp ELSE clock + 1, TRUE)
    /\ Finish(h)
    /\ UNCHANGED <<config, row, cache, filling, clock, up, crashes, history>>

\* A mutated model: disabling TOTP leaves it required.
StillRequired(old) == [row EXCEPT !.secret = FALSE, !.step = 0]

\* set_totp_secret(None)
Disabled(old) ==
    [row EXCEPT !.secret = FALSE, !.step = 0, !.required = Net(@, old.required, FALSE)]

CommitDisable(h) ==
    /\ req[h].pc = "write" /\ req[h].op = "disable"
    /\ Commit(h, Disabled(req[h].row))
    /\ Accepted(Disabled(req[h].row))
    /\ UNCHANGED <<others, setups, revived, lapsed>>

Tick ==
    /\ clock < MaxTime
    /\ clock' = clock + 1
    /\ UNCHANGED <<config, row, cache, filling, sessions, up, crashes, req, history>>

-----------------------------------------------------------------------------

Arrive(h, r) ==
    \/ /\ "setup" \in config.calls
       /\ \E local, proxied \in BOOLEAN : BeginSetup(h, r, local, proxied)
    \/ "login" \in config.calls /\ BeginLogin(h, r)
    \/ \E c \in sessions :
          \/ \E op \in config.calls \cap {"change", "remove"} : BeginManage(h, r, op, c)
          \/ "enroll" \in config.calls /\ BeginEnroll(h, r, c)
          \/ \E op \in config.calls \cap {"verify", "disable"} : BeginCode(h, r, op, c)

\* The steps of a request that has begun.
Proceed(h) ==
    \/ TokenValid(h) \/ TokenRefused(h)
    \/ CommitSetup(h) \/ SetupConflict(h)
    \/ PasswordVerified(h) \/ PasswordRefused(h) \/ SelectAgain(h)
    \/ CommitChange(h) \/ CommitRemove(h)
    \/ EnsureLoad(h) \/ ClearToken(h) \/ StoreToken(h) \/ EnsureFails(h)
    \/ CommitEnroll(h) \/ CommitDisable(h)
    \/ \E s \in 0..(MaxTime + 2) : AdvanceStep(h, s)
    \/ CodeRefused(h)
    \/ Invalidate(h)
    \/ IssueSession(h) \/ IssueVerified(h)

Fill(r) == BeginFill(r) \/ EndFill(r)

Next ==
    \/ \E h \in Handlers :
          \/ \E r \in Replicas : Arrive(h, r) \/ Start(r, h)
          \/ Proceed(h)
    \/ \E r \in Replicas : Fill(r) \/ ExpireCache(r) \/ Crash(r)
    \/ Tick

Spec == Init /\ [][Next]_vars

-----------------------------------------------------------------------------
\* Properties

\* However setups race, a password that is not set is set up once: there is
\* at most one successful setup more than there are removals.
OneSetupPerVacancy == setups.done <= setups.removed + 1

\* A replica that has answered a request never again uses settings read
\* before that request's commit: invalidate waits for a reader that has read
\* the row and not yet stored it.
ReplicaSeesItsWrites ==
    \A r \in Replicas : cache[r] # None =>
        \A h \in cache[r].before : req[h].pc # "idle"

\* The state validate_dashboard_session calls a migration inconsistency, and
\* a TOTP demand nobody can meet, are not reached by any race of removal,
\* enrolment and disabling.
RequiredTotpCanBeMet == row.required => row.pw /\ row.secret

\* A TOTP step is accepted once, whatever requests were checked against the
\* same stored step, until the stored step is reset.
NoReplay ==
    [][\A h \in Handlers :
         req[h].pc = "advance" /\ req'[h].pc \in {"issue", "write"}
            => req'[h].row.step \notin accepted]_vars

\* When nothing is being handled and there is no password, remote setup is
\* possible: there is a token, also where removals overlapped and one cleared
\* what another had stored.  Two exceptions: a change that was committed over
\* a removal, and a removal whose token was not made (ensure_auto_bootstrap_token
\* raised, or the replica died before it), which the next start of any replica
\* makes good.
Quiet == \A h \in Handlers : req[h].pc = "idle"

VacantHasToken ==
    Quiet /\ ~row.pw /\ ~config.manual /\ ~revived /\ ~lapsed => row.token

\* What log_bootstrap_token tells the operator: the token stays valid until
\* a password is set.
TokenStaysValid ==
    [][~config.manual /\ row.token /\ ~row.pw /\ ~row'.token => row'.pw]_vars

=============================================================================
