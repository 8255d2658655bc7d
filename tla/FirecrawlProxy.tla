--------------------------- MODULE FirecrawlProxy ---------------------------
(***************************************************************************)
(* The Firecrawl proxy around its database: the accounts, credentials and  *)
(* jobs tables, and the handlers that read a row, wait for the upstream or *)
(* for the database, and write the row back.  The handlers of every        *)
(* replica share the tables; each runs in a database session of its own.   *)
(*                                                                         *)
(* A handler's life:                                                       *)
(*   proxy, submit_job   idle -> listed -> forwarded [-> loaded] -> idle    *)
(*   proxy_job_operation idle -> polling [-> loaded] -> idle               *)
(*   update_account,                                                       *)
(*   update_credential   idle -> patching -> idle                          *)
(* and from anywhere to failed, which is idle after a call that ended      *)
(* without an answer.                                                      *)
(* "loaded" is the window between the ORM's SELECT of the row a handler    *)
(* changes and the COMMIT of the change.  The SELECT is preceded by a      *)
(* flush (autoflush) of the handler's request log or job row, so on SQLite *)
(* the handler owns the database's write lock throughout; PostgreSQL has   *)
(* no such lock (SerialWriters).                                           *)
(*                                                                         *)
(* The ORM writes a column only when its new value differs from the value  *)
(* it loaded: see Merge.                                                   *)
(***************************************************************************)
EXTENDS Naturals, FiniteSets

CONSTANTS
    Accounts,       \* ids of Firecrawl accounts
    Credentials,    \* ids of API credentials
    Jobs,           \* upstream ids of crawl and batch-scrape jobs
    Sessions,       \* database sessions, one per request being handled
    Replicas,       \* replicas, each with a refresh scheduler
    Costs,          \* the credits a call can cost
    Readings,       \* the remaining credits the upstream or an operator states
    Patches,        \* the account updates the operator may send
    KeyStatuses,    \* the credential statuses the operator may send
    SerialWriters,  \* TRUE on SQLite, FALSE on PostgreSQL
    None,           \* SQL NULL, and the absence of a row
    Keep            \* a field an update leaves out

VARIABLES
    accounts,       \* accounts[a]: the row of a, or None
    credentials,    \* credentials[c]: the row of c, or None
    jobs,           \* jobs[j]: the row of j, or None
    writer,         \* the session that owns SQLite's write lock, or None
    pc,             \* pc[s]: where the handler in session s is
    ses,            \* ses[s]: what that handler holds
    refresh,        \* refresh[r]: the refresh pass of replica r
    \* history, read by the properties only:
    settlements,    \* settlements[j]: how often j's credits were charged
    overlapped,     \* overlapped[j]: two status polls of j overlapped
    touched         \* touched[a]: an operator changed a's status or cooldown

tables  == <<accounts, credentials, jobs>>
history == <<settlements, overlapped, touched>>
vars    == <<accounts, credentials, jobs, writer, pc, ses, refresh,
             settlements, overlapped, touched>>

-----------------------------------------------------------------------------
(* Types *)

AccountStatus == {"active", "rate_limited", "credit_exhausted", "paused",
                  "invalid"}
CredentialStatus == {"active", "paused", "invalid"}
JobStatus == {"submitted", "scraping", "completed", "cancelled"}
TerminalStatus == {"completed", "cancelled"}
\* _request_status: what a proxied call came back with.
RequestStatus == {"success", "credential_invalid", "credit_exhausted",
                  "rate_limited", "error"}
Balance == Nat \cup {None}

\* cooldown: cooldown_until is not NULL.  Its value never matters, see
\* RoutingRaises.
AccountRow == [status : AccountStatus, remaining : Balance,
               cooldown : BOOLEAN]
CredentialRow == [account : Accounts, status : CredentialStatus]
JobRow == [account : Accounts, credential : Credentials,
           status : JobStatus, final : Balance]
Patch == [status : AccountStatus \cup {Keep}, remaining : Balance \cup {Keep},
          cooldown : BOOLEAN \cup {Keep}]

ASSUME CostsAssumption == Costs \subseteq Nat
ASSUME ReadingsAssumption == Readings \subseteq Nat
ASSUME PatchesAssumption == /\ Patches \subseteq Patch
                            /\ KeyStatuses \subseteq CredentialStatus
ASSUME SerialWritersAssumption == SerialWriters \in BOOLEAN
ASSUME NoneAssumption ==
    /\ None \notin Nat \cup Sessions \cup Accounts \cup Credentials \cup Jobs
    /\ None \notin AccountRow \cup CredentialRow \cup JobRow
    /\ None \notin [account : Accounts, credits : Costs]
    /\ Keep \notin Balance \cup AccountStatus \cup BOOLEAN

PC == {"idle", "failed", "listed", "forwarded", "polling", "patching", "loaded"}
Ops == {"none", "proxy", "submit_job", "GET", "DELETE", "update_account",
        "update_credential"}

Session ==
    [op         : Ops,
     seen       : SUBSET Accounts,              \* rows that passed routing
     account    : Accounts \cup {None},         \* the account in use
     credential : Credentials \cup {None},      \* the API key in use
     job        : Jobs \cup {None},             \* the job operated on
     jobRow     : JobRow \cup {None},           \* its row as loaded
     status     : RequestStatus \cup JobStatus \cup {None},  \* the answer
     credits    : Costs \cup {None},            \* its cost
     row        : AccountRow \cup {None},       \* account row as loaded
     key        : CredentialStatus \cup {None}, \* credential status as loaded
     newKey     : CredentialStatus \cup {None}, \* the status to give it
     patch      : Patches \cup {None}]         \* the update to make

Blank == [op |-> "none", seen |-> {}, account |-> None, credential |-> None,
          job |-> None, jobRow |-> None, status |-> None, credits |-> None,
          row |-> None, key |-> None, newKey |-> None, patch |-> None]

Pass == [running : BOOLEAN, todo : SUBSET Accounts,
         loaded : [Accounts -> Balance], reading : [Accounts -> Balance]]

NoPass == [running |-> FALSE, todo |-> {},
           loaded |-> [a \in Accounts |-> None],
           reading |-> [a \in Accounts |-> None]]

TypeOK ==
    /\ accounts \in [Accounts -> AccountRow \cup {None}]
    /\ credentials \in [Credentials -> CredentialRow \cup {None}]
    /\ jobs \in [Jobs -> JobRow \cup {None}]
    /\ writer \in Sessions \cup {None}
    /\ pc \in [Sessions -> PC]
    /\ ses \in [Sessions -> Session]
    /\ refresh \in [Replicas -> Pass]
    /\ settlements \in [Jobs -> Nat]
    /\ overlapped \in [Jobs -> BOOLEAN]
    /\ touched \in [Accounts -> BOOLEAN]

Init ==
    /\ accounts = [a \in Accounts |-> None]
    /\ credentials = [c \in Credentials |-> None]
    /\ jobs = [j \in Jobs |-> None]
    /\ writer = None
    /\ pc = [s \in Sessions |-> "idle"]
    /\ ses = [s \in Sessions |-> Blank]
    /\ refresh = [r \in Replicas |-> NoPass]
    /\ settlements = [j \in Jobs |-> 0]
    /\ overlapped = [j \in Jobs |-> FALSE]
    /\ touched = [a \in Accounts |-> FALSE]

-----------------------------------------------------------------------------
(* Sessions and the database *)

\* A write may start: nobody else is between its first write and its COMMIT.
CanWrite(s) == SerialWriters => writer \in {None, s}

\* A mutated model: the row is read before anything was flushed.
FlushNothing(s) == CanWrite(s) /\ UNCHANGED writer

\* autoflush: the pending INSERT or UPDATE goes out ahead of the SELECT and
\* takes SQLite's write lock until COMMIT.
Flush(s) == /\ CanWrite(s)
            /\ writer' = IF SerialWriters THEN s ELSE writer

\* UPDATE of a job's row waits for the row lock PostgreSQL gave another
\* session; on SQLite CanWrite is the stronger condition.
JobFree(s, j) == \A t \in Sessions \ {s} :
                    ~(pc[t] = "loaded" /\ ses[t].job = j)

\* The ORM's UPDATE: of the columns of a row loaded as old and changed to new,
\* only those that differ are written; cur is the row in the table.
Merge(cur, old, new) ==
    [status    |-> IF new.status # old.status THEN new.status ELSE cur.status,
     remaining |-> IF new.remaining # old.remaining
                   THEN new.remaining ELSE cur.remaining,
     cooldown  |-> IF new.cooldown # old.cooldown
                   THEN new.cooldown ELSE cur.cooldown]

\* The handler in session s answers its client and the session is closed.
Close(s) == /\ pc' = [pc EXCEPT ![s] = "idle"]
            /\ ses' = [ses EXCEPT ![s] = Blank]

\* COMMIT releases the write lock.
Release(s) == writer' = IF writer = s THEN None ELSE writer

-----------------------------------------------------------------------------
(* Routing: list_accounts and select_account *)

\* remaining_credits_live or 0
Remaining(row) == IF row.remaining = None THEN 0 ELSE row.remaining

\* cooldown_until comes back from the database without a time zone and is
\* compared with an aware datetime: TypeError, whatever its value.  The status
\* is tested first, so only an active account gets that far.
RoutingRaises ==
    \E a \in Accounts : /\ accounts[a] # None
                        /\ accounts[a].status = "active"
                        /\ accounts[a].cooldown

\* The tests of _rejection_reason on the columns of the account's row.
Routable(row, est) == /\ row # None
                      /\ row.status = "active"
                      /\ Remaining(row) >= est

\* SELECT of the account rows.  (When RoutingRaises the request fails with a
\* 500 and changes nothing.)
ListAccounts(s, op, est) ==
    /\ pc[s] \in {"idle", "failed"}
    /\ ~RoutingRaises
    /\ pc' = [pc EXCEPT ![s] = "listed"]
    /\ ses' = [ses EXCEPT ![s] = [@ EXCEPT
                !.op = op,
                !.seen = {a \in Accounts : Routable(accounts[a], est)}]]
    /\ UNCHANGED <<tables, writer, refresh, history>>

\* The active credentials of account a.
ActiveCredentials(a) ==
    {c \in Credentials : /\ credentials[c] # None
                         /\ credentials[c].account = a
                         /\ credentials[c].status = "active"}

\* The credentials are read per account after the account rows; the request is
\* then forwarded with a key of one of the candidates (which one is a matter
\* of scores and of row order).
SelectAccount(s) ==
    /\ pc[s] = "listed"
    /\ \E a \in ses[s].seen : \E c \in ActiveCredentials(a) :
          ses' = [ses EXCEPT ![s] = [@ EXCEPT
                   !.seen = {},
                   !.account = a,
                   !.credential = c]]
    /\ pc' = [pc EXCEPT ![s] = "forwarded"]
    /\ UNCHANGED <<tables, writer, refresh, history>>

\* NoFirecrawlAccountAvailable: the client gets a 503.  Possible with any
\* candidates: each may be at the concurrency limit that its last refresh
\* reported, a column left out here.
RejectRequest(s) ==
    /\ pc[s] = "listed"
    /\ Close(s)
    /\ UNCHANGED <<tables, writer, refresh, history>>

-----------------------------------------------------------------------------
(* Recording what a proxied call came back with: _record_outcome *)

\* A mutated model: the balance is not clamped at zero.
DebitUnclamped(b, c) == IF b = None THEN None ELSE b - c

\* max(0, remaining - credits), and NULL stays NULL.
Debit(b, c) == IF b = None THEN None ELSE IF b >= c THEN b - c ELSE 0

\* A mutated model: any account is put back into service by a success.
ReviveAny(row, c) == [status |-> "active", remaining |-> Debit(row.remaining, c),
                      cooldown |-> FALSE]

\* A mutated model: the cooldown is left behind.
KeepCooldown(row, c) ==
    [status |-> IF row.status = "rate_limited" THEN "active" ELSE row.status,
     remaining |-> Debit(row.remaining, c),
     cooldown |-> row.cooldown]

\* apply_success
ApplySuccess(row, c) ==
    [status    |-> IF row.status = "rate_limited" THEN "active" ELSE row.status,
     remaining |-> Debit(row.remaining, c),
     cooldown  |-> IF row.status = "rate_limited" THEN FALSE ELSE row.cooldown]

\* Does this answer change a row that has to be loaded first?
ChangesRow(op, status) ==
    \/ op = "proxy" /\ status = "success"
    \/ status \in {"credential_invalid", "credit_exhausted", "rate_limited"}

\* The answer is in; the request log is flushed and the row loaded.
LoadForOutcome(s, status, credits) ==
    /\ pc[s] = "forwarded"
    /\ ChangesRow(ses[s].op, status)
    /\ Flush(s)
    /\ pc' = [pc EXCEPT ![s] = "loaded"]
    /\ ses' = [ses EXCEPT ![s] = [@ EXCEPT
                !.status = status,
                !.credits = credits,
                !.row = IF status = "credential_invalid" THEN None
                        ELSE accounts[ses[s].account],
                !.key = IF status = "credential_invalid"
                        THEN credentials[ses[s].credential].status
                        ELSE None]]
    /\ UNCHANGED <<tables, refresh, history>>

\* COMMIT after a 2xx of a synchronous call.
CommitSuccess(s) ==
    /\ pc[s] = "loaded" /\ ses[s].op = "proxy" /\ ses[s].status = "success"
    /\ accounts' = [accounts EXCEPT ![ses[s].account] =
                      Merge(@, ses[s].row,
                            ApplySuccess(ses[s].row, ses[s].credits))]
    /\ Release(s) /\ Close(s)
    /\ UNCHANGED <<credentials, jobs, refresh, history>>

\* COMMIT after a 402: mark_account_credit_exhausted.
CommitCreditExhausted(s) ==
    /\ pc[s] = "loaded" /\ ses[s].status = "credit_exhausted"
    /\ accounts' = [accounts EXCEPT ![ses[s].account] =
                      Merge(@, ses[s].row,
                            [ses[s].row EXCEPT !.status = "credit_exhausted"])]
    /\ Release(s) /\ Close(s)
    /\ UNCHANGED <<credentials, jobs, refresh, history>>

\* COMMIT after a 429: mark_account_rate_limited.  The new cooldown_until is a
\* later time than the loaded one, so that column is always written.
CommitRateLimited(s) ==
    /\ pc[s] = "loaded" /\ ses[s].status = "rate_limited"
    /\ accounts' = [accounts EXCEPT ![ses[s].account] =
                      [Merge(@, ses[s].row,
                             [ses[s].row EXCEPT !.status = "rate_limited"])
                        EXCEPT !.cooldown = TRUE]]
    /\ Release(s) /\ Close(s)
    /\ UNCHANGED <<credentials, jobs, refresh, history>>

\* COMMIT after a 401: mark_credential_invalid.
CommitCredentialInvalid(s) ==
    /\ pc[s] = "loaded" /\ ses[s].status = "credential_invalid"
    /\ credentials' = [credentials EXCEPT ![ses[s].credential].status =
                         IF ses[s].key # "invalid" THEN "invalid" ELSE @]
    /\ Release(s) /\ Close(s)
    /\ UNCHANGED <<accounts, jobs, refresh, history>>

\* COMMIT of the request log alone: any other status, or a submission that
\* came back without a job id.
CommitLogOnly(s) ==
    /\ pc[s] = "forwarded"
    /\ CanWrite(s)
    /\ Close(s)
    /\ UNCHANGED <<tables, writer, refresh, history>>

\* COMMIT of a submitted job; the upstream never reuses a job id.
CommitSubmit(s, j) ==
    /\ pc[s] = "forwarded" /\ ses[s].op = "submit_job"
    /\ jobs[j] = None
    /\ CanWrite(s)
    /\ jobs' = [jobs EXCEPT ![j] = [account |-> ses[s].account,
                                    credential |-> ses[s].credential,
                                    status |-> "submitted", final |-> None]]
    /\ Close(s)
    /\ UNCHANGED <<accounts, credentials, writer, refresh, history>>

-----------------------------------------------------------------------------
(* Job status and cancellation: proxy_job_operation *)

\* A mutated model: a job operation selects an account anew.
AnyKey(j, c) == credentials[c] # None /\ credentials[c].status = "active"

\* A job operation is sent with the key the job was submitted with.
JobKey(j, c) == c = jobs[j].credential

\* Status polls of j that are under way.
PollsOf(j) == {t \in Sessions : /\ pc[t] \in {"polling", "loaded"}
                                /\ ses[t].op = "GET"
                                /\ ses[t].job = j}

\* SELECT of the job's row, then the upstream call.  (No row: a 404.)
GetJob(s, j, method) ==
    /\ pc[s] \in {"idle", "failed"}
    /\ jobs[j] # None
    /\ pc' = [pc EXCEPT ![s] = "polling"]
    /\ \E c \in Credentials :
          /\ JobKey(j, c)
          /\ ses' = [ses EXCEPT ![s] = [@ EXCEPT
                      !.op = method,
                      !.job = j,
                      !.jobRow = jobs[j],
                      !.account = jobs[j].account,
                      !.credential = c]]
    /\ overlapped' = [overlapped EXCEPT
                        ![j] = @ \/ (method = "GET" /\ PollsOf(j) # {})]
    /\ UNCHANGED <<tables, writer, refresh, settlements, touched>>

\* A mutated model: settle_job_once does not look whether j was settled.
AlwaysUnsettled(row) == TRUE

\* The guard of settle_job_once, on the row as it was loaded.
Unsettled(row) == row.final = None

\* A terminal status with creditsUsed for a job loaded as unsettled: its row
\* is flushed and the row of the owning account loaded.
LoadForSettlement(s, status, credits) ==
    /\ pc[s] = "polling" /\ ses[s].op = "GET"
    /\ status \in TerminalStatus
    /\ Unsettled(ses[s].jobRow)
    /\ Flush(s) /\ JobFree(s, ses[s].job)
    /\ pc' = [pc EXCEPT ![s] = "loaded"]
    /\ ses' = [ses EXCEPT ![s] = [@ EXCEPT
                !.status = status,
                !.credits = credits,
                !.row = accounts[ses[s].account]]]
    /\ UNCHANGED <<tables, refresh, history>>

\* The job's row with a new status; the ORM drops a change to the same value.
WithStatus(cur, old, status) ==
    [cur EXCEPT !.status = IF status # old.status THEN status ELSE @]

\* COMMIT of a settlement: the job is final and its owner is charged.
CommitSettlement(s) ==
    /\ pc[s] = "loaded" /\ ses[s].op = "GET"
    /\ jobs' = [jobs EXCEPT ![ses[s].job] =
                  [WithStatus(@, ses[s].jobRow, ses[s].status)
                     EXCEPT !.final = ses[s].credits]]
    /\ accounts' = [accounts EXCEPT ![ses[s].account] =
                      Merge(@, ses[s].row,
                            ApplySuccess(ses[s].row, ses[s].credits))]
    /\ settlements' = [settlements EXCEPT ![ses[s].job] = @ + 1]
    /\ Release(s) /\ Close(s)
    /\ UNCHANGED <<credentials, refresh, overlapped, touched>>

\* COMMIT of any other 2xx answer to a poll: the status the answer has, if it
\* has one, is recorded; a job loaded as settled is not charged again.
CommitPoll(s, status) ==
    /\ pc[s] = "polling" /\ ses[s].op = "GET"
    /\ CanWrite(s) /\ JobFree(s, ses[s].job)
    /\ jobs' = [jobs EXCEPT ![ses[s].job] =
                  WithStatus(@, ses[s].jobRow,
                     IF status = None THEN ses[s].jobRow.status ELSE status)]
    /\ Close(s)
    /\ UNCHANGED <<accounts, credentials, writer, refresh, history>>

\* COMMIT of a 2xx answer to a cancellation.
CommitCancel(s, status) ==
    /\ pc[s] = "polling" /\ ses[s].op = "DELETE"
    /\ CanWrite(s) /\ JobFree(s, ses[s].job)
    /\ jobs' = [jobs EXCEPT ![ses[s].job] =
                  WithStatus(@, ses[s].jobRow,
                             IF status = None THEN "cancelled" ELSE status)]
    /\ Close(s)
    /\ UNCHANGED <<accounts, credentials, writer, refresh, history>>

\* The answer to a job operation is not a 2xx: it is passed on, and the COMMIT
\* has nothing to write.
PassThrough(s) ==
    /\ pc[s] = "polling"
    /\ Close(s)
    /\ UNCHANGED <<tables, writer, refresh, history>>

\* The handler ends without writing and without an answer: the upstream call
\* raised or timed out, the database refused the write, the client went away,
\* or the process died.
Abort(s) ==
    /\ pc[s] \notin {"idle", "failed"}
    /\ pc' = [pc EXCEPT ![s] = "failed"]
    /\ ses' = [ses EXCEPT ![s] = Blank]
    /\ Release(s)
    /\ UNCHANGED <<tables, refresh, history>>

-----------------------------------------------------------------------------
(* The operator: FirecrawlAdminService *)

\* An operator's request takes the write lock only while it commits.
NoWriter == SerialWriters => writer = None

CreateAccount(a, remaining) ==
    /\ accounts[a] = None
    /\ NoWriter
    /\ accounts' = [accounts EXCEPT ![a] = [status |-> "active",
                                            remaining |-> remaining,
                                            cooldown |-> FALSE]]
    /\ UNCHANGED <<credentials, jobs, writer, pc, ses, refresh, history>>

CreateCredential(c, a, status) ==
    /\ accounts[a] # None
    /\ credentials[c] = None
    /\ NoWriter
    /\ credentials' = [credentials EXCEPT ![c] = [account |-> a,
                                                  status |-> status]]
    /\ UNCHANGED <<accounts, jobs, writer, pc, ses, refresh, history>>

\* update_account, first half: the row is loaded.
LoadAccount(s, a, patch) ==
    /\ pc[s] \in {"idle", "failed"}
    /\ accounts[a] # None
    /\ pc' = [pc EXCEPT ![s] = "patching"]
    /\ ses' = [ses EXCEPT ![s] = [@ EXCEPT
                !.op = "update_account",
                !.account = a,
                !.row = accounts[a],
                !.patch = patch]]
    /\ UNCHANGED <<tables, writer, refresh, history>>

\* A row with the fields of the update set.
Patched(row, p) ==
    [status    |-> IF p.status = Keep THEN row.status ELSE p.status,
     remaining |-> IF p.remaining = Keep THEN row.remaining ELSE p.remaining,
     cooldown  |-> IF p.cooldown = Keep THEN row.cooldown ELSE p.cooldown]

\* The row after the update.  A cooldown the operator states is a time other
\* than the loaded one, so that column is then always written.
Updated(cur, old, p) ==
    LET new == Merge(cur, old, Patched(old, p))
    IN  [status |-> new.status, remaining |-> new.remaining,
         cooldown |-> IF p.cooldown = TRUE THEN TRUE ELSE new.cooldown]

\* update_account, second half: COMMIT.
UpdateAccount(s) ==
    /\ pc[s] = "patching" /\ ses[s].op = "update_account"
    /\ CanWrite(s)
    /\ accounts' = [accounts EXCEPT ![ses[s].account] =
                      Updated(@, ses[s].row, ses[s].patch)]
    /\ touched' = [touched EXCEPT ![ses[s].account] =
                     @ \/ ses[s].patch.status # Keep
                       \/ ses[s].patch.cooldown # Keep]
    /\ Close(s)
    /\ UNCHANGED <<credentials, jobs, writer, refresh, settlements, overlapped>>

\* update_credential
LoadCredential(s, c, status) ==
    /\ pc[s] \in {"idle", "failed"}
    /\ credentials[c] # None
    /\ pc' = [pc EXCEPT ![s] = "patching"]
    /\ ses' = [ses EXCEPT ![s] = [@ EXCEPT
                !.op = "update_credential",
                !.credential = c,
                !.key = credentials[c].status,
                !.newKey = status]]
    /\ UNCHANGED <<tables, writer, refresh, history>>

UpdateCredential(s) ==
    /\ pc[s] = "patching" /\ ses[s].op = "update_credential"
    /\ CanWrite(s)
    /\ credentials' = [credentials EXCEPT ![ses[s].credential].status =
                         IF ses[s].newKey # ses[s].key THEN ses[s].newKey ELSE @]
    /\ Close(s)
    /\ UNCHANGED <<accounts, jobs, writer, refresh, history>>

-----------------------------------------------------------------------------
(* The refresh scheduler: refresh_once, on every replica *)

\* The pass loads every account row, and keeps it until its one COMMIT.
StartPass(r) ==
    /\ ~refresh[r].running
    /\ refresh' = [refresh EXCEPT ![r] =
          [running |-> TRUE,
           todo    |-> {a \in Accounts : /\ accounts[a] # None
                                         /\ ActiveCredentials(a) # {}},
           loaded  |-> [a \in Accounts |-> IF accounts[a] = None THEN None
                                           ELSE accounts[a].remaining],
           reading |-> [a \in Accounts |-> None]]]
    /\ UNCHANGED <<tables, writer, pc, ses, history>>

\* Both upstream calls for account a are answered; None: no number came back,
\* or a call failed and only the error message is recorded.
ReadUpstream(r, a, reading) ==
    /\ a \in refresh[r].todo
    /\ refresh' = [refresh EXCEPT ![r] =
                     [refresh[r] EXCEPT !.todo = refresh[r].todo \ {a},
                                        !.reading[a] = reading]]
    /\ UNCHANGED <<tables, writer, pc, ses, history>>

\* The balance of a after the COMMIT of r's pass.
Refreshed(r, a) ==
    IF refresh[r].reading[a] \notin {None, refresh[r].loaded[a]}
    THEN [accounts[a] EXCEPT !.remaining = refresh[r].reading[a]]
    ELSE accounts[a]

CommitPass(r) ==
    /\ refresh[r].running /\ refresh[r].todo = {}
    /\ NoWriter
    /\ accounts' = [a \in Accounts |-> Refreshed(r, a)]
    /\ refresh' = [refresh EXCEPT ![r] = NoPass]
    /\ UNCHANGED <<credentials, jobs, writer, pc, ses, history>>

\* The pass raises, or the scheduler is stopped: nothing was written.
FailPass(r) ==
    /\ refresh[r].running
    /\ refresh' = [refresh EXCEPT ![r] = NoPass]
    /\ UNCHANGED <<tables, writer, pc, ses, history>>

-----------------------------------------------------------------------------

ProxyStep(s) ==
    \/ \E op \in {"proxy", "submit_job"}, est \in Costs :
          ListAccounts(s, op, est)
    \/ SelectAccount(s)
    \/ RejectRequest(s)
    \/ \E credits \in Costs : LoadForOutcome(s, "success", credits)
    \/ \E status \in {"credential_invalid", "credit_exhausted",
                      "rate_limited"} : LoadForOutcome(s, status, None)
    \/ CommitSuccess(s)
    \/ CommitCreditExhausted(s)
    \/ CommitRateLimited(s)
    \/ CommitCredentialInvalid(s)
    \/ CommitLogOnly(s)
    \/ \E j \in Jobs : CommitSubmit(s, j)

JobStep(s) ==
    \/ \E j \in Jobs, method \in {"GET", "DELETE"} : GetJob(s, j, method)
    \/ \E status \in TerminalStatus, credits \in Costs :
          LoadForSettlement(s, status, credits)
    \/ CommitSettlement(s)
    \/ \E status \in JobStatus \cup {None} : CommitPoll(s, status)
    \/ \E status \in JobStatus \cup {None} : CommitCancel(s, status)
    \/ PassThrough(s)

AdminStep(s) ==
    \/ \E a \in Accounts, patch \in Patches : LoadAccount(s, a, patch)
    \/ UpdateAccount(s)
    \/ \E c \in Credentials, status \in KeyStatuses :
          LoadCredential(s, c, status)
    \/ UpdateCredential(s)

CreateStep ==
    \/ \E a \in Accounts, remaining \in Readings \cup {None} :
          CreateAccount(a, remaining)
    \/ \E c \in Credentials, a \in Accounts, status \in KeyStatuses :
          CreateCredential(c, a, status)

RefreshStep(r) ==
    \/ StartPass(r)
    \/ \E a \in Accounts, reading \in Readings \cup {None} :
          ReadUpstream(r, a, reading)
    \/ CommitPass(r)
    \/ FailPass(r)

Next == \/ \E s \in Sessions : ProxyStep(s) \/ JobStep(s) \/ AdminStep(s)
                               \/ Abort(s)
        \/ CreateStep
        \/ \E r \in Replicas : RefreshStep(r)

Spec == Init /\ [][Next]_vars

-----------------------------------------------------------------------------
(* Properties *)

\* A handler that is about to charge an account: a synchronous call that
\* succeeded, or a poll that settles a job.
Charging(s) == /\ pc[s] = "loaded"
               /\ \/ ses[s].op = "proxy" /\ ses[s].status = "success"
                  \/ ses[s].op = "GET"

Balances == [a \in Accounts |-> IF accounts[a] = None THEN None
                                ELSE accounts[a].remaining]

Owed == [s \in Sessions |->
           IF Charging(s) THEN [account |-> ses[s].account,
                                credits |-> ses[s].credits]
           ELSE None]

Failed == {s \in Sessions : pc[s] = "failed"}

Ledger == INSTANCE CreditLedger
            WITH balance <- Balances, owed <- Owed, failed <- Failed

\* The proxy keeps the ledger of CreditLedger: the cost of every successful
\* call and of every settlement is taken from the balance as it stands at
\* COMMIT (apply_success), whatever other handlers, operators and refresh
\* passes wrote in between, before the client gets its answer.  Only the
\* operator and the refresh pass assign a balance.
LedgerSpec == Ledger!Spec

\* apply_success puts a rate-limited account back into service, and nothing but
\* an operator's update_account does so for an account that was paused, marked
\* invalid or out of credits: no answer that arrives late revives it directly.
OnlyOperatorRevives ==
    [][\A a \in Accounts :
         /\ accounts[a] # None /\ accounts'[a] # None
         /\ accounts[a].status \in {"paused", "invalid", "credit_exhausted"}
         /\ accounts'[a].status = "active"
         => \E s \in Sessions : /\ pc[s] = "patching"
                                /\ ses[s].account = a
                                /\ pc'[s] = "idle"]_vars

\* A job's row names the account that owns the key the job was submitted with,
\* and every status or cancel call under way uses that key and that account
\* (proxy_job_operation does not select an account again).
JobsKeepTheirKey ==
    /\ \A j \in Jobs : jobs[j] # None =>
          /\ credentials[jobs[j].credential] # None
          /\ credentials[jobs[j].credential].account = jobs[j].account
    /\ \A s \in Sessions : ses[s].job # None =>
          /\ jobs[ses[s].job] # None
          /\ ses[s].credential = jobs[ses[s].job].credential
          /\ ses[s].account = jobs[ses[s].job].account

\* settle_job_once charges a job once as long as its status polls never
\* overlap, through aborted polls, retries, cancellations and restarts.
SettledOnceUnlessOverlapped ==
    \A j \in Jobs : settlements[j] > 1 => overlapped[j]

\* A job is charged once, however its status is polled.
SettledOnce == \A j \in Jobs : settlements[j] <= 1

\* select_account cannot raise on an account whose status and cooldown no
\* operator has touched: the handlers set and clear the two together.
RoutingRaisesOnlyIfTouched ==
    \A a \in Accounts :
       /\ accounts[a] # None
       /\ accounts[a].status = "active"
       /\ accounts[a].cooldown
       => touched[a]

\* An account with a cooldown is excluded from selection, and the others stay
\* available: selection never fails with an error of its own.
CooldownExcludesOnlyItsAccount == ~RoutingRaises

-----------------------------------------------------------------------------
(* The inductive invariant behind the theorems of FirecrawlProxyProofs *)

\* Foreign keys: rows are never deleted.
Rows ==
    /\ \A c \in Credentials :
          credentials[c] # None => accounts[credentials[c].account] # None
    /\ \A j \in Jobs : jobs[j] # None =>
          /\ accounts[jobs[j].account] # None
          /\ credentials[jobs[j].credential] # None
          /\ credentials[jobs[j].credential].account = jobs[j].account

\* The handler of s uses an account and a key of it.
UsesKey(s) == /\ ses[s].account \in Accounts
              /\ ses[s].credential \in Credentials
              /\ accounts[ses[s].account] # None
              /\ credentials[ses[s].credential] # None
              /\ credentials[ses[s].credential].account = ses[s].account

\* The handler of s works on a job it has loaded.
UsesJob(s) == /\ ses[s].job \in Jobs
              /\ jobs[ses[s].job] # None
              /\ ses[s].jobRow \in JobRow
              /\ ses[s].credential = jobs[ses[s].job].credential
              /\ ses[s].account = jobs[ses[s].job].account

\* What a handler holds at each point of its life.
ShapeOf(s) ==
    /\ pc[s] \in {"idle", "failed"} => ses[s] = Blank
    /\ pc[s] = "listed" => /\ ses[s].op \in {"proxy", "submit_job"}
                           /\ ses[s].job = None
                           /\ \A a \in ses[s].seen : accounts[a] # None
    /\ pc[s] = "forwarded" => /\ ses[s].op \in {"proxy", "submit_job"}
                              /\ ses[s].job = None
                              /\ UsesKey(s)
    /\ pc[s] = "polling" => /\ ses[s].op \in {"GET", "DELETE"}
                            /\ UsesJob(s)
    /\ pc[s] = "loaded" =>
          /\ ses[s].op \in {"proxy", "submit_job"} =>
                /\ ses[s].job = None
                /\ UsesKey(s)
                /\ ses[s].status \in {"success", "credential_invalid",
                                      "credit_exhausted", "rate_limited"}
                /\ ses[s].status # "credential_invalid" =>
                      ses[s].row \in AccountRow
                /\ ses[s].status = "success" => /\ ses[s].op = "proxy"
                                                /\ ses[s].credits \in Costs
          /\ ses[s].op = "GET" =>
                /\ UsesJob(s)
                /\ ses[s].status \in TerminalStatus
                /\ ses[s].credits \in Costs
                /\ ses[s].jobRow.final = None
                /\ ses[s].row \in AccountRow
          /\ ses[s].op \in {"proxy", "submit_job", "GET"}
    /\ pc[s] = "patching" =>
          /\ ses[s].op \in {"update_account", "update_credential"}
          /\ ses[s].job = None
          /\ ses[s].op = "update_account" =>
                /\ ses[s].account \in Accounts
                /\ accounts[ses[s].account] # None
                /\ ses[s].row \in AccountRow
                /\ ses[s].patch \in Patches
          /\ ses[s].op = "update_credential" =>
                /\ ses[s].credential \in Credentials
                /\ credentials[ses[s].credential] # None
                /\ ses[s].newKey \in CredentialStatus

Shape == \A s \in Sessions : ShapeOf(s)

\* A refresh pass has readings only for accounts that exist.
PassShape == \A r \in Replicas, a \in Accounts :
    /\ a \in refresh[r].todo => accounts[a] # None
    /\ refresh[r].reading[a] # None => accounts[a] # None

\* SQLite: whoever has loaded a row to change it owns the write lock, and the
\* account row it holds is still the row in the table.
Locked == SerialWriters => \A s \in Sessions :
    /\ pc[s] = "loaded" <=> writer = s
    /\ pc[s] = "loaded" /\ ses[s].row # None =>
          ses[s].row = accounts[ses[s].account]

\* A job whose polls never overlapped was charged as often as its row says,
\* and a poll that holds it as unsettled is right.
Settled == \A j \in Jobs : ~overlapped[j] =>
    /\ settlements[j] <= 1
    /\ jobs[j] = None => settlements[j] = 0
    /\ jobs[j] # None /\ jobs[j].final = None => settlements[j] = 0
    /\ \A s, t \in PollsOf(j) : s = t
    /\ \A s \in PollsOf(j) : ses[s].jobRow.final = jobs[j].final
=============================================================================
