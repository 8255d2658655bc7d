----------------------- MODULE FirecrawlProxyProofs -----------------------
(***************************************************************************)
(* Theorems about FirecrawlProxy, for every set of accounts, credentials,  *)
(* jobs, sessions and replicas and for every cost, reading and update.     *)
(***************************************************************************)
EXTENDS FirecrawlProxy, TLAPS

\* The part of the inductive invariant that does not depend on the database.
Base == TypeOK /\ Rows /\ Shape /\ PassShape

-----------------------------------------------------------------------------
(* The operators on rows *)

\* A debit turns a balance into a balance.
LEMMA DebitType ==
    ASSUME NEW b \in Balance, NEW c \in Costs
    PROVE  Debit(b, c) \in Balance
  BY CostsAssumption DEF Debit, Balance

\* What the ORM writes back, and what apply_success makes of a row, are rows.
LEMMA MergeType ==
    ASSUME NEW x \in AccountRow, NEW y \in AccountRow, NEW z \in AccountRow
    PROVE  Merge(x, y, z) \in AccountRow
  BY DEF Merge, AccountRow

\* apply_success maps account rows to account rows.
LEMMA ApplySuccessType ==
    ASSUME NEW row \in AccountRow, NEW c \in Costs
    PROVE  ApplySuccess(row, c) \in AccountRow
  BY DebitType DEF ApplySuccess, AccountRow, AccountStatus

\* An operator's update of a row gives a row.
LEMMA PatchedType ==
    ASSUME NEW row \in AccountRow, NEW p \in Patches
    PROVE  Patched(row, p) \in AccountRow
  BY PatchesAssumption DEF Patched, AccountRow, Patch

\* So does what the ORM writes of it.
LEMMA UpdatedType ==
    ASSUME NEW x \in AccountRow, NEW y \in AccountRow, NEW p \in Patches
    PROVE  Updated(x, y, p) \in AccountRow
  <1>1. Merge(x, y, Patched(y, p)) \in AccountRow
    BY MergeType, PatchedType
  <1> QED BY <1>1 DEF Updated, AccountRow

\* A row loaded and written back unchanged in between takes every change.
LEMMA MergeFresh ==
    ASSUME NEW x \in AccountRow, NEW z \in AccountRow
    PROVE  Merge(x, x, z) = z
  BY DEF Merge, AccountRow

\* A session that holds nothing is well-typed.
LEMMA BlankType == Blank \in Session
  BY DEF Blank, Session, Ops

\* The changes a handler makes to what it holds keep the type of the record.
LEMMA ListedType ==
    ASSUME NEW r \in Session, NEW op \in Ops, NEW S \in SUBSET Accounts
    PROVE  [r EXCEPT !.op = op, !.seen = S] \in Session
  BY DEF Session

\* What a handler holds after select_account is well-typed.
LEMMA SelectedType ==
    ASSUME NEW r \in Session, NEW a \in Accounts, NEW c \in Credentials
    PROVE  [r EXCEPT !.seen = {}, !.account = a, !.credential = c] \in Session
  BY DEF Session

\* What a handler holds after it loaded a row for the answer is well-typed.
LEMMA AnsweredType ==
    ASSUME NEW r \in Session, NEW status \in RequestStatus,
           NEW credits \in Costs \cup {None},
           NEW row \in AccountRow \cup {None},
           NEW key \in CredentialStatus \cup {None}
    PROVE  [r EXCEPT !.status = status, !.credits = credits,
                     !.row = row, !.key = key] \in Session
  <1> DEFINE A == AccountRow \cup {None}
             K == CredentialStatus \cup {None}
             C == Costs \cup {None}
             T == RequestStatus \cup JobStatus \cup {None}
  <1>1. credits \in C /\ row \in A /\ key \in K /\ status \in T
    OBVIOUS
  <1>2. Session = [op : Ops, seen : SUBSET Accounts,
                   account : Accounts \cup {None},
                   credential : Credentials \cup {None},
                   job : Jobs \cup {None}, jobRow : JobRow \cup {None},
                   status : T, credits : C, row : A, key : K, newKey : K,
                   patch : Patches \cup {None}]
    BY DEF Session
  <1> HIDE DEF A, K, C, T
  <1> QED BY <1>1, <1>2

\* What a job operation holds after it loaded the job is well-typed.
LEMMA PollingType ==
    ASSUME NEW r \in Session, NEW op \in Ops, NEW j \in Jobs,
           NEW row \in JobRow, NEW a \in Accounts, NEW c \in Credentials
    PROVE  [r EXCEPT !.op = op, !.job = j, !.jobRow = row, !.account = a,
                     !.credential = c] \in Session
  BY DEF Session

\* What a poll holds while it settles a job is well-typed.
LEMMA SettlingType ==
    ASSUME NEW r \in Session, NEW status \in JobStatus, NEW credits \in Costs,
           NEW row \in AccountRow
    PROVE  [r EXCEPT !.status = status, !.credits = credits, !.row = row]
             \in Session
  BY DEF Session

\* What update_account holds is well-typed.
LEMMA PatchingAccountType ==
    ASSUME NEW r \in Session, NEW a \in Accounts, NEW row \in AccountRow,
           NEW p \in Patches
    PROVE  [r EXCEPT !.op = "update_account", !.account = a, !.row = row,
                     !.patch = p] \in Session
  BY DEF Session, Ops

\* What update_credential holds is well-typed.
LEMMA PatchingCredentialType ==
    ASSUME NEW r \in Session, NEW c \in Credentials,
           NEW old \in CredentialStatus, NEW new \in CredentialStatus
    PROVE  [r EXCEPT !.op = "update_credential", !.credential = c,
                     !.key = old, !.newKey = new] \in Session
  BY DEF Session, Ops

-----------------------------------------------------------------------------
(* Type correctness *)

\* The steps of proxy and submit_job keep the types.
LEMMA ProxyType ==
    ASSUME Base, NEW s \in Sessions, ProxyStep(s)
    PROVE  TypeOK'
  <1> USE NoneAssumption DEF Base, TypeOK, tables, history
  <1>1. ASSUME NEW op \in {"proxy", "submit_job"}, NEW est \in Costs,
               ListAccounts(s, op, est)
        PROVE  TypeOK'
    <2>1. [ses[s] EXCEPT !.op = op,
             !.seen = {a \in Accounts : Routable(accounts[a], est)}] \in Session
      <3>1. ses[s] \in Session /\ op \in Ops
        BY DEF Ops
      <3> QED BY <3>1, ListedType
    <2> QED BY <1>1, <2>1 DEF ListAccounts, PC
  <1>2. CASE SelectAccount(s)
    <2>1. PICK a \in ses[s].seen, c \in Credentials :
             ses' = [ses EXCEPT ![s] = [@ EXCEPT !.seen = {}, !.account = a,
                                                 !.credential = c]]
      BY <1>2 DEF SelectAccount, ActiveCredentials
    <2>2. [ses[s] EXCEPT !.seen = {}, !.account = a, !.credential = c]
             \in Session
      <3>1. ses[s] \in Session /\ a \in Accounts
        BY DEF Session
      <3> QED BY <3>1, SelectedType
    <2> QED BY <1>2, <2>1, <2>2 DEF SelectAccount, PC
  <1>3. CASE RejectRequest(s)
    BY <1>3, BlankType DEF RejectRequest, Close, PC
  <1>4. ASSUME NEW status \in {"success", "credential_invalid",
                               "credit_exhausted", "rate_limited"},
               NEW credits \in Costs \cup {None},
               LoadForOutcome(s, status, credits)
        PROVE  TypeOK'
    <2> DEFINE row == IF status = "credential_invalid" THEN None
                      ELSE accounts[ses[s].account]
               key == IF status = "credential_invalid"
                      THEN credentials[ses[s].credential].status ELSE None
    <2>1. row \in AccountRow \cup {None}
      BY <1>4 DEF LoadForOutcome, Shape, ShapeOf, UsesKey
    <2>2. key \in CredentialStatus \cup {None}
      BY <1>4 DEF LoadForOutcome, Shape, ShapeOf, UsesKey, CredentialRow
    <2>3. status \in RequestStatus
      BY DEF RequestStatus
    <2>4. ses' = [ses EXCEPT ![s] = [@ EXCEPT !.status = status,
                     !.credits = credits, !.row = row, !.key = key]]
      BY <1>4 DEF LoadForOutcome
    <2> HIDE DEF row, key
    <2>5. [ses[s] EXCEPT !.status = status, !.credits = credits,
                         !.row = row, !.key = key] \in Session
      <3>1. ses[s] \in Session
        OBVIOUS
      <3> QED BY <2>1, <2>2, <2>3, <3>1, AnsweredType
    <2> QED BY <1>4, <2>4, <2>5 DEF LoadForOutcome, Flush, PC
  <1>5. CASE CommitSuccess(s)
    <2>1. /\ ses[s].row \in AccountRow /\ ses[s].credits \in Costs
          /\ ses[s].account \in Accounts
          /\ accounts[ses[s].account] \in AccountRow
      BY <1>5 DEF CommitSuccess, Shape, ShapeOf, UsesKey
    <2>2. accounts' \in [Accounts -> AccountRow \cup {None}]
      BY <1>5, <2>1, MergeType, ApplySuccessType DEF CommitSuccess
    <2> QED BY <1>5, <2>2, BlankType DEF CommitSuccess, Release, Close, PC
  <1>6. CASE CommitCreditExhausted(s)
    <2>1. /\ ses[s].row \in AccountRow
          /\ ses[s].account \in Accounts
          /\ accounts[ses[s].account] \in AccountRow
      BY <1>6 DEF CommitCreditExhausted, Shape, ShapeOf, UsesKey, UsesJob, TerminalStatus
    <2>2. [ses[s].row EXCEPT !.status = "credit_exhausted"] \in AccountRow
      BY <2>1 DEF AccountRow, AccountStatus
    <2>3. accounts' \in [Accounts -> AccountRow \cup {None}]
      BY <1>6, <2>1, <2>2, MergeType DEF CommitCreditExhausted
    <2> QED BY <1>6, <2>3, BlankType
            DEF CommitCreditExhausted, Release, Close, PC
  <1>7. CASE CommitRateLimited(s)
    <2>1. /\ ses[s].row \in AccountRow
          /\ ses[s].account \in Accounts
          /\ accounts[ses[s].account] \in AccountRow
      BY <1>7 DEF CommitRateLimited, Shape, ShapeOf, UsesKey, UsesJob, TerminalStatus
    <2> DEFINE new == Merge(accounts[ses[s].account], ses[s].row,
                            [ses[s].row EXCEPT !.status = "rate_limited"])
    <2>2. [ses[s].row EXCEPT !.status = "rate_limited"] \in AccountRow
      BY <2>1 DEF AccountRow, AccountStatus
    <2>3. new \in AccountRow
      BY <2>1, <2>2, MergeType
    <2>4. accounts' = [accounts EXCEPT ![ses[s].account] =
                         [new EXCEPT !.cooldown = TRUE]]
      BY <1>7 DEF CommitRateLimited
    <2> HIDE DEF new
    <2>5. [new EXCEPT !.cooldown = TRUE] \in AccountRow
      BY <2>3 DEF AccountRow
    <2>6. accounts' \in [Accounts -> AccountRow \cup {None}]
      BY <2>1, <2>4, <2>5
    <2> QED BY <1>7, <2>6, BlankType DEF CommitRateLimited, Release, Close, PC
  <1>8. CASE CommitCredentialInvalid(s)
    <2>1. /\ ses[s].credential \in Credentials
          /\ credentials[ses[s].credential] \in CredentialRow
      BY <1>8 DEF CommitCredentialInvalid, Shape, ShapeOf, UsesKey, TerminalStatus
    <2>2. credentials' \in [Credentials -> CredentialRow \cup {None}]
      BY <1>8, <2>1 DEF CommitCredentialInvalid, CredentialRow, CredentialStatus
    <2> QED BY <1>8, <2>2, BlankType
            DEF CommitCredentialInvalid, Release, Close, PC
  <1>9. CASE CommitLogOnly(s)
    BY <1>9, BlankType DEF CommitLogOnly, Close, PC
  <1>10. ASSUME NEW j \in Jobs, CommitSubmit(s, j)
         PROVE  TypeOK'
    <2>1. ses[s].account \in Accounts /\ ses[s].credential \in Credentials
      BY <1>10 DEF CommitSubmit, Shape, ShapeOf, UsesKey
    <2>2. jobs' \in [Jobs -> JobRow \cup {None}]
      BY <1>10, <2>1 DEF CommitSubmit, JobRow, JobStatus, Balance
    <2> QED BY <1>10, <2>2, BlankType DEF CommitSubmit, Close, PC
  <1> QED BY <1>1, <1>2, <1>3, <1>4, <1>5, <1>6, <1>7, <1>8, <1>9, <1>10
          DEF ProxyStep

\* The steps of proxy_job_operation keep the types.
LEMMA JobType ==
    ASSUME Base, NEW s \in Sessions, JobStep(s)
    PROVE  TypeOK'
  <1> USE NoneAssumption DEF Base, TypeOK, tables, history
  <1>1. ASSUME NEW j \in Jobs, NEW method \in {"GET", "DELETE"},
               GetJob(s, j, method)
        PROVE  TypeOK'
    <2>1. jobs[j] \in JobRow /\ ses[s] \in Session /\ method \in Ops
      BY <1>1 DEF GetJob, Ops
    <2>2. PICK c \in Credentials :
             ses' = [ses EXCEPT ![s] = [@ EXCEPT !.op = method, !.job = j,
                       !.jobRow = jobs[j], !.account = jobs[j].account,
                       !.credential = c]]
      BY <1>1 DEF GetJob
    <2>3. jobs[j].account \in Accounts
      BY <2>1 DEF JobRow
    <2>4. ses' \in [Sessions -> Session]
      <3>1. [ses[s] EXCEPT !.op = method, !.job = j, !.jobRow = jobs[j],
                           !.account = jobs[j].account, !.credential = c]
               \in Session
        BY <2>1, <2>3, PollingType
      <3> QED BY <2>2, <3>1
    <2>5. overlapped' \in [Jobs -> BOOLEAN]
      BY <1>1 DEF GetJob
    <2> QED BY <1>1, <2>4, <2>5 DEF GetJob, PC
  <1>2. ASSUME NEW status \in TerminalStatus, NEW credits \in Costs,
               LoadForSettlement(s, status, credits)
        PROVE  TypeOK'
    <2>1. /\ ses[s] \in Session /\ status \in JobStatus
          /\ accounts[ses[s].account] \in AccountRow
      BY <1>2 DEF LoadForSettlement, Shape, ShapeOf, UsesJob, Rows, TerminalStatus,
                  JobStatus, JobRow
    <2>2. ses' \in [Sessions -> Session]
      BY <1>2, <2>1, SettlingType DEF LoadForSettlement
    <2> QED BY <1>2, <2>2 DEF LoadForSettlement, Flush, PC
  <1>3. CASE CommitSettlement(s)
    <2>1. /\ ses[s].job \in Jobs /\ jobs[ses[s].job] \in JobRow
          /\ ses[s].account \in Accounts
          /\ accounts[ses[s].account] \in AccountRow
          /\ ses[s].status \in JobStatus /\ ses[s].credits \in Costs
          /\ ses[s].row \in AccountRow
      BY <1>3 DEF CommitSettlement, Shape, ShapeOf, UsesJob, Rows, TerminalStatus,
                  JobStatus, JobRow
    <2> DEFINE new == WithStatus(jobs[ses[s].job], ses[s].jobRow,
                                 ses[s].status)
    <2>2. new \in JobRow
      BY <2>1 DEF WithStatus, JobRow
    <2>3. jobs' = [jobs EXCEPT ![ses[s].job] =
                     [new EXCEPT !.final = ses[s].credits]]
      BY <1>3 DEF CommitSettlement
    <2> HIDE DEF new
    <2>4. [new EXCEPT !.final = ses[s].credits] \in JobRow
      BY <2>1, <2>2, CostsAssumption DEF JobRow, Balance
    <2>5. jobs' \in [Jobs -> JobRow \cup {None}]
      BY <2>1, <2>3, <2>4
    <2>6. accounts' \in [Accounts -> AccountRow \cup {None}]
      BY <1>3, <2>1, MergeType, ApplySuccessType DEF CommitSettlement
    <2>7. settlements' \in [Jobs -> Nat]
      BY <1>3, <2>1 DEF CommitSettlement
    <2> QED BY <1>3, <2>5, <2>6, <2>7, BlankType
            DEF CommitSettlement, Release, Close, PC
  <1>4. ASSUME NEW status \in JobStatus \cup {None},
               CommitPoll(s, status) \/ CommitCancel(s, status)
        PROVE  TypeOK'
    <2>1. /\ ses[s].job \in Jobs /\ jobs[ses[s].job] \in JobRow
          /\ ses[s].jobRow \in JobRow
      BY <1>4 DEF CommitPoll, CommitCancel, Shape, ShapeOf, UsesJob
    <2>2. PICK x \in JobStatus :
             jobs' = [jobs EXCEPT ![ses[s].job] =
                        WithStatus(@, ses[s].jobRow, x)]
      BY <1>4, <2>1 DEF CommitPoll, CommitCancel, JobStatus, JobRow
    <2>3. WithStatus(jobs[ses[s].job], ses[s].jobRow, x) \in JobRow
      BY <2>1 DEF WithStatus, JobRow
    <2>4. jobs' \in [Jobs -> JobRow \cup {None}]
      BY <2>1, <2>2, <2>3
    <2> QED BY <1>4, <2>4, BlankType DEF CommitPoll, CommitCancel, Close, PC
  <1>5. CASE PassThrough(s)
    BY <1>5, BlankType DEF PassThrough, Close, PC
  <1> QED BY <1>1, <1>2, <1>3, <1>4, <1>5 DEF JobStep

\* The operator's updates keep the types.
LEMMA AdminType ==
    ASSUME Base, NEW s \in Sessions, AdminStep(s)
    PROVE  TypeOK'
  <1> USE NoneAssumption DEF Base, TypeOK, tables, history
  <1>1. ASSUME NEW a \in Accounts, NEW p \in Patches, LoadAccount(s, a, p)
        PROVE  TypeOK'
    <2>1. accounts[a] \in AccountRow /\ ses[s] \in Session
      BY <1>1 DEF LoadAccount
    <2>2. ses' \in [Sessions -> Session]
      BY <1>1, <2>1, PatchingAccountType DEF LoadAccount
    <2> QED BY <1>1, <2>2 DEF LoadAccount, PC
  <1>2. CASE UpdateAccount(s)
    <2>1. /\ ses[s].account \in Accounts
          /\ accounts[ses[s].account] \in AccountRow
          /\ ses[s].row \in AccountRow /\ ses[s].patch \in Patches
      BY <1>2 DEF UpdateAccount, Shape, ShapeOf
    <2>6. accounts' \in [Accounts -> AccountRow \cup {None}]
      BY <1>2, <2>1, UpdatedType DEF UpdateAccount
    <2>7. touched' \in [Accounts -> BOOLEAN]
      BY <1>2 DEF UpdateAccount
    <2> QED BY <1>2, <2>6, <2>7, BlankType DEF UpdateAccount, Close, PC
  <1>3. ASSUME NEW c \in Credentials, NEW status \in KeyStatuses,
               LoadCredential(s, c, status)
        PROVE  TypeOK'
    <2>1. /\ credentials[c].status \in CredentialStatus
          /\ status \in CredentialStatus /\ ses[s] \in Session
      BY <1>3, PatchesAssumption DEF LoadCredential, CredentialRow
    <2>2. ses' \in [Sessions -> Session]
      BY <1>3, <2>1, PatchingCredentialType DEF LoadCredential
    <2> QED BY <1>3, <2>2 DEF LoadCredential, PC
  <1>4. CASE UpdateCredential(s)
    <2>1. /\ ses[s].credential \in Credentials
          /\ credentials[ses[s].credential] \in CredentialRow
          /\ ses[s].newKey \in CredentialStatus
      BY <1>4 DEF UpdateCredential, Shape, ShapeOf
    <2>2. credentials' \in [Credentials -> CredentialRow \cup {None}]
      BY <1>4, <2>1 DEF UpdateCredential, CredentialRow
    <2> QED BY <1>4, <2>2, BlankType DEF UpdateCredential, Close, PC
  <1> QED BY <1>1, <1>2, <1>3, <1>4 DEF AdminStep

\* A pass with one more reading is well-typed.
LEMMA ReadType ==
    ASSUME NEW p \in Pass, NEW a \in Accounts, NEW x \in Balance
    PROVE  [p EXCEPT !.todo = p.todo \ {a}, !.reading[a] = x] \in Pass
  BY DEF Pass

\* The steps of a refresh pass keep the types.
LEMMA RefreshType ==
    ASSUME Base, NEW r \in Replicas, RefreshStep(r)
    PROVE  TypeOK'
  <1> USE NoneAssumption DEF Base, TypeOK, tables, history
  <1>1. NoPass \in Pass
    BY DEF NoPass, Pass, Balance
  <1>2. CASE StartPass(r)
    <2>1. \A a \in Accounts : (IF accounts[a] = None THEN None
                               ELSE accounts[a].remaining) \in Balance
      BY DEF AccountRow, Balance
    <2>2. refresh' \in [Replicas -> Pass]
      BY <1>2, <2>1 DEF StartPass, Pass, Balance
    <2> QED BY <1>2, <2>2 DEF StartPass
  <1>3. ASSUME NEW a \in Accounts, NEW x \in Readings \cup {None},
               ReadUpstream(r, a, x)
        PROVE  TypeOK'
    <2>1. [refresh[r] EXCEPT !.todo = refresh[r].todo \ {a},
                             !.reading[a] = x] \in Pass
      <3>1. refresh[r] \in Pass /\ x \in Balance
        BY ReadingsAssumption DEF Balance
      <3> QED BY <3>1, ReadType
    <2> QED BY <1>3, <2>1 DEF ReadUpstream
  <1>4. CASE CommitPass(r)
    <2>1. \A a \in Accounts : Refreshed(r, a) \in AccountRow \cup {None}
      <3> TAKE a \in Accounts
      <3>1. refresh[r].reading[a] \in Balance
        BY DEF Pass
      <3> QED BY <3>1 DEF Refreshed, PassShape, AccountRow
    <2> QED BY <1>1, <1>4, <2>1 DEF CommitPass
  <1>5. CASE FailPass(r)
    BY <1>1, <1>5 DEF FailPass
  <1> QED BY <1>2, <1>3, <1>4, <1>5 DEF RefreshStep

\* New accounts and credentials keep the types.
LEMMA CreateType ==
    ASSUME Base, CreateStep
    PROVE  TypeOK'
  <1> USE DEF Base, TypeOK, history
  <1>1. ASSUME NEW a \in Accounts, NEW x \in Readings \cup {None},
               CreateAccount(a, x)
        PROVE  TypeOK'
    BY <1>1, ReadingsAssumption
       DEF CreateAccount, AccountRow, AccountStatus, Balance
  <1>2. ASSUME NEW c \in Credentials, NEW a \in Accounts,
               NEW x \in KeyStatuses, CreateCredential(c, a, x)
        PROVE  TypeOK'
    BY <1>2, PatchesAssumption DEF CreateCredential, CredentialRow
  <1> QED BY <1>1, <1>2 DEF CreateStep

\* Every step keeps the types.
LEMMA StepType == Base /\ [Next]_vars => TypeOK'
  <1> SUFFICES ASSUME Base, [Next]_vars PROVE TypeOK'
    OBVIOUS
  <1>1. ASSUME NEW s \in Sessions, Abort(s) PROVE TypeOK'
    BY <1>1, BlankType DEF Abort, Release, PC, Base, TypeOK, tables, history
  <1>2. CASE UNCHANGED vars
    BY <1>2 DEF vars, Base, TypeOK
  <1> QED BY <1>1, <1>2, ProxyType, JobType, AdminType, RefreshType,
             CreateType DEF Next

-----------------------------------------------------------------------------
(* Rows are created and changed, never deleted, and never change owner *)

Growth ==
    /\ \A a \in Accounts : accounts[a] # None => accounts'[a] # None
    /\ \A c \in Credentials : credentials[c] # None =>
          /\ credentials'[c] # None
          /\ credentials'[c].account = credentials[c].account
    /\ \A c \in Credentials : credentials[c] = None /\ credentials'[c] # None =>
          accounts[credentials'[c].account] # None
    /\ \A j \in Jobs : jobs[j] # None =>
          /\ jobs'[j] # None
          /\ jobs'[j].account = jobs[j].account
          /\ jobs'[j].credential = jobs[j].credential
    /\ \A j \in Jobs : jobs[j] = None /\ jobs'[j] # None =>
          /\ accounts[jobs'[j].account] # None
          /\ credentials[jobs'[j].credential] # None
          /\ credentials[jobs'[j].credential].account = jobs'[j].account

\* proxy and submit_job delete no row and give none another owner.
LEMMA ProxyGrowth ==
    ASSUME Base, NEW s \in Sessions, ProxyStep(s)
    PROVE  Growth
  <1> USE NoneAssumption DEF Base, TypeOK, tables, history, Growth
  <1>1. CASE CommitSuccess(s)
    <2>1. /\ ses[s].row \in AccountRow /\ ses[s].credits \in Costs
          /\ ses[s].account \in Accounts
          /\ accounts[ses[s].account] \in AccountRow
      BY <1>1 DEF CommitSuccess, Shape, ShapeOf, UsesKey
    <2>2. Merge(accounts[ses[s].account], ses[s].row,
                ApplySuccess(ses[s].row, ses[s].credits)) # None
      BY <2>1, MergeType, ApplySuccessType
    <2> QED BY <1>1, <2>1, <2>2 DEF CommitSuccess
  <1>2. CASE CommitCreditExhausted(s)
    <2>1. /\ ses[s].row \in AccountRow /\ ses[s].account \in Accounts
          /\ accounts[ses[s].account] \in AccountRow
      BY <1>2 DEF CommitCreditExhausted, Shape, ShapeOf, UsesKey, UsesJob,
                  TerminalStatus
    <2>2. [ses[s].row EXCEPT !.status = "credit_exhausted"] \in AccountRow
      BY <2>1 DEF AccountRow, AccountStatus
    <2>3. Merge(accounts[ses[s].account], ses[s].row,
                [ses[s].row EXCEPT !.status = "credit_exhausted"]) # None
      BY <2>1, <2>2, MergeType
    <2> QED BY <1>2, <2>1, <2>3 DEF CommitCreditExhausted
  <1>3. CASE CommitRateLimited(s)
    <2>1. /\ ses[s].row \in AccountRow /\ ses[s].account \in Accounts
          /\ accounts[ses[s].account] \in AccountRow
      BY <1>3 DEF CommitRateLimited, Shape, ShapeOf, UsesKey, UsesJob,
                  TerminalStatus
    <2> DEFINE new == Merge(accounts[ses[s].account], ses[s].row,
                            [ses[s].row EXCEPT !.status = "rate_limited"])
    <2>2. [ses[s].row EXCEPT !.status = "rate_limited"] \in AccountRow
      BY <2>1 DEF AccountRow, AccountStatus
    <2>3. new \in AccountRow
      BY <2>1, <2>2, MergeType
    <2>4. accounts' = [accounts EXCEPT ![ses[s].account] =
                         [new EXCEPT !.cooldown = TRUE]]
      BY <1>3 DEF CommitRateLimited
    <2> HIDE DEF new
    <2>5. [new EXCEPT !.cooldown = TRUE] # None
      <3>1. [new EXCEPT !.cooldown = TRUE] \in AccountRow
        BY <2>3 DEF AccountRow
      <3> QED BY <3>1
    <2> QED BY <1>3, <2>1, <2>4, <2>5 DEF CommitRateLimited
  <1>4. CASE CommitCredentialInvalid(s)
    <2> DEFINE c == ses[s].credential
               new == [credentials[c] EXCEPT !.status =
                         IF ses[s].key # "invalid" THEN "invalid" ELSE @]
    <2>1. c \in Credentials /\ credentials[c] \in CredentialRow
      BY <1>4 DEF CommitCredentialInvalid, Shape, ShapeOf, UsesKey,
                  TerminalStatus
    <2>2. credentials' = [credentials EXCEPT ![c] = new]
      BY <1>4, <2>1 DEF CommitCredentialInvalid, CredentialRow
    <2>3. new \in CredentialRow /\ new.account = credentials[c].account
      BY <2>1 DEF CredentialRow, CredentialStatus
    <2> HIDE DEF c, new
    <2> QED BY <1>4, <2>1, <2>2, <2>3 DEF CommitCredentialInvalid
  <1>5. ASSUME NEW j \in Jobs, CommitSubmit(s, j) PROVE Growth
    <2>1. UsesKey(s)
      BY <1>5 DEF CommitSubmit, Shape, ShapeOf
    <2> QED BY <1>5, <2>1 DEF CommitSubmit, UsesKey
  <1>6. CASE UNCHANGED tables
    BY <1>6
  <1> QED BY <1>1, <1>2, <1>3, <1>4, <1>5, <1>6
          DEF ProxyStep, ListAccounts, SelectAccount, RejectRequest,
              LoadForOutcome, CommitLogOnly

\* Nor does proxy_job_operation.
LEMMA JobGrowth ==
    ASSUME Base, NEW s \in Sessions, JobStep(s)
    PROVE  Growth
  <1> USE NoneAssumption DEF Base, TypeOK, tables, history, Growth
  <1>1. CASE CommitSettlement(s)
    <2> DEFINE j == ses[s].job
               a == ses[s].account
               new == WithStatus(jobs[j], ses[s].jobRow, ses[s].status)
               fin == [new EXCEPT !.final = ses[s].credits]
               row == Merge(accounts[a], ses[s].row,
                            ApplySuccess(ses[s].row, ses[s].credits))
    <2>1. /\ j \in Jobs /\ jobs[j] \in JobRow
          /\ a \in Accounts /\ accounts[a] \in AccountRow
          /\ ses[s].status \in JobStatus /\ ses[s].credits \in Costs
          /\ ses[s].row \in AccountRow
      BY <1>1 DEF CommitSettlement, Shape, ShapeOf, UsesJob, Rows,
                  TerminalStatus, JobStatus, JobRow
    <2>2. row # None
      BY <2>1, MergeType, ApplySuccessType
    <2>3. /\ new \in JobRow
          /\ new.account = jobs[j].account
          /\ new.credential = jobs[j].credential
      BY <2>1 DEF WithStatus, JobRow
    <2>4. /\ fin \in JobRow
          /\ fin.account = new.account /\ fin.credential = new.credential
      <3> HIDE DEF new
      <3> QED BY <2>1, <2>3, CostsAssumption DEF JobRow, Balance
    <2>5. /\ accounts' = [accounts EXCEPT ![a] = row]
          /\ jobs' = [jobs EXCEPT ![j] = fin]
          /\ UNCHANGED credentials
      BY <1>1 DEF CommitSettlement
    <2> HIDE DEF j, a, new, fin, row
    <2> QED BY <2>1, <2>2, <2>3, <2>4, <2>5
  <1>2. ASSUME NEW status \in JobStatus \cup {None},
               CommitPoll(s, status) \/ CommitCancel(s, status)
        PROVE  Growth
    <2>1. /\ ses[s].job \in Jobs /\ jobs[ses[s].job] \in JobRow
          /\ ses[s].jobRow \in JobRow
      BY <1>2 DEF CommitPoll, CommitCancel, Shape, ShapeOf, UsesJob
    <2>2. PICK x \in JobStatus :
             jobs' = [jobs EXCEPT ![ses[s].job] =
                        WithStatus(@, ses[s].jobRow, x)]
      BY <1>2, <2>1 DEF CommitPoll, CommitCancel, JobStatus, JobRow
    <2> DEFINE new == WithStatus(jobs[ses[s].job], ses[s].jobRow, x)
    <2>3. /\ new \in JobRow
          /\ new.account = jobs[ses[s].job].account
          /\ new.credential = jobs[ses[s].job].credential
      BY <2>1 DEF WithStatus, JobRow
    <2>4. jobs' = [jobs EXCEPT ![ses[s].job] = new]
      BY <2>2
    <2> HIDE DEF new
    <2> QED BY <1>2, <2>1, <2>3, <2>4 DEF CommitPoll, CommitCancel
  <1>3. CASE UNCHANGED tables
    BY <1>3
  <1> QED BY <1>1, <1>2, <1>3
          DEF JobStep, GetJob, LoadForSettlement, PassThrough

\* Nor do the operator's updates.
LEMMA AdminGrowth ==
    ASSUME Base, NEW s \in Sessions, AdminStep(s)
    PROVE  Growth
  <1> USE NoneAssumption DEF Base, TypeOK, tables, history, Growth
  <1>1. CASE UpdateAccount(s)
    <2>1. /\ ses[s].account \in Accounts
          /\ accounts[ses[s].account] \in AccountRow
          /\ ses[s].row \in AccountRow /\ ses[s].patch \in Patches
      BY <1>1 DEF UpdateAccount, Shape, ShapeOf
    <2>2. Updated(accounts[ses[s].account], ses[s].row, ses[s].patch)
             \in AccountRow
      BY <2>1, UpdatedType
    <2> QED BY <1>1, <2>1, <2>2 DEF UpdateAccount
  <1>2. CASE UpdateCredential(s)
    <2> DEFINE c == ses[s].credential
               new == [credentials[c] EXCEPT !.status =
                         IF ses[s].newKey # ses[s].key THEN ses[s].newKey
                         ELSE @]
    <2>1. /\ c \in Credentials /\ credentials[c] \in CredentialRow
          /\ ses[s].newKey \in CredentialStatus
      BY <1>2 DEF UpdateCredential, Shape, ShapeOf
    <2>2. credentials' = [credentials EXCEPT ![c] = new]
      BY <1>2, <2>1 DEF UpdateCredential, CredentialRow
    <2>3. new \in CredentialRow /\ new.account = credentials[c].account
      BY <2>1 DEF CredentialRow
    <2> HIDE DEF c, new
    <2> QED BY <1>2, <2>1, <2>2, <2>3 DEF UpdateCredential
  <1>3. CASE UNCHANGED tables
    BY <1>3
  <1> QED BY <1>1, <1>2, <1>3 DEF AdminStep, LoadAccount, LoadCredential

\* Nor do new accounts and credentials.
LEMMA CreateGrowth ==
    ASSUME Base, CreateStep
    PROVE  Growth
  <1> USE NoneAssumption DEF Base, TypeOK, history, Growth
  <1>1. ASSUME NEW a \in Accounts, NEW x \in Readings \cup {None},
               CreateAccount(a, x)
        PROVE  Growth
    <2>1. [status |-> "active", remaining |-> x, cooldown |-> FALSE] # None
      <3>1. [status |-> "active", remaining |-> x, cooldown |-> FALSE]
               \in AccountRow
        BY ReadingsAssumption DEF AccountRow, AccountStatus, Balance
      <3> QED BY <3>1
    <2> QED BY <1>1, <2>1 DEF CreateAccount
  <1>2. ASSUME NEW c \in Credentials, NEW a \in Accounts,
               NEW x \in KeyStatuses, CreateCredential(c, a, x)
        PROVE  Growth
    BY <1>2 DEF CreateCredential
  <1> QED BY <1>1, <1>2 DEF CreateStep

\* Nor does a refresh pass.
LEMMA RefreshGrowth ==
    ASSUME Base, NEW r \in Replicas, RefreshStep(r)
    PROVE  Growth
  <1> USE NoneAssumption DEF Base, TypeOK, tables, history, Growth
  <1>1. CASE CommitPass(r)
    <2>1. \A a \in Accounts : accounts[a] # None => Refreshed(r, a) # None
      <3> SUFFICES ASSUME NEW a \in Accounts, accounts[a] # None
                   PROVE  Refreshed(r, a) # None
        OBVIOUS
      <3>1. refresh[r].reading[a] \in Balance
        BY DEF Pass
      <3>2. Refreshed(r, a) \in AccountRow
        BY <3>1 DEF Refreshed, AccountRow
      <3> QED BY <3>2
    <2> QED BY <1>1, <2>1 DEF CommitPass
  <1>2. CASE UNCHANGED tables
    BY <1>2
  <1> QED BY <1>1, <1>2 DEF RefreshStep, StartPass, ReadUpstream, FailPass

\* No step deletes a row or gives one another owner.
LEMMA StepGrowth == Base /\ [Next]_vars => Growth
  <1>1. ASSUME Base, UNCHANGED tables PROVE Growth
    BY <1>1 DEF Growth, tables
  <1> QED BY <1>1, ProxyGrowth, JobGrowth, AdminGrowth, CreateGrowth,
             RefreshGrowth DEF Next, Abort, vars, tables

-----------------------------------------------------------------------------
(* The invariant Base *)

\* Every step keeps the foreign keys.
LEMMA RowsStep ==
    ASSUME Base, Growth, TypeOK'
    PROVE  Rows'
  <1>1. \A c \in Credentials : credentials[c] # None =>
           /\ credentials[c].account \in Accounts
           /\ accounts[credentials[c].account] # None
    BY DEF Base, TypeOK, Rows, CredentialRow
  <1>2. \A c \in Credentials : credentials'[c] # None =>
           credentials'[c].account \in Accounts
    BY DEF TypeOK, CredentialRow
  <1>3. \A j \in Jobs : jobs'[j] # None =>
           /\ jobs'[j].account \in Accounts
           /\ jobs'[j].credential \in Credentials
    BY DEF TypeOK, JobRow
  <1>4. \A c \in Credentials : credentials'[c] # None =>
           accounts'[credentials'[c].account] # None
    BY <1>1, <1>2 DEF Growth
  <1>5. \A j \in Jobs : jobs'[j] # None =>
           /\ accounts'[jobs'[j].account] # None
           /\ credentials'[jobs'[j].credential] # None
           /\ credentials'[jobs'[j].credential].account = jobs'[j].account
    BY <1>3 DEF Growth, Base, Rows
  <1> QED BY <1>4, <1>5 DEF Rows

\* A handler that is not the one taking the step stays in shape.
LEMMA OtherShape ==
    ASSUME Base, Growth, NEW t \in Sessions,
           pc'[t] = pc[t], ses'[t] = ses[t]
    PROVE  ShapeOf(t)'
  <1>1. ShapeOf(t) /\ ses[t].seen \in SUBSET Accounts
    BY DEF Base, Shape, TypeOK, Session
  <1>2. UsesKey(t) => UsesKey(t)'
    BY DEF UsesKey, Growth
  <1>3. UsesJob(t) => UsesJob(t)'
    BY DEF UsesJob, Growth
  <1> QED BY <1>1, <1>2, <1>3 DEF ShapeOf, Growth

\* The handlers other than s, and the refresh passes, are left alone.
OthersUnchanged(s) ==
    /\ \A t \in Sessions \ {s} : pc'[t] = pc[t] /\ ses'[t] = ses[t]
    /\ UNCHANGED refresh

\* Ending one handler leaves what the others hold alone.
LEMMA CloseOthers ==
    ASSUME TypeOK, NEW s \in Sessions, Close(s), UNCHANGED refresh
    PROVE  OthersUnchanged(s)
  BY DEF TypeOK, Close, OthersUnchanged

\* A step of proxy or submit_job leaves what other handlers hold alone.
LEMMA ProxyOthers ==
    ASSUME TypeOK, NEW s \in Sessions, ProxyStep(s)
    PROVE  OthersUnchanged(s)
  <1>1. ASSUME NEW op, NEW est, ListAccounts(s, op, est)
        PROVE  OthersUnchanged(s)
    BY <1>1 DEF TypeOK, ListAccounts, OthersUnchanged
  <1>2. ASSUME NEW status, NEW credits, LoadForOutcome(s, status, credits)
        PROVE  OthersUnchanged(s)
    BY <1>2 DEF TypeOK, LoadForOutcome, OthersUnchanged
  <1>3. CASE SelectAccount(s)
    BY <1>3 DEF TypeOK, SelectAccount, OthersUnchanged
  <1> QED BY <1>1, <1>2, <1>3, CloseOthers
          DEF ProxyStep, RejectRequest, CommitSuccess, CommitCreditExhausted,
              CommitRateLimited, CommitCredentialInvalid, CommitLogOnly,
              CommitSubmit

\* So does a step of proxy_job_operation.
LEMMA JobOthers ==
    ASSUME TypeOK, NEW s \in Sessions, JobStep(s)
    PROVE  OthersUnchanged(s)
  <1>1. ASSUME NEW j, NEW method, GetJob(s, j, method)
        PROVE  OthersUnchanged(s)
    BY <1>1 DEF TypeOK, GetJob, OthersUnchanged
  <1>2. ASSUME NEW status, NEW credits, LoadForSettlement(s, status, credits)
        PROVE  OthersUnchanged(s)
    BY <1>2 DEF TypeOK, LoadForSettlement, OthersUnchanged
  <1> QED BY <1>1, <1>2, CloseOthers
          DEF JobStep, CommitSettlement, CommitPoll, CommitCancel, PassThrough

\* So does a step of an operator's update.
LEMMA AdminOthers ==
    ASSUME TypeOK, NEW s \in Sessions, AdminStep(s)
    PROVE  OthersUnchanged(s)
  BY CloseOthers DEF TypeOK, AdminStep, LoadAccount, UpdateAccount,
                     LoadCredential, UpdateCredential, OthersUnchanged

\* A handler that has ended is in shape.
LEMMA ClosedShape ==
    ASSUME NEW s \in Sessions, pc'[s] \in {"idle", "failed"}, ses'[s] = Blank
    PROVE  ShapeOf(s)'
  BY DEF ShapeOf

\* proxy and submit_job hold at each point what the code has computed there.
LEMMA ProxyShape ==
    ASSUME Base, Growth, TypeOK', NEW s \in Sessions, ProxyStep(s)
    PROVE  Shape'
  <1> USE NoneAssumption DEF Base, TypeOK
  <1>1. ASSUME NEW op \in {"proxy", "submit_job"}, NEW est \in Costs,
               ListAccounts(s, op, est)
        PROVE  ShapeOf(s)'
    <2> DEFINE S == {a \in Accounts : Routable(accounts[a], est)}
    <2>1. ses[s] \in Session /\ ses[s] = Blank
      BY <1>1 DEF ListAccounts, Shape, ShapeOf
    <2>2. ses[s].job = None
      BY <2>1 DEF Blank
    <2>3. /\ pc'[s] = "listed"
          /\ ses'[s] = [ses[s] EXCEPT !.op = op, !.seen = S]
      BY <1>1 DEF ListAccounts
    <2>4. \A a \in S : accounts'[a] # None
      BY DEF Routable, Growth
    <2> HIDE DEF S
    <2>5. ses'[s].op = op /\ ses'[s].job = None /\ ses'[s].seen = S
      BY <2>1, <2>2, <2>3 DEF Session
    <2> QED BY <2>3, <2>4, <2>5 DEF ShapeOf
  <1>2. ASSUME SelectAccount(s) PROVE ShapeOf(s)'
    <2>1. PICK a \in ses[s].seen, c \in Credentials :
             /\ c \in ActiveCredentials(a)
             /\ ses' = [ses EXCEPT ![s] = [@ EXCEPT !.seen = {}, !.account = a,
                                                    !.credential = c]]
      BY <1>2 DEF SelectAccount, ActiveCredentials
    <2>2. /\ ses[s] \in Session /\ a \in Accounts /\ accounts[a] # None
          /\ ses[s].op \in {"proxy", "submit_job"} /\ ses[s].job = None
          /\ c \in Credentials
          /\ credentials[c] # None /\ credentials[c].account = a
      BY <1>2, <2>1 DEF SelectAccount, Shape, ShapeOf, Session,
                        ActiveCredentials
    <2>3. pc'[s] = "forwarded"
      BY <1>2 DEF SelectAccount
    <2>4. ses'[s] = [ses[s] EXCEPT !.seen = {}, !.account = a,
                                   !.credential = c]
      BY <2>1
    <2>5. /\ ses'[s].account = a /\ ses'[s].credential = c
          /\ ses'[s].op = ses[s].op /\ ses'[s].job = None
      BY <2>2, <2>4 DEF Session
    <2>6. UsesKey(s)'
      BY <2>2, <2>5 DEF UsesKey, Growth
    <2> QED BY <2>2, <2>5, <2>6, <2>3 DEF ShapeOf
  <1>3. ASSUME NEW status \in {"success", "credential_invalid",
                               "credit_exhausted", "rate_limited"},
               NEW credits \in Costs \cup {None},
               status = "success" => credits \in Costs,
               LoadForOutcome(s, status, credits)
        PROVE  ShapeOf(s)'
    <2> DEFINE row == IF status = "credential_invalid" THEN None
                      ELSE accounts[ses[s].account]
               key == IF status = "credential_invalid"
                      THEN credentials[ses[s].credential].status ELSE None
    <2>1. /\ ses[s] \in Session
          /\ ses[s].op \in {"proxy", "submit_job"} /\ ses[s].job = None
          /\ UsesKey(s)
          /\ status = "success" => ses[s].op = "proxy"
      BY <1>3 DEF LoadForOutcome, Shape, ShapeOf, ChangesRow
    <2>2. status # "credential_invalid" => row \in AccountRow
      BY <2>1 DEF UsesKey
    <2>3. /\ ses' = [ses EXCEPT ![s] = [@ EXCEPT !.status = status,
                       !.credits = credits, !.row = row, !.key = key]]
          /\ pc'[s] = "loaded"
      BY <1>3 DEF LoadForOutcome
    <2> HIDE DEF row, key
    <2>4. /\ ses'[s].op = ses[s].op /\ ses'[s].job = ses[s].job
          /\ ses'[s].account = ses[s].account
          /\ ses'[s].credential = ses[s].credential
          /\ ses'[s].status = status /\ ses'[s].credits = credits
          /\ ses'[s].row = row
      BY <2>1, <2>3 DEF Session
    <2>5. UsesKey(s)'
      BY <2>1, <2>4 DEF UsesKey, Growth
    <2> QED BY <1>3, <2>1, <2>2, <2>3, <2>4, <2>5 DEF ShapeOf
  <1>4. ASSUME Close(s) PROVE ShapeOf(s)'
    BY <1>4, ClosedShape DEF Close
  <1>5. ShapeOf(s)'
    BY <1>1, <1>2, <1>3, <1>4
       DEF ProxyStep, RejectRequest, CommitSuccess, CommitCreditExhausted,
           CommitRateLimited, CommitCredentialInvalid, CommitLogOnly,
           CommitSubmit
  <1>6. OthersUnchanged(s)
    BY ProxyOthers
  <1> QED BY <1>5, <1>6, OtherShape DEF OthersUnchanged, Shape

\* So does proxy_job_operation.
LEMMA JobShape ==
    ASSUME Base, Growth, TypeOK', NEW s \in Sessions, JobStep(s)
    PROVE  Shape'
  <1> USE NoneAssumption DEF Base, TypeOK
  <1>1. ASSUME NEW j \in Jobs, NEW method \in {"GET", "DELETE"},
               GetJob(s, j, method)
        PROVE  ShapeOf(s)'
    <2>1. /\ ses[s] \in Session /\ jobs[j] \in JobRow
          /\ pc'[s] = "polling"
          /\ ses' = [ses EXCEPT ![s] = [@ EXCEPT !.op = method, !.job = j,
                       !.jobRow = jobs[j], !.account = jobs[j].account,
                       !.credential = jobs[j].credential]]
      BY <1>1 DEF GetJob, JobKey
    <2>2. /\ ses'[s].op = method /\ ses'[s].job = j
          /\ ses'[s].jobRow = jobs[j]
          /\ ses'[s].account = jobs[j].account
          /\ ses'[s].credential = jobs[j].credential
      BY <2>1 DEF Session
    <2>3. UsesJob(s)'
      BY <2>1, <2>2 DEF UsesJob, Growth
    <2> QED BY <2>1, <2>2, <2>3 DEF ShapeOf
  <1>2. ASSUME NEW status \in TerminalStatus, NEW credits \in Costs,
               LoadForSettlement(s, status, credits)
        PROVE  ShapeOf(s)'
    <2>1. /\ ses[s] \in Session /\ ses[s].op = "GET" /\ UsesJob(s)
          /\ ses[s].jobRow.final = None
          /\ ses[s].account \in Accounts
          /\ accounts[ses[s].account] \in AccountRow
      BY <1>2 DEF LoadForSettlement, Unsettled, Shape, ShapeOf, UsesJob, Rows,
                  JobRow
    <2>2. /\ pc'[s] = "loaded"
          /\ ses'[s].op = "GET" /\ ses'[s].job = ses[s].job
          /\ ses'[s].jobRow = ses[s].jobRow
          /\ ses'[s].account = ses[s].account
          /\ ses'[s].credential = ses[s].credential
          /\ ses'[s].status = status /\ ses'[s].credits = credits
          /\ ses'[s].row = accounts[ses[s].account]
      BY <1>2, <2>1 DEF LoadForSettlement, Session
    <2>3. UsesJob(s)'
      BY <2>1, <2>2 DEF UsesJob, Growth
    <2> QED BY <2>1, <2>2, <2>3 DEF ShapeOf
  <1>3. ASSUME Close(s) PROVE ShapeOf(s)'
    BY <1>3, ClosedShape DEF Close
  <1>4. ShapeOf(s)'
    BY <1>1, <1>2, <1>3
       DEF JobStep, CommitSettlement, CommitPoll, CommitCancel, PassThrough
  <1>5. OthersUnchanged(s)
    BY JobOthers
  <1> QED BY <1>4, <1>5, OtherShape DEF OthersUnchanged, Shape

\* So do the operator's updates.
LEMMA AdminShape ==
    ASSUME Base, Growth, TypeOK', NEW s \in Sessions, AdminStep(s)
    PROVE  Shape'
  <1> USE NoneAssumption DEF Base, TypeOK
  <1>1. ASSUME NEW a \in Accounts, NEW p \in Patches, LoadAccount(s, a, p)
        PROVE  ShapeOf(s)'
    <2>1. ses[s] \in Session /\ ses[s] = Blank /\ accounts[a] \in AccountRow
      BY <1>1 DEF LoadAccount, Shape, ShapeOf
    <2>2. /\ pc'[s] = "patching"
          /\ ses'[s].op = "update_account" /\ ses'[s].job = None
          /\ ses'[s].account = a /\ ses'[s].row = accounts[a]
          /\ ses'[s].patch = p
      BY <1>1, <2>1 DEF LoadAccount, Session, Blank
    <2> QED BY <1>1, <2>1, <2>2 DEF ShapeOf, LoadAccount, Growth
  <1>2. ASSUME NEW c \in Credentials, NEW status \in KeyStatuses,
               LoadCredential(s, c, status)
        PROVE  ShapeOf(s)'
    <2>1. ses[s] \in Session /\ ses[s] = Blank
      BY <1>2 DEF LoadCredential, Shape, ShapeOf
    <2>2. /\ pc'[s] = "patching"
          /\ ses'[s].op = "update_credential" /\ ses'[s].job = None
          /\ ses'[s].credential = c /\ ses'[s].newKey = status
      BY <1>2, <2>1 DEF LoadCredential, Session, Blank
    <2> QED BY <1>2, <2>1, <2>2, PatchesAssumption
            DEF ShapeOf, LoadCredential, Growth
  <1>3. ASSUME Close(s) PROVE ShapeOf(s)'
    BY <1>3, ClosedShape DEF Close
  <1>4. ShapeOf(s)'
    BY <1>1, <1>2, <1>3 DEF AdminStep, UpdateAccount, UpdateCredential
  <1>5. OthersUnchanged(s)
    BY AdminOthers
  <1> QED BY <1>4, <1>5, OtherShape DEF OthersUnchanged, Shape

\* Every step keeps the shape of what the handlers hold.
LEMMA StepShape ==
    ASSUME Base, Growth, TypeOK', [Next]_vars
    PROVE  Shape'
  <1>1. ASSUME NEW s \in Sessions, Abort(s) PROVE Shape'
    <2>1. ShapeOf(s)'
      BY <1>1, ClosedShape DEF Abort, Base, TypeOK
    <2>2. \A t \in Sessions \ {s} : pc'[t] = pc[t] /\ ses'[t] = ses[t]
      BY <1>1 DEF Abort, Base, TypeOK
    <2> QED BY <2>1, <2>2, OtherShape DEF Shape
  <1>2. CASE UNCHANGED <<pc, ses>>
    BY <1>2, OtherShape DEF Shape
  <1> QED BY <1>1, <1>2, ProxyShape, JobShape, AdminShape
          DEF Next, CreateStep, CreateAccount, CreateCredential, RefreshStep,
              StartPass, ReadUpstream, CommitPass, FailPass, vars

\* A refresh pass has readings only for accounts that exist.
LEMMA StepPass ==
    ASSUME Base, Growth, [Next]_vars
    PROVE  PassShape'
  <1> USE DEF Base, TypeOK
  <1>1. CASE UNCHANGED refresh
    BY <1>1 DEF PassShape, Growth
  <1>2. ASSUME NEW r \in Replicas, RefreshStep(r) PROVE PassShape'
    <2>1. CASE StartPass(r)
      BY <2>1 DEF StartPass, PassShape, Growth
    <2>2. ASSUME NEW a \in Accounts, NEW x \in Readings \cup {None},
                 ReadUpstream(r, a, x)
          PROVE  PassShape'
      <3>1. refresh[r] \in Pass
        OBVIOUS
      <3>2. /\ refresh'[r].todo \subseteq refresh[r].todo
            /\ \A b \in Accounts \ {a} :
                  refresh'[r].reading[b] = refresh[r].reading[b]
        BY <2>2, <3>1 DEF ReadUpstream, Pass
      <3>3. accounts[a] # None
        BY <2>2 DEF ReadUpstream, PassShape
      <3>4. \A q \in Replicas \ {r} : refresh'[q] = refresh[q]
        BY <2>2 DEF ReadUpstream
      <3> QED BY <3>2, <3>3, <3>4 DEF PassShape, Growth
    <2>3. CASE CommitPass(r) \/ FailPass(r)
      BY <2>3 DEF CommitPass, FailPass, NoPass, PassShape, Growth
    <2> QED BY <1>2, <2>1, <2>2, <2>3 DEF RefreshStep
  <1>3. ASSUME NEW s \in Sessions, ProxyStep(s) \/ JobStep(s) \/ AdminStep(s)
        PROVE  UNCHANGED refresh
    BY <1>3, ProxyOthers, JobOthers, AdminOthers DEF OthersUnchanged
  <1> QED BY <1>1, <1>2, <1>3
          DEF Next, CreateStep, CreateAccount, CreateCredential, Abort, vars

\* The invariant holds of empty tables.
LEMMA InitBase == Init => Base
  <1> SUFFICES ASSUME Init PROVE Base
    OBVIOUS
  <1>1. NoPass \in Pass
    BY DEF NoPass, Pass, Balance
  <1>2. TypeOK
    BY <1>1, BlankType DEF Init, TypeOK, PC
  <1>3. Rows /\ Shape /\ PassShape
    BY DEF Init, Rows, Shape, ShapeOf, PassShape, NoPass
  <1> QED BY <1>2, <1>3 DEF Base

\* The invariant is inductive.
LEMMA StepBase == Base /\ [Next]_vars => Base'
  BY StepType, StepGrowth, RowsStep, StepShape, StepPass DEF Base

\* The invariant holds in every reachable state.
LEMMA AlwaysBase == Spec => []Base
  BY InitBase, StepBase, PTL DEF Spec

\* Type correctness: whatever the interleaving of handlers, operators, refresh
\* passes and aborts, and on either database, balances stay natural numbers or
\* NULL, statuses are ones the code knows, and a handler never follows a
\* reference to a row that is not there.
THEOREM TypeCorrect == Spec => []TypeOK
  BY AlwaysBase, PTL DEF Base

\* proxy_job_operation: a job's row names a key of the account that pays for
\* it, and each status or cancel call uses that key and that account.
THEOREM JobsKeepTheirKeyCorrect == Spec => []JobsKeepTheirKey
  <1>1. Base => JobsKeepTheirKey
    <2> SUFFICES ASSUME Base PROVE JobsKeepTheirKey
      OBVIOUS
    <2>1. \A s \in Sessions : ses[s].job # None => UsesJob(s)
      BY DEF Base, TypeOK, PC, Shape, ShapeOf, Blank
    <2> QED BY <2>1 DEF Base, Rows, UsesJob, JobsKeepTheirKey
  <1> QED BY <1>1, AlwaysBase, PTL

-----------------------------------------------------------------------------
\* A job is charged once as long as its status polls do not overlap, on SQLite
\* and on PostgreSQL.

\* Nothing that Settled says of job j changes, but polls may end.
SameJob(j) ==
    /\ settlements'[j] = settlements[j]
    /\ overlapped'[j] = overlapped[j]
    /\ jobs'[j] = None <=> jobs[j] = None
    /\ jobs[j] # None => jobs'[j].final = jobs[j].final
    /\ \A t \in PollsOf(j)' : /\ t \in PollsOf(j)
                              /\ ses'[t].jobRow = ses[t].jobRow

SettledAt(j) == ~overlapped[j] =>
    /\ settlements[j] <= 1
    /\ jobs[j] = None => settlements[j] = 0
    /\ jobs[j] # None /\ jobs[j].final = None => settlements[j] = 0
    /\ \A s, t \in PollsOf(j) : s = t
    /\ \A s \in PollsOf(j) : ses[s].jobRow.final = jobs[j].final

\* Settled, job by job.
LEMMA SettledParts == Settled <=> \A j \in Jobs : SettledAt(j)
  BY DEF Settled, SettledAt

\* A job with a poll under way has a row.
LEMMA PollsHaveRows ==
    ASSUME Base, NEW j \in Jobs, NEW t \in PollsOf(j)
    PROVE  /\ t \in Sessions /\ jobs[j] \in JobRow
           /\ ses[t].jobRow \in JobRow
  BY DEF Base, TypeOK, Shape, ShapeOf, UsesJob, PollsOf

\* A step that leaves a job, its polls and its history alone keeps its part.
LEMMA SameSettled ==
    ASSUME Base, NEW j \in Jobs, SettledAt(j), SameJob(j)
    PROVE  SettledAt(j)'
  <1>1. \A t \in PollsOf(j) : jobs[j] # None
    BY PollsHaveRows, NoneAssumption
  <1> QED BY <1>1 DEF SettledAt, SameJob

\* A step of s that leaves the tables alone and starts no poll.
LEMMA NoPollStarted ==
    ASSUME TypeOK, NEW s \in Sessions, OthersUnchanged(s),
           UNCHANGED <<settlements, overlapped>>,
           NEW j \in Jobs,
           jobs'[j] = None <=> jobs[j] = None,
           jobs[j] # None => jobs'[j].final = jobs[j].final,
           s \in PollsOf(j)' => /\ s \in PollsOf(j)
                                /\ ses'[s].jobRow = ses[s].jobRow
    PROVE  SameJob(j)
  <1>1. \A t \in Sessions \ {s} : t \in PollsOf(j)' <=> t \in PollsOf(j)
    BY DEF PollsOf, OthersUnchanged
  <1>2. PollsOf(j)' \subseteq Sessions
    BY DEF PollsOf
  <1> QED BY <1>1, <1>2 DEF SameJob, OthersUnchanged

\* proxy and submit_job keep Settled: a new job was never charged.
LEMMA ProxySettled ==
    ASSUME Base, NEW s \in Sessions, ProxyStep(s), NEW k \in Jobs, SettledAt(k)
    PROVE  SettledAt(k)'
  <1> USE NoneAssumption DEF Base, TypeOK, tables, history
  <1>1. OthersUnchanged(s)
    BY ProxyOthers
  <1>2. CASE UNCHANGED <<jobs, settlements, overlapped>> /\ s \notin PollsOf(k)'
    <2>1. SameJob(k)
      BY <1>1, <1>2, NoPollStarted
    <2> QED BY <2>1, SameSettled
  <1>3. ASSUME NEW op \in {"proxy", "submit_job"}, NEW est \in Costs,
               ListAccounts(s, op, est)
        PROVE  SettledAt(k)'
    BY <1>2, <1>3 DEF ListAccounts, PollsOf
  <1>4. CASE SelectAccount(s)
    BY <1>2, <1>4 DEF SelectAccount, PollsOf
  <1>5. CASE Close(s) /\ UNCHANGED <<jobs, settlements, overlapped>>
    BY <1>2, <1>5 DEF Close, PollsOf
  <1>6. ASSUME NEW status, NEW credits, LoadForOutcome(s, status, credits)
        PROVE  SettledAt(k)'
    <2> DEFINE row == IF status = "credential_invalid" THEN None
                      ELSE accounts[ses[s].account]
               key == IF status = "credential_invalid"
                      THEN credentials[ses[s].credential].status ELSE None
    <2>1. /\ ses[s] \in Session
          /\ ses'[s] = [ses[s] EXCEPT !.status = status, !.credits = credits,
                                      !.row = row, !.key = key]
          /\ ses[s].op \in {"proxy", "submit_job"}
          /\ UNCHANGED <<jobs, settlements, overlapped>>
      BY <1>6 DEF LoadForOutcome, Shape, ShapeOf
    <2> HIDE DEF row, key
    <2>2. ses'[s].op = ses[s].op
      BY <2>1 DEF Session
    <2>3. s \notin PollsOf(k)'
      BY <2>1, <2>2 DEF PollsOf
    <2> QED BY <1>2, <2>1, <2>3
  <1>7. ASSUME NEW j \in Jobs, CommitSubmit(s, j)
        PROVE  SettledAt(k)'
    <2>1. /\ s \notin PollsOf(k)' /\ UNCHANGED <<settlements, overlapped>>
          /\ jobs[j] = None
      BY <1>7 DEF CommitSubmit, Close, PollsOf
    <2>2. CASE k # j
      <3>1. jobs'[k] = jobs[k]
        BY <1>7, <2>2 DEF CommitSubmit
      <3>2. SameJob(k)
        BY <1>1, <2>1, <3>1, NoPollStarted
      <3> QED BY <3>2, SameSettled
    <2>3. CASE k = j
      <3>1. PollsOf(j) = {}
        <4>1. \A t \in PollsOf(j) : FALSE
          BY <2>1, PollsHaveRows
        <4> QED BY <4>1
      <3>2. PollsOf(j)' = {}
        BY <1>1, <2>1, <2>3, <3>1 DEF PollsOf, OthersUnchanged
      <3>3. settlements'[j] = settlements[j] /\ overlapped'[j] = overlapped[j]
        BY <2>1
      <3>4. SettledAt(j)
        BY <2>3
      <3>5. ~overlapped[j] => settlements[j] = 0
        BY <2>1, <3>4 DEF SettledAt
      <3> QED BY <2>3, <3>2, <3>3, <3>5 DEF SettledAt
    <2> QED BY <2>2, <2>3
  <1> QED BY <1>3, <1>4, <1>5, <1>6, <1>7
          DEF ProxyStep, RejectRequest, CommitSuccess, CommitCreditExhausted,
              CommitRateLimited, CommitCredentialInvalid, CommitLogOnly

\* proxy_job_operation keeps Settled: settle_job_once charges an unsettled job.
LEMMA JobSettled ==
    ASSUME Base, NEW s \in Sessions, JobStep(s), NEW k \in Jobs, SettledAt(k)
    PROVE  SettledAt(k)'
  <1> USE NoneAssumption DEF Base, TypeOK, tables, history
  <1>1. OthersUnchanged(s)
    BY JobOthers
  <1>2. ASSUME NEW j \in Jobs, NEW method \in {"GET", "DELETE"},
               GetJob(s, j, method)
        PROVE  SettledAt(k)'
    <2>1. /\ ses[s] \in Session
          /\ pc[s] \in {"idle", "failed"} /\ pc'[s] = "polling"
          /\ jobs[j] \in JobRow
          /\ UNCHANGED <<jobs, settlements>>
          /\ \A i \in Jobs \ {j} : overlapped'[i] = overlapped[i]
          /\ overlapped'[j] = (overlapped[j] \/ (method = "GET" /\ PollsOf(j) # {}))
          /\ ses'[s] = [ses[s] EXCEPT !.op = method, !.job = j,
                          !.jobRow = jobs[j], !.account = jobs[j].account,
                          !.credential = jobs[j].credential]
      BY <1>2 DEF GetJob, JobKey
    <2>2. ses'[s].op = method /\ ses'[s].job = j /\ ses'[s].jobRow = jobs[j]
      BY <2>1 DEF Session
    <2>3. s \notin PollsOf(k)
      BY <2>1 DEF PollsOf
    <2>4. \A t \in Sessions \ {s} :
             /\ t \in PollsOf(k)' <=> t \in PollsOf(k)
             /\ ses'[t] = ses[t]
      BY <1>1 DEF PollsOf, OthersUnchanged
    <2>5. PollsOf(k)' \subseteq Sessions /\ PollsOf(k) \subseteq Sessions
      BY DEF PollsOf
    <2>6. s \in PollsOf(k)' <=> method = "GET" /\ k = j
      BY <2>1, <2>2 DEF PollsOf
    <2>7. CASE method = "DELETE" \/ k # j
      <3>1. overlapped'[k] = overlapped[k]
        BY <2>1, <2>7
      <3>2. s \notin PollsOf(k)'
        BY <2>6, <2>7
      <3>3. SameJob(k)
        BY <2>1, <2>4, <2>5, <3>1, <3>2 DEF SameJob
      <3> QED BY <3>3, SameSettled
    <2>8. CASE method = "GET" /\ k = j
      <3>1. CASE PollsOf(k) # {}
        BY <2>1, <2>8, <3>1 DEF SettledAt
      <3>2. CASE PollsOf(k) = {}
        <4>1. PollsOf(k)' = {s}
          BY <2>4, <2>5, <2>6, <2>8, <3>2
        <4>2. overlapped'[k] = overlapped[k] /\ jobs' = jobs
              /\ settlements' = settlements /\ ses'[s].jobRow = jobs[k]
          BY <2>1, <2>2, <2>8, <3>2
        <4> QED BY <4>1, <4>2 DEF SettledAt
      <3> QED BY <3>1, <3>2
    <2> QED BY <2>7, <2>8
  <1>3. ASSUME NEW status \in TerminalStatus, NEW credits \in Costs,
               LoadForSettlement(s, status, credits)
        PROVE  SettledAt(k)'
    <2>1. /\ ses[s] \in Session /\ pc[s] = "polling"
          /\ ses'[s] = [ses[s] EXCEPT !.status = status, !.credits = credits,
                                      !.row = accounts[ses[s].account]]
          /\ UNCHANGED <<jobs, settlements, overlapped>>
      BY <1>3 DEF LoadForSettlement
    <2>2. /\ ses'[s].op = ses[s].op /\ ses'[s].job = ses[s].job
          /\ ses'[s].jobRow = ses[s].jobRow
      BY <2>1 DEF Session
    <2>3. s \in PollsOf(k)' => s \in PollsOf(k)
      BY <2>1, <2>2 DEF PollsOf
    <2> QED BY <1>1, <2>1, <2>2, <2>3, NoPollStarted, SameSettled
  <1>4. ASSUME NEW status \in JobStatus \cup {None},
               CommitPoll(s, status) \/ CommitCancel(s, status)
        PROVE  SettledAt(k)'
    <2> DEFINE j == ses[s].job
    <2>1. /\ j \in Jobs /\ jobs[j] \in JobRow /\ ses[s].jobRow \in JobRow
      BY <1>4 DEF CommitPoll, CommitCancel, Shape, ShapeOf, UsesJob
    <2>2. PICK x \in JobStatus :
             jobs' = [jobs EXCEPT ![j] = WithStatus(@, ses[s].jobRow, x)]
      BY <1>4, <2>1 DEF CommitPoll, CommitCancel, JobStatus, JobRow
    <2> DEFINE new == WithStatus(jobs[j], ses[s].jobRow, x)
    <2>3. new \in JobRow /\ new.final = jobs[j].final
      BY <2>1 DEF WithStatus, JobRow
    <2>4. jobs' = [jobs EXCEPT ![j] = new]
      BY <2>2
    <2>5. s \notin PollsOf(k)' /\ UNCHANGED <<settlements, overlapped>>
      BY <1>4 DEF CommitPoll, CommitCancel, Close, PollsOf
    <2> HIDE DEF new, j
    <2>6. /\ jobs'[k] = None <=> jobs[k] = None
          /\ jobs[k] # None => jobs'[k].final = jobs[k].final
      BY <2>1, <2>3, <2>4
    <2>7. SameJob(k)
      BY <1>1, <2>5, <2>6, NoPollStarted
    <2> QED BY <2>7, SameSettled
  <1>5. CASE CommitSettlement(s)
    <2> DEFINE j == ses[s].job
               new == WithStatus(jobs[j], ses[s].jobRow, ses[s].status)
               fin == [new EXCEPT !.final = ses[s].credits]
    <2>1. /\ j \in Jobs /\ jobs[j] \in JobRow
          /\ ses[s].status \in JobStatus /\ ses[s].credits \in Costs
          /\ ses[s].jobRow.final = None
          /\ s \in PollsOf(j)
      BY <1>5 DEF CommitSettlement, Shape, ShapeOf, UsesJob, TerminalStatus,
                  JobStatus, PollsOf
    <2>2. new \in JobRow
      BY <2>1 DEF WithStatus, JobRow
    <2>3. fin.final = ses[s].credits
      <3> HIDE DEF new
      <3> QED BY <2>2 DEF JobRow
    <2>4. /\ jobs' = [jobs EXCEPT ![j] = fin]
          /\ settlements' = [settlements EXCEPT ![j] = @ + 1]
          /\ overlapped' = overlapped
          /\ pc'[s] = "idle"
      BY <1>5 DEF CommitSettlement, Close
    <2>5. s \notin PollsOf(k)'
      BY <2>4 DEF PollsOf
    <2> HIDE DEF new, fin
    <2>6. CASE k # j
      <3>1. jobs'[k] = jobs[k] /\ settlements'[k] = settlements[k]
        BY <2>1, <2>4, <2>6
      <3>2. \A t \in Sessions \ {s} : t \in PollsOf(k)' => t \in PollsOf(k)
        BY <1>1 DEF PollsOf, OthersUnchanged
      <3>3. SameJob(k)
        BY <1>1, <2>4, <2>5, <3>1, <3>2 DEF SameJob, PollsOf, OthersUnchanged
      <3> QED BY <3>3, SameSettled
    <2>7. CASE k = j
      <3> SUFFICES ASSUME ~overlapped'[k]
                   PROVE  SettledAt(k)'
        BY DEF SettledAt
      <3>1. /\ \A t \in PollsOf(k) : t = s
            /\ jobs[k].final = None
        BY <2>1, <2>4, <2>7 DEF SettledAt
      <3>2. settlements[k] = 0
        BY <2>1, <2>4, <2>7, <3>1 DEF SettledAt
      <3>3. settlements'[k] = 1
        BY <2>1, <2>4, <2>7, <3>2
      <3>4. PollsOf(k)' = {}
        <4>1. \A t \in Sessions \ {s} : t \in PollsOf(k)' => t \in PollsOf(k)
          BY <1>1 DEF PollsOf, OthersUnchanged
        <4> QED BY <2>5, <3>1, <4>1 DEF PollsOf
      <3>5. jobs'[k] = fin
        BY <2>1, <2>4, <2>7
      <3>6. jobs'[k].final # None
        BY <2>1, <2>3, <3>5, CostsAssumption
      <3>7. jobs'[k] # None
        <4>1. fin \in JobRow
          BY <2>1, <2>2, CostsAssumption DEF fin, JobRow, Balance
        <4> QED BY <3>5, <4>1
      <3> QED BY <3>3, <3>4, <3>6, <3>7 DEF SettledAt
    <2> QED BY <2>6, <2>7
  <1>6. CASE PassThrough(s)
    <2>1. s \notin PollsOf(k)' /\ UNCHANGED <<jobs, settlements, overlapped>>
      BY <1>6 DEF PassThrough, Close, PollsOf
    <2>2. SameJob(k)
      BY <1>1, <2>1, NoPollStarted
    <2> QED BY <2>2, SameSettled
  <1> QED BY <1>2, <1>3, <1>4, <1>5, <1>6 DEF JobStep

\* Every step keeps Settled.
LEMMA StepSettled ==
    ASSUME Base, Settled, [Next]_vars
    PROVE  Settled'
  <1> SUFFICES ASSUME NEW k \in Jobs, SettledAt(k)
               PROVE  SettledAt(k)'
    BY SettledParts DEF Settled, SettledAt
  <1>1. ASSUME NEW s \in Sessions, AdminStep(s) PROVE SettledAt(k)'
    <2>1. OthersUnchanged(s)
      BY <1>1, AdminOthers DEF Base
    <2>2. pc'[s] \notin {"polling", "loaded"}
          /\ UNCHANGED <<jobs, settlements, overlapped>>
      BY <1>1 DEF AdminStep, LoadAccount, UpdateAccount, LoadCredential,
                  UpdateCredential, Close, Base, TypeOK, tables, history
    <2>3. s \notin PollsOf(k)'
      BY <2>2 DEF PollsOf
    <2>4. SameJob(k)
      BY <2>1, <2>2, <2>3, NoPollStarted DEF Base
    <2> QED BY <2>4, SameSettled
  <1>2. ASSUME NEW s \in Sessions, Abort(s) PROVE SettledAt(k)'
    <2>1. OthersUnchanged(s) /\ s \notin PollsOf(k)'
          /\ UNCHANGED <<jobs, settlements, overlapped>>
      BY <1>2 DEF Abort, OthersUnchanged, PollsOf, Base, TypeOK, tables, history
    <2>2. SameJob(k)
      BY <2>1, NoPollStarted DEF Base
    <2> QED BY <2>2, SameSettled
  <1>3. CASE UNCHANGED <<jobs, settlements, overlapped, pc, ses>>
    BY <1>3 DEF SettledAt, PollsOf
  <1>4. ASSUME NEW r \in Replicas, RefreshStep(r)
        PROVE  UNCHANGED <<jobs, settlements, overlapped, pc, ses>>
    BY <1>4 DEF RefreshStep, StartPass, ReadUpstream, CommitPass, FailPass,
                tables, history
  <1> QED BY <1>1, <1>2, <1>3, <1>4, ProxySettled, JobSettled
          DEF Next, CreateStep, CreateAccount, CreateCredential, vars, history

\* settle_job_once: a job is charged at most once unless two of its status
\* polls were under way at the same time, whatever else happens in between:
\* polls and cancellations that abort or are repeated, other jobs, operators,
\* and on either database.
THEOREM SettledOnceUnlessOverlappedCorrect ==
    Spec => []SettledOnceUnlessOverlapped
  <1>1. Init => Settled
    BY DEF Init, Settled, PollsOf
  <1>2. Base /\ Settled /\ [Next]_vars => Settled'
    BY StepSettled
  <1>3. Base /\ Settled => SettledOnceUnlessOverlapped
    BY DEF Settled, SettledOnceUnlessOverlapped, Base, TypeOK
  <1> QED BY <1>1, <1>2, <1>3, AlwaysBase, PTL DEF Spec

-----------------------------------------------------------------------------
(***************************************************************************)
(* On SQLite (SerialWriters) whoever has loaded an account row to change   *)
(* it keeps every other writer out until it commits, so the row it writes  *)
(* back is the row it read.  What follows from that fails on PostgreSQL.   *)
(***************************************************************************)

IInv == Base /\ Locked

-----------------------------------------------------------------------------
(* Four kinds of step, by what they do to the write lock *)

\* s neither takes nor holds the lock, and writes account rows only while
\* nobody holds it.
Quiet(s) == /\ OthersUnchanged(s) /\ UNCHANGED writer
            /\ pc[s] # "loaded" /\ pc'[s] # "loaded"
            /\ UNCHANGED accounts \/ writer \in {None, s}

\* s takes the lock and loads the row it is going to change.
Takes(s) == /\ OthersUnchanged(s) /\ UNCHANGED accounts
            /\ writer \in {None, s} /\ writer' = s
            /\ pc'[s] = "loaded"
            /\ ses'[s].row # None => ses'[s].row = accounts[ses'[s].account]

\* s ends, with the lock released if it held it.
Ends(s) == /\ OthersUnchanged(s) /\ Release(s)
           /\ pc'[s] # "loaded"
           /\ UNCHANGED accounts \/ pc[s] = "loaded"

\* No handler takes a step; account rows are written while nobody holds the
\* lock.
Outside == /\ UNCHANGED <<pc, ses, writer>>
           /\ UNCHANGED accounts \/ writer = None

\* What a step of proxy or submit_job does to the write lock.
LEMMA ProxyKind ==
    ASSUME SerialWriters, Base, NEW s \in Sessions, ProxyStep(s)
    PROVE  Quiet(s) \/ Takes(s) \/ Ends(s)
  <1> USE DEF Base, TypeOK, tables
  <1>1. OthersUnchanged(s)
    BY ProxyOthers
  <1>2. ASSUME NEW op, NEW est, ListAccounts(s, op, est)
        PROVE  Quiet(s)
    BY <1>1, <1>2 DEF ListAccounts, Quiet
  <1>3. ASSUME SelectAccount(s) \/ RejectRequest(s) \/ CommitLogOnly(s)
        PROVE  Quiet(s)
    BY <1>1, <1>3 DEF SelectAccount, RejectRequest, CommitLogOnly, Close, Quiet
  <1>4. ASSUME NEW j \in Jobs, CommitSubmit(s, j)
        PROVE  Quiet(s)
    BY <1>1, <1>4 DEF CommitSubmit, Close, Quiet
  <1>5. ASSUME CommitSuccess(s) \/ CommitCreditExhausted(s)
                 \/ CommitRateLimited(s) \/ CommitCredentialInvalid(s)
        PROVE  Ends(s)
    BY <1>1, <1>5 DEF CommitSuccess, CommitCreditExhausted, CommitRateLimited,
                      CommitCredentialInvalid, Close, Ends
  <1>6. ASSUME NEW status \in {"success", "credential_invalid",
                               "credit_exhausted", "rate_limited"},
               NEW credits \in Costs \cup {None},
               LoadForOutcome(s, status, credits)
        PROVE  Takes(s)
    <2> DEFINE row == IF status = "credential_invalid" THEN None
                      ELSE accounts[ses[s].account]
               key == IF status = "credential_invalid"
                      THEN credentials[ses[s].credential].status ELSE None
    <2>1. /\ ses[s] \in Session
          /\ ses'[s] = [ses[s] EXCEPT !.status = status, !.credits = credits,
                                      !.row = row, !.key = key]
          /\ pc'[s] = "loaded" /\ UNCHANGED accounts
          /\ writer \in {None, s} /\ writer' = s
      BY <1>6 DEF LoadForOutcome, Flush, CanWrite
    <2>2. row # None => row = accounts[ses[s].account]
      OBVIOUS
    <2> HIDE DEF row, key
    <2>3. ses'[s].row = row /\ ses'[s].account = ses[s].account
      BY <2>1 DEF Session
    <2> QED BY <1>1, <2>1, <2>2, <2>3 DEF Takes
  <1> QED BY <1>2, <1>3, <1>4, <1>5, <1>6 DEF ProxyStep

\* What a step of proxy_job_operation does to the write lock.
LEMMA JobKind ==
    ASSUME SerialWriters, Base, NEW s \in Sessions, JobStep(s)
    PROVE  Quiet(s) \/ Takes(s) \/ Ends(s)
  <1> USE DEF Base, TypeOK, tables
  <1>1. OthersUnchanged(s)
    BY JobOthers
  <1>2. ASSUME NEW j \in Jobs, NEW method \in {"GET", "DELETE"},
               GetJob(s, j, method)
        PROVE  Quiet(s)
    BY <1>1, <1>2 DEF GetJob, Quiet
  <1>3. ASSUME NEW status \in JobStatus \cup {None},
               CommitPoll(s, status) \/ CommitCancel(s, status)
        PROVE  Quiet(s)
    BY <1>1, <1>3 DEF CommitPoll, CommitCancel, Close, Quiet
  <1>4. ASSUME CommitSettlement(s) PROVE Ends(s)
    BY <1>1, <1>4 DEF CommitSettlement, Close, Ends
  <1>5. ASSUME NEW status \in TerminalStatus, NEW credits \in Costs,
               LoadForSettlement(s, status, credits)
        PROVE  Takes(s)
    <2>1. /\ ses[s] \in Session
          /\ ses'[s] = [ses[s] EXCEPT !.status = status, !.credits = credits,
                                      !.row = accounts[ses[s].account]]
          /\ pc'[s] = "loaded" /\ UNCHANGED accounts
          /\ writer \in {None, s} /\ writer' = s
      BY <1>5 DEF LoadForSettlement, Flush, CanWrite
    <2>2. /\ ses'[s].row = accounts[ses[s].account]
          /\ ses'[s].account = ses[s].account
      BY <2>1 DEF Session
    <2> QED BY <1>1, <2>1, <2>2 DEF Takes
  <1>6. ASSUME PassThrough(s) PROVE Quiet(s)
    BY <1>1, <1>6 DEF PassThrough, Close, Quiet
  <1> QED BY <1>2, <1>3, <1>4, <1>5, <1>6 DEF JobStep

\* What an operator's update does to the write lock.
LEMMA AdminKind ==
    ASSUME SerialWriters, Base, NEW s \in Sessions, AdminStep(s)
    PROVE  Quiet(s)
  <1>1. OthersUnchanged(s)
    BY AdminOthers DEF Base
  <1> QED BY <1>1 DEF Base, TypeOK, tables, AdminStep, LoadAccount,
                      UpdateAccount, LoadCredential, UpdateCredential,
                      CanWrite, Close, Quiet

\* Every step leaves the lock alone, takes it, ends with it, or finds it free.
LEMMA StepKind ==
    ASSUME SerialWriters, Base, [Next]_vars
    PROVE  \/ \E s \in Sessions : Quiet(s) \/ Takes(s) \/ Ends(s)
           \/ Outside
  <1>1. ASSUME NEW s \in Sessions, Abort(s) PROVE Ends(s)
    BY <1>1 DEF Abort, Ends, OthersUnchanged, Base, TypeOK, tables
  <1>2. CASE CreateStep
    BY <1>2 DEF CreateStep, CreateAccount, CreateCredential, NoWriter, Outside
  <1>3. ASSUME NEW r \in Replicas, RefreshStep(r) PROVE Outside
    BY <1>3 DEF RefreshStep, StartPass, ReadUpstream, CommitPass, FailPass,
                NoWriter, Outside, tables
  <1>4. CASE UNCHANGED vars
    BY <1>4 DEF vars, Outside
  <1> QED BY <1>1, <1>2, <1>3, <1>4, ProxyKind, JobKind, AdminKind DEF Next

-----------------------------------------------------------------------------
(* The write lock *)

\* Whoever has loaded a row owns the lock, and the row stays current.
LEMMA StepLocked ==
    ASSUME SerialWriters, IInv, [Next]_vars
    PROVE  Locked'
  <1> USE NoneAssumption DEF IInv
  <1>1. ASSUME NEW s \in Sessions, Quiet(s) PROVE Locked'
    BY <1>1 DEF Quiet, Locked, OthersUnchanged
  <1>2. ASSUME NEW s \in Sessions, Takes(s) PROVE Locked'
    BY <1>2 DEF Takes, Locked, OthersUnchanged
  <1>3. ASSUME NEW s \in Sessions, Ends(s) PROVE Locked'
    BY <1>3 DEF Ends, Release, Locked, OthersUnchanged
  <1>4. CASE Outside
    BY <1>4 DEF Outside, Locked
  <1> QED BY <1>1, <1>2, <1>3, <1>4, StepKind

\* The invariant of the SQLite proofs holds in every reachable state.
LEMMA AlwaysIInv == SerialWriters => (Spec => []IInv)
  <1> SUFFICES ASSUME SerialWriters PROVE Spec => []IInv
    OBVIOUS
  <1>1. Init => IInv
    BY InitBase, NoneAssumption DEF Init, IInv, Locked
  <1>2. IInv /\ [Next]_vars => IInv'
    BY StepBase, StepLocked DEF IInv
  <1> QED BY <1>1, <1>2, PTL DEF Spec

-----------------------------------------------------------------------------
(* The ledger *)

\* What a step of handler s leaves of the ledger's variables to look at.
LEMMA LedgerFrame ==
    ASSUME TypeOK, NEW s \in Sessions, OthersUnchanged(s)
    PROVE  /\ Owed' = [Owed EXCEPT ![s] = Owed'[s]]
           /\ pc'[s] = "failed" => Failed' = Failed \cup {s}
           /\ pc'[s] # "failed" => Failed' = Failed \ {s}
  <1>1. \A t \in Sessions \ {s} : Owed'[t] = Owed[t]
    BY DEF OthersUnchanged, Owed, Charging
  <1>2. Owed' = [Owed EXCEPT ![s] = Owed'[s]]
    BY <1>1 DEF Owed
  <1>3. \A t \in Sessions \ {s} : t \in Failed' <=> t \in Failed
    BY DEF OthersUnchanged, Failed
  <1>4. s \in Failed' <=> pc'[s] = "failed"
    BY DEF Failed
  <1>5. Failed \subseteq Sessions /\ Failed' \subseteq Sessions
    BY DEF Failed
  <1> QED BY <1>2, <1>3, <1>4, <1>5

\* A handler that owes nothing before or after, and leaves the balances alone,
\* begins a call or does nothing the ledger sees.
LEMMA NothingOwed ==
    ASSUME TypeOK, NEW s \in Sessions, OthersUnchanged(s), Balances' = Balances,
           ~Charging(s), ~Charging(s)', pc'[s] # "failed"
    PROVE  [Ledger!Next]_(Ledger!vars)
  <1>1. Owed' = Owed
    BY LedgerFrame DEF Owed
  <1>2. Failed' = Failed \ {s}
    BY LedgerFrame
  <1>3. CASE s \in Failed
    BY <1>1, <1>2, <1>3 DEF Ledger!Next, Ledger!Begin
  <1>4. CASE s \notin Failed
    BY <1>1, <1>2, <1>4 DEF Ledger!vars
  <1> QED BY <1>3, <1>4

\* A handler that gets the answer it has to charge for.
LEMMA OweStep ==
    ASSUME TypeOK, NEW s \in Sessions, OthersUnchanged(s), Balances' = Balances,
           pc[s] \notin {"loaded", "failed"}, pc'[s] # "failed",
           Charging(s)', ses'[s].account \in Accounts, ses'[s].credits \in Costs
    PROVE  Ledger!Next
  <1> DEFINE d == [account |-> ses'[s].account, credits |-> ses'[s].credits]
  <1>1. Owed' = [Owed EXCEPT ![s] = d]
    BY LedgerFrame DEF Owed
  <1>2. Failed' = Failed /\ s \notin Failed
    BY LedgerFrame DEF Failed
  <1>3. Owed[s] = None
    BY DEF Owed, Charging
  <1>4. d \in Ledger!Debits
    BY DEF Ledger!Debits
  <1> QED BY <1>1, <1>2, <1>3, <1>4 DEF Ledger!Next, Ledger!Owe

\* A handler that writes back a charged row which it loaded under the lock
\* pays what it owes.
LEMMA PayStep ==
    ASSUME TypeOK, NEW s \in Sessions, OthersUnchanged(s), Charging(s),
           pc'[s] = "idle",
           NEW a \in Accounts, NEW c \in Costs,
           ses[s].account = a, ses[s].credits = c,
           accounts[a] \in AccountRow, ses[s].row = accounts[a],
           accounts' = [accounts EXCEPT ![a] =
                          Merge(@, ses[s].row, ApplySuccess(ses[s].row, c))]
    PROVE  Ledger!Next
  <1> USE NoneAssumption DEF TypeOK
  <1>1. ApplySuccess(accounts[a], c) \in AccountRow
    BY ApplySuccessType
  <1>2. accounts' = [accounts EXCEPT ![a] = ApplySuccess(accounts[a], c)]
    BY <1>1, MergeFresh
  <1>3. ApplySuccess(accounts[a], c).remaining
          = Debit(accounts[a].remaining, c)
    BY DEF ApplySuccess
  <1>4. Balances' = [Balances EXCEPT ![a] = Debit(@, c)]
    <2>1. accounts'[a] # None /\ accounts[a] # None
      BY <1>1, <1>2
    <2>2. Balances'[a] = Debit(Balances[a], c)
      BY <1>2, <1>3, <2>1 DEF Balances
    <2>3. \A b \in Accounts \ {a} : Balances'[b] = Balances[b]
      BY <1>2 DEF Balances
    <2> QED BY <2>2, <2>3 DEF Balances
  <1>5. ~Charging(s)'
    BY DEF Charging
  <1>6. Owed' = [Owed EXCEPT ![s] = None]
    BY <1>5, LedgerFrame DEF Owed
  <1>7. Failed' = Failed
    BY LedgerFrame DEF Failed, Charging
  <1>8. Owed[s] = [account |-> a, credits |-> c]
    BY DEF Owed
  <1>9. Owed[s] # None
    <2>1. Owed[s] \in [account : Accounts, credits : Costs]
      BY <1>8
    <2> QED BY <2>1
  <1>10. Ledger!Debit(Balances[a], c) = Debit(Balances[a], c)
    BY DEF Ledger!Debit, Debit
  <1>11. Ledger!Pay(s)
    <2>1. Owed[s].account = a /\ Owed[s].credits = c
      BY <1>8
    <2>2. Balances' = [Balances EXCEPT ![Owed[s].account] =
                         Ledger!Debit(Balances[Owed[s].account],
                                      Owed[s].credits)]
      BY <1>4, <1>10, <2>1
    <2> QED BY <1>6, <1>7, <1>9, <2>2 DEF Ledger!Pay
  <1> QED BY <1>11 DEF Ledger!Next

\* A handler that holds no loaded row owes nothing.
LEMMA NotLoaded ==
    ASSUME NEW s \in Sessions, TypeOK, OthersUnchanged(s),
           pc[s] # "loaded", pc'[s] \notin {"loaded", "failed"},
           Balances' = Balances
    PROVE  [Ledger!Next]_(Ledger!vars)
  BY NothingOwed DEF Charging

\* A row written back with another status keeps the balance in the table.
LEMMA StatusKeepsBalance ==
    ASSUME TypeOK, NEW a \in Accounts, accounts[a] \in AccountRow,
           NEW old \in AccountRow, NEW status \in AccountStatus,
           NEW row \in AccountRow,
           row.remaining
             = Merge(accounts[a], old, [old EXCEPT !.status = status]).remaining,
           accounts' = [accounts EXCEPT ![a] = row]
    PROVE  Balances' = Balances
  <1> USE NoneAssumption DEF TypeOK
  <1>1. [old EXCEPT !.status = status].remaining = old.remaining
    BY DEF AccountRow
  <1>2. row.remaining = accounts[a].remaining
    BY <1>1 DEF Merge
  <1>3. row # None /\ accounts[a] # None
    OBVIOUS
  <1>4. \A b \in Accounts : Balances'[b] = Balances[b]
    BY <1>2, <1>3 DEF Balances
  <1> QED BY <1>4 DEF Balances

\* Every step of proxy or submit_job is a step of the ledger or a stutter.
LEMMA ProxyLedger ==
    ASSUME SerialWriters, IInv, NEW s \in Sessions, ProxyStep(s)
    PROVE  [Ledger!Next]_(Ledger!vars)
  <1> USE NoneAssumption DEF IInv, Base, TypeOK
  <1>1. OthersUnchanged(s)
    BY ProxyOthers
  <1>2. CASE UNCHANGED accounts /\ pc[s] # "loaded"
             /\ pc'[s] \notin {"loaded", "failed"}
    BY <1>1, <1>2, NotLoaded DEF Balances
  <1>3. ASSUME NEW op, NEW est, ListAccounts(s, op, est)
        PROVE  [Ledger!Next]_(Ledger!vars)
    BY <1>2, <1>3 DEF ListAccounts, tables
  <1>4. CASE SelectAccount(s) \/ RejectRequest(s) \/ CommitLogOnly(s)
    BY <1>2, <1>4 DEF SelectAccount, RejectRequest, CommitLogOnly, Close, tables
  <1>5. ASSUME NEW j \in Jobs, CommitSubmit(s, j)
        PROVE  [Ledger!Next]_(Ledger!vars)
    BY <1>2, <1>5 DEF CommitSubmit, Close
  <1>6. ASSUME NEW status \in {"success", "credential_invalid",
                               "credit_exhausted", "rate_limited"},
               NEW credits \in Costs \cup {None},
               status = "success" => credits \in Costs,
               LoadForOutcome(s, status, credits)
        PROVE  [Ledger!Next]_(Ledger!vars)
    <2> DEFINE row == IF status = "credential_invalid" THEN None
                      ELSE accounts[ses[s].account]
               key == IF status = "credential_invalid"
                      THEN credentials[ses[s].credential].status ELSE None
    <2>1. /\ ses[s] \in Session
          /\ ses'[s] = [ses[s] EXCEPT !.status = status, !.credits = credits,
                                      !.row = row, !.key = key]
          /\ pc[s] = "forwarded" /\ pc'[s] = "loaded" /\ UNCHANGED accounts
          /\ ses[s].op \in {"proxy", "submit_job"}
          /\ ses[s].account \in Accounts
          /\ status = "success" => ses[s].op = "proxy"
      BY <1>6 DEF LoadForOutcome, ChangesRow, Shape, ShapeOf, UsesKey, tables
    <2> HIDE DEF row, key
    <2>2. /\ ses'[s].op = ses[s].op /\ ses'[s].status = status
          /\ ses'[s].account = ses[s].account /\ ses'[s].credits = credits
      BY <2>1 DEF Session
    <2>3. Balances' = Balances
      BY <2>1 DEF Balances
    <2>4. CASE status = "success"
      <3>1. Charging(s)'
        BY <2>1, <2>2, <2>4 DEF Charging
      <3> QED BY <1>1, <1>6, <2>1, <2>2, <2>3, <2>4, <3>1, OweStep
    <2>5. CASE status # "success"
      <3>1. ~Charging(s) /\ ~Charging(s)'
        BY <2>1, <2>2, <2>5 DEF Charging
      <3> QED BY <1>1, <2>1, <2>3, <3>1, NothingOwed
    <2> QED BY <2>4, <2>5
  <1>7. CASE CommitSuccess(s)
    <2>1. /\ ses[s].row \in AccountRow /\ ses[s].credits \in Costs
          /\ ses[s].account \in Accounts
          /\ accounts[ses[s].account] \in AccountRow
          /\ ses[s].row = accounts[ses[s].account]
      BY <1>7 DEF CommitSuccess, Shape, ShapeOf, UsesKey, Locked
    <2>2. /\ Charging(s) /\ pc'[s] = "idle"
          /\ accounts' = [accounts EXCEPT ![ses[s].account] =
                            Merge(@, ses[s].row,
                                  ApplySuccess(ses[s].row, ses[s].credits))]
      BY <1>7 DEF CommitSuccess, Close, Charging
    <2> QED BY <1>1, <2>1, <2>2, PayStep
  <1>8. CASE CommitCreditExhausted(s)
    <2> DEFINE a == ses[s].account
               row == Merge(accounts[a], ses[s].row,
                        [ses[s].row EXCEPT !.status = "credit_exhausted"])
    <2>1. /\ ses[s].row \in AccountRow /\ a \in Accounts
          /\ accounts[a] \in AccountRow
          /\ ses[s].op \in {"proxy", "submit_job"}
          /\ ses[s].status = "credit_exhausted"
          /\ pc'[s] = "idle"
          /\ accounts' = [accounts EXCEPT ![a] = row]
      BY <1>8 DEF CommitCreditExhausted, Close, Shape, ShapeOf, UsesKey,
                  UsesJob, TerminalStatus
    <2>2. row \in AccountRow
      <3>1. [ses[s].row EXCEPT !.status = "credit_exhausted"] \in AccountRow
        BY <2>1 DEF AccountRow, AccountStatus
      <3> QED BY <2>1, <3>1, MergeType
    <2>3. Balances' = Balances
      <3>1. "credit_exhausted" \in AccountStatus
        BY DEF AccountStatus
      <3> QED BY <2>1, <2>2, <3>1, StatusKeepsBalance
    <2>4. ~Charging(s) /\ ~Charging(s)'
      BY <2>1 DEF Charging
    <2> QED BY <1>1, <2>1, <2>3, <2>4, NothingOwed
  <1>9. CASE CommitRateLimited(s)
    <2> DEFINE a == ses[s].account
               new == Merge(accounts[a], ses[s].row,
                            [ses[s].row EXCEPT !.status = "rate_limited"])
               row == [new EXCEPT !.cooldown = TRUE]
    <2>1. /\ ses[s].row \in AccountRow /\ a \in Accounts
          /\ accounts[a] \in AccountRow
          /\ ses[s].op \in {"proxy", "submit_job"}
          /\ ses[s].status = "rate_limited"
          /\ pc'[s] = "idle"
      BY <1>9 DEF CommitRateLimited, Close, Shape, ShapeOf, UsesKey,
                  UsesJob, TerminalStatus
    <2>2. accounts' = [accounts EXCEPT ![a] = row]
      BY <1>9 DEF CommitRateLimited
    <2>3. new \in AccountRow
      <3>1. [ses[s].row EXCEPT !.status = "rate_limited"] \in AccountRow
        BY <2>1 DEF AccountRow, AccountStatus
      <3> QED BY <2>1, <3>1, MergeType
    <2>4. row \in AccountRow /\ row.remaining = new.remaining
      <3> HIDE DEF new
      <3> QED BY <2>3 DEF AccountRow
    <2>5. Balances' = Balances
      <3>1. "rate_limited" \in AccountStatus
        BY DEF AccountStatus
      <3> HIDE DEF row
      <3> QED BY <2>1, <2>2, <2>4, <3>1, StatusKeepsBalance
    <2>6. ~Charging(s) /\ ~Charging(s)'
      BY <2>1 DEF Charging
    <2> QED BY <1>1, <2>1, <2>5, <2>6, NothingOwed
  <1>10. CASE CommitCredentialInvalid(s)
    <2>1. /\ ses[s].op \in {"proxy", "submit_job"}
          /\ ses[s].status = "credential_invalid"
          /\ pc'[s] = "idle" /\ UNCHANGED accounts
      BY <1>10 DEF CommitCredentialInvalid, Close, Shape, ShapeOf,
                   TerminalStatus
    <2>2. ~Charging(s) /\ ~Charging(s)' /\ Balances' = Balances
      BY <2>1 DEF Charging, Balances
    <2> QED BY <1>1, <2>1, <2>2, NothingOwed
  <1> QED BY <1>3, <1>4, <1>5, <1>6, <1>7, <1>8, <1>9, <1>10 DEF ProxyStep

\* So is every step of proxy_job_operation.
LEMMA JobLedger ==
    ASSUME SerialWriters, IInv, NEW s \in Sessions, JobStep(s)
    PROVE  [Ledger!Next]_(Ledger!vars)
  <1> USE NoneAssumption DEF IInv, Base, TypeOK
  <1>1. OthersUnchanged(s)
    BY JobOthers
  <1>2. CASE UNCHANGED accounts /\ pc[s] # "loaded"
             /\ pc'[s] \notin {"loaded", "failed"}
    BY <1>1, <1>2, NotLoaded DEF Balances
  <1>3. ASSUME NEW j \in Jobs, NEW method \in {"GET", "DELETE"},
               GetJob(s, j, method)
        PROVE  [Ledger!Next]_(Ledger!vars)
    BY <1>2, <1>3 DEF GetJob, tables
  <1>4. ASSUME NEW status \in JobStatus \cup {None},
               CommitPoll(s, status) \/ CommitCancel(s, status)
        PROVE  [Ledger!Next]_(Ledger!vars)
    BY <1>2, <1>4 DEF CommitPoll, CommitCancel, Close
  <1>5. ASSUME NEW status \in TerminalStatus, NEW credits \in Costs,
               LoadForSettlement(s, status, credits)
        PROVE  [Ledger!Next]_(Ledger!vars)
    <2>1. /\ ses[s] \in Session
          /\ ses'[s] = [ses[s] EXCEPT !.status = status, !.credits = credits,
                                      !.row = accounts[ses[s].account]]
          /\ pc[s] = "polling" /\ pc'[s] = "loaded" /\ UNCHANGED accounts
          /\ ses[s].op = "GET" /\ ses[s].account \in Accounts
      BY <1>5 DEF LoadForSettlement, Shape, ShapeOf, UsesJob, JobRow, tables
    <2>2. /\ ses'[s].op = "GET" /\ ses'[s].credits = credits
          /\ ses'[s].account = ses[s].account
      BY <2>1 DEF Session
    <2>3. Balances' = Balances
      BY <2>1 DEF Balances
    <2>4. Charging(s)'
      BY <2>1, <2>2 DEF Charging
    <2> QED BY <1>1, <2>1, <2>2, <2>3, <2>4, OweStep
  <1>6. CASE CommitSettlement(s)
    <2>1. /\ ses[s].row \in AccountRow /\ ses[s].credits \in Costs
          /\ ses[s].account \in Accounts
          /\ accounts[ses[s].account] \in AccountRow
          /\ ses[s].row = accounts[ses[s].account]
      BY <1>6 DEF CommitSettlement, Shape, ShapeOf, UsesJob, Rows, JobRow,
                  Locked
    <2>2. /\ Charging(s) /\ pc'[s] = "idle"
          /\ accounts' = [accounts EXCEPT ![ses[s].account] =
                            Merge(@, ses[s].row,
                                  ApplySuccess(ses[s].row, ses[s].credits))]
      BY <1>6 DEF CommitSettlement, Close, Charging
    <2> QED BY <1>1, <2>1, <2>2, PayStep
  <1>7. CASE PassThrough(s)
    BY <1>2, <1>7 DEF PassThrough, Close, tables
  <1> QED BY <1>3, <1>4, <1>5, <1>6, <1>7 DEF JobStep

\* Steps that assign balances.
LEMMA AssignStep ==
    ASSUME TypeOK', Owed' = Owed, Failed' = Failed
    PROVE  Ledger!Next
  <1>1. \A a \in Accounts : Balances'[a] \in Ledger!Balance
    BY DEF TypeOK, Balances, AccountRow, Balance, Ledger!Balance
  <1>2. Balances' \in [Accounts -> Ledger!Balance]
    BY <1>1 DEF Balances
  <1> QED BY <1>2 DEF Ledger!Next, Ledger!Assign

\* Every step implements a step of the ledger or a stutter.
LEMMA StepLedger ==
    ASSUME SerialWriters, IInv, [Next]_vars
    PROVE  [Ledger!Next]_(Ledger!vars)
  <1> USE DEF IInv, Base
  <1>1. TypeOK'
    BY StepType
  <1>2. CASE UNCHANGED <<pc, ses>>
    BY <1>1, <1>2, AssignStep DEF Owed, Failed, Charging
  <1>3. ASSUME NEW s \in Sessions, Abort(s)
        PROVE  [Ledger!Next]_(Ledger!vars)
    <2>1. OthersUnchanged(s) /\ pc'[s] = "failed" /\ Balances' = Balances
      BY <1>3 DEF Abort, OthersUnchanged, TypeOK, tables, Balances
    <2>2. Owed' = [Owed EXCEPT ![s] = None] /\ Failed' = Failed \cup {s}
      BY <2>1, LedgerFrame DEF Owed, Charging
    <2> QED BY <2>1, <2>2 DEF Ledger!Next, Ledger!Fail
  <1>4. ASSUME NEW s \in Sessions, AdminStep(s)
        PROVE  [Ledger!Next]_(Ledger!vars)
    <2>1. OthersUnchanged(s)
      BY <1>4, AdminOthers
    <2>2. CASE UpdateAccount(s)
      <3>1. pc[s] = "patching" /\ pc'[s] = "idle"
        BY <2>2 DEF UpdateAccount, Close, TypeOK
      <3>2. Owed' = Owed /\ Failed' = Failed
        BY <2>1, <3>1, LedgerFrame DEF Owed, Failed, Charging
      <3> QED BY <1>1, <3>2, AssignStep
    <2>3. CASE UNCHANGED accounts /\ pc[s] # "loaded"
               /\ pc'[s] \notin {"loaded", "failed"}
      BY <2>1, <2>3, NotLoaded DEF Balances
    <2> QED BY <1>4, <2>2, <2>3
            DEF AdminStep, LoadAccount, LoadCredential, UpdateCredential,
                Close, tables, TypeOK
  <1> QED BY <1>2, <1>3, <1>4, ProxyLedger, JobLedger
          DEF Next, CreateStep, CreateAccount, CreateCredential, RefreshStep,
              StartPass, ReadUpstream, CommitPass, FailPass, vars

\* The cost of every call is taken from the balance that is in the table at
\* COMMIT: on SQLite, for every number of handlers, accounts and replicas, the
\* proxy implements CreditLedger.
THEOREM LedgerRefinement == SerialWriters => (Spec => LedgerSpec)
  <1> SUFFICES ASSUME SerialWriters PROVE Spec => LedgerSpec
    OBVIOUS
  <1>1. Init => Ledger!Init
    BY DEF Init, Ledger!Init, Balances, Owed, Failed, Charging, Ledger!Balance
  <1>2. IInv /\ [Next]_vars => [Ledger!Next]_(Ledger!vars)
    BY StepLedger
  <1> QED BY <1>1, <1>2, AlwaysIInv, PTL DEF Spec, LedgerSpec, Ledger!Spec

-----------------------------------------------------------------------------
(* How the row of an account may change *)

\* The changes a row sees from anybody but an operator.
RowStep(old, new) ==
    \/ new = old
    \/ old = None /\ ~new.cooldown
    \/ /\ old \in AccountRow /\ new \in AccountRow
       /\ \/ new.status = old.status /\ new.cooldown = old.cooldown
          \/ new.status = "credit_exhausted" /\ new.cooldown = old.cooldown
          \/ new.status = "rate_limited"
          \/ /\ old.status = "rate_limited"
             /\ new.status = "active" /\ ~new.cooldown

RowSteps == \A a \in Accounts : RowStep(accounts[a], accounts'[a])

\* apply_success changes status and cooldown of a rate-limited account only.
LEMMA SuccessRow ==
    ASSUME NEW row \in AccountRow, NEW c \in Costs
    PROVE  RowStep(row, ApplySuccess(row, c))
  <1>1. ApplySuccess(row, c) \in AccountRow
    BY ApplySuccessType
  <1>2. \/ /\ ApplySuccess(row, c).status = row.status
           /\ ApplySuccess(row, c).cooldown = row.cooldown
        \/ /\ row.status = "rate_limited"
           /\ ApplySuccess(row, c).status = "active"
           /\ ~ApplySuccess(row, c).cooldown
    BY DEF ApplySuccess
  <1> QED BY <1>1, <1>2 DEF RowStep

\* A commit to one row leaves the other rows alone.
LEMMA OneRow ==
    ASSUME TypeOK, NEW a \in Accounts, NEW row,
           accounts' = [accounts EXCEPT ![a] = row], RowStep(accounts[a], row)
    PROVE  RowSteps
  BY DEF TypeOK, RowSteps, RowStep

\* What proxy and submit_job may do to status and cooldown.
LEMMA ProxyRows ==
    ASSUME SerialWriters, IInv, NEW s \in Sessions, ProxyStep(s)
    PROVE  RowSteps
  <1> USE NoneAssumption DEF IInv, Base, TypeOK
  <1>1. CASE UNCHANGED accounts
    BY <1>1 DEF RowSteps, RowStep
  <1>2. CASE CommitSuccess(s)
    <2> DEFINE a == ses[s].account
    <2>1. /\ ses[s].credits \in Costs /\ a \in Accounts
          /\ accounts[a] \in AccountRow /\ ses[s].row = accounts[a]
      BY <1>2 DEF CommitSuccess, Shape, ShapeOf, UsesKey, Locked
    <2> DEFINE new == ApplySuccess(accounts[a], ses[s].credits)
    <2>2. new \in AccountRow /\ RowStep(accounts[a], new)
      BY <2>1, ApplySuccessType, SuccessRow
    <2>3. accounts' = [accounts EXCEPT ![a] = Merge(accounts[a], accounts[a], new)]
      BY <1>2, <2>1 DEF CommitSuccess
    <2> HIDE DEF a, new
    <2>4. accounts' = [accounts EXCEPT ![a] = new]
      BY <2>1, <2>2, <2>3, MergeFresh
    <2> QED BY <2>1, <2>2, <2>4, OneRow
  <1>3. CASE CommitCreditExhausted(s)
    <2> DEFINE a == ses[s].account
               new == [accounts[a] EXCEPT !.status = "credit_exhausted"]
    <2>1. /\ a \in Accounts /\ accounts[a] \in AccountRow
          /\ ses[s].row = accounts[a]
      BY <1>3 DEF CommitCreditExhausted, Shape, ShapeOf, UsesKey, UsesJob,
                  TerminalStatus, Locked
    <2>2. new \in AccountRow /\ new.status = "credit_exhausted"
          /\ new.cooldown = accounts[a].cooldown
      BY <2>1 DEF AccountRow, AccountStatus
    <2>3. accounts' = [accounts EXCEPT ![a] = Merge(accounts[a], accounts[a], new)]
      BY <1>3, <2>1 DEF CommitCreditExhausted
    <2> HIDE DEF new
    <2>4. accounts' = [accounts EXCEPT ![a] = new]
      BY <2>1, <2>2, <2>3, MergeFresh
    <2>5. RowStep(accounts[a], new)
      BY <2>1, <2>2 DEF RowStep
    <2> QED BY <2>1, <2>4, <2>5, OneRow
  <1>4. CASE CommitRateLimited(s)
    <2> DEFINE a == ses[s].account
               new == [accounts[a] EXCEPT !.status = "rate_limited"]
               row == [Merge(accounts[a], accounts[a], new) EXCEPT
                          !.cooldown = TRUE]
    <2>1. /\ a \in Accounts /\ accounts[a] \in AccountRow
          /\ ses[s].row = accounts[a]
      BY <1>4 DEF CommitRateLimited, Shape, ShapeOf, UsesKey, UsesJob,
                  TerminalStatus, Locked
    <2>2. new \in AccountRow /\ new.status = "rate_limited"
      BY <2>1 DEF AccountRow, AccountStatus
    <2>3. accounts' = [accounts EXCEPT ![a] = row]
      BY <1>4, <2>1 DEF CommitRateLimited
    <2>4. row = [new EXCEPT !.cooldown = TRUE]
      <3> HIDE DEF new
      <3> QED BY <2>1, <2>2, MergeFresh
    <2>5. row \in AccountRow /\ row.status = "rate_limited"
      <3> HIDE DEF new, row
      <3> QED BY <2>2, <2>4 DEF AccountRow
    <2> HIDE DEF row, new
    <2>6. RowStep(accounts[a], row)
      BY <2>1, <2>5 DEF RowStep
    <2> QED BY <2>1, <2>3, <2>6, OneRow
  <1> QED BY <1>1, <1>2, <1>3, <1>4
          DEF ProxyStep, ListAccounts, SelectAccount, RejectRequest,
              LoadForOutcome, CommitCredentialInvalid, CommitLogOnly,
              CommitSubmit, tables

\* What proxy_job_operation may do to status and cooldown.
LEMMA JobRows ==
    ASSUME SerialWriters, IInv, NEW s \in Sessions, JobStep(s)
    PROVE  RowSteps
  <1> USE NoneAssumption DEF IInv, Base, TypeOK
  <1>1. CASE UNCHANGED accounts
    BY <1>1 DEF RowSteps, RowStep
  <1>2. CASE CommitSettlement(s)
    <2> DEFINE a == ses[s].account
    <2>1. /\ ses[s].credits \in Costs /\ a \in Accounts
          /\ accounts[a] \in AccountRow /\ ses[s].row = accounts[a]
      BY <1>2 DEF CommitSettlement, Shape, ShapeOf, UsesJob, Rows, JobRow,
                  Locked
    <2> DEFINE new == ApplySuccess(accounts[a], ses[s].credits)
    <2>2. new \in AccountRow /\ RowStep(accounts[a], new)
      BY <2>1, ApplySuccessType, SuccessRow
    <2>3. accounts' = [accounts EXCEPT ![a] = Merge(accounts[a], accounts[a], new)]
      BY <1>2, <2>1 DEF CommitSettlement
    <2> HIDE DEF a, new
    <2>4. accounts' = [accounts EXCEPT ![a] = new]
      BY <2>1, <2>2, <2>3, MergeFresh
    <2> QED BY <2>1, <2>2, <2>4, OneRow
  <1> QED BY <1>1, <1>2
          DEF JobStep, GetJob, LoadForSettlement, CommitPoll, CommitCancel,
              PassThrough, tables

\* What new accounts and refresh passes may do to status and cooldown.
LEMMA OtherRows ==
    ASSUME IInv, TypeOK',
           CreateStep \/ \E r \in Replicas : RefreshStep(r)
    PROVE  RowSteps
  <1> USE NoneAssumption DEF IInv, Base, TypeOK
  <1>1. CASE UNCHANGED accounts
    BY <1>1 DEF RowSteps, RowStep
  <1>2. ASSUME NEW a \in Accounts, NEW x \in Readings \cup {None},
               CreateAccount(a, x)
        PROVE  RowSteps
    BY <1>2 DEF CreateAccount, RowSteps, RowStep
  <1>3. ASSUME NEW r \in Replicas, CommitPass(r) PROVE RowSteps
    <2> SUFFICES ASSUME NEW a \in Accounts
                 PROVE  RowStep(accounts[a], accounts'[a])
      BY DEF RowSteps
    <2>1. accounts'[a] = Refreshed(r, a)
      BY <1>3 DEF CommitPass
    <2>2. CASE accounts[a] \in AccountRow
      <3>1. refresh[r].reading[a] \in Balance
        BY DEF Pass
      <3>2. /\ Refreshed(r, a) \in AccountRow
            /\ Refreshed(r, a).status = accounts[a].status
            /\ Refreshed(r, a).cooldown = accounts[a].cooldown
        BY <2>2, <3>1 DEF Refreshed, AccountRow
      <3> QED BY <2>1, <2>2, <3>2 DEF RowStep
    <2>3. CASE accounts[a] = None
      BY <2>1, <2>3 DEF PassShape, Refreshed, RowStep
    <2> QED BY <2>2, <2>3
  <1> QED BY <1>1, <1>2, <1>3
          DEF CreateStep, CreateCredential, RefreshStep, StartPass,
              ReadUpstream, FailPass, tables

\* Every step is either an operator's update of one account or changes rows as
\* RowStep says.
LEMMA StepRows ==
    ASSUME SerialWriters, IInv, [Next]_vars
    PROVE  RowSteps \/ \E s \in Sessions : UpdateAccount(s)
  <1>1. CASE UNCHANGED accounts
    BY <1>1 DEF RowSteps, RowStep
  <1>2. TypeOK'
    BY StepType DEF IInv
  <1>3. ASSUME NEW s \in Sessions, AdminStep(s)
        PROVE  UNCHANGED accounts \/ UpdateAccount(s)
    BY <1>3 DEF AdminStep, LoadAccount, LoadCredential, UpdateCredential, tables
  <1> QED BY <1>1, <1>2, <1>3, ProxyRows, JobRows, OtherRows
          DEF Next, Abort, vars, tables

\* Only an update of an account touches it.
LEMMA StepTouched ==
    ASSUME [Next]_vars, \A s \in Sessions : ~UpdateAccount(s)
    PROVE  UNCHANGED touched
  <1> USE DEF history
  <1>1. ASSUME NEW s \in Sessions, ProxyStep(s) PROVE UNCHANGED touched
    <2>1. CASE \E op, est : ListAccounts(s, op, est)
      BY <2>1 DEF ListAccounts
    <2>2. CASE \E status, credits : LoadForOutcome(s, status, credits)
      BY <2>2 DEF LoadForOutcome
    <2> QED BY <1>1, <2>1, <2>2
            DEF ProxyStep, SelectAccount, RejectRequest, CommitSuccess,
                CommitCreditExhausted, CommitRateLimited,
                CommitCredentialInvalid, CommitLogOnly, CommitSubmit
  <1>2. ASSUME NEW s \in Sessions, JobStep(s) PROVE UNCHANGED touched
    BY <1>2 DEF JobStep, GetJob, LoadForSettlement, CommitSettlement,
                CommitPoll, CommitCancel, PassThrough
  <1>3. ASSUME NEW s \in Sessions, AdminStep(s) PROVE UNCHANGED touched
    BY <1>3 DEF AdminStep, LoadAccount, LoadCredential, UpdateCredential
  <1>4. ASSUME NEW r \in Replicas, RefreshStep(r) PROVE UNCHANGED touched
    BY <1>4 DEF RefreshStep, StartPass, ReadUpstream, CommitPass, FailPass
  <1> QED BY <1>1, <1>2, <1>3, <1>4
          DEF Next, CreateStep, CreateAccount, CreateCredential, Abort, vars

\* An update without a status and a cooldown leaves both as they are in the
\* table.
LEMMA PatchKeeps ==
    ASSUME NEW cur \in AccountRow, NEW old \in AccountRow, NEW p \in Patches,
           p.status = Keep, p.cooldown = Keep, Keep # TRUE
    PROVE  /\ Updated(cur, old, p).status = cur.status
           /\ Updated(cur, old, p).cooldown = cur.cooldown
  <1> DEFINE new == Patched(old, p)
             m == Merge(cur, old, new)
  <1>1. new.status = old.status /\ new.cooldown = old.cooldown
    BY DEF Patched
  <1>2. m.status = cur.status /\ m.cooldown = cur.cooldown
    <2> HIDE DEF new
    <2> QED BY <1>1 DEF Merge
  <1>3. /\ Updated(cur, old, p).status = m.status
        /\ Updated(cur, old, p).cooldown
             = IF p.cooldown = TRUE THEN TRUE ELSE m.cooldown
    BY DEF Updated
  <1> HIDE DEF m
  <1> QED BY <1>2, <1>3

-----------------------------------------------------------------------------

\* Late answers: an account that an operator paused or marked invalid, or that
\* ran out of credits, is not put back into service by apply_success, by a 402
\* or 429, or by a refresh pass.
THEOREM OnlyOperatorRevivesCorrect ==
    SerialWriters => (Spec => OnlyOperatorRevives)
  <1> SUFFICES ASSUME SerialWriters PROVE Spec => OnlyOperatorRevives
    OBVIOUS
  <1> DEFINE A == \A a \in Accounts :
         /\ accounts[a] # None /\ accounts'[a] # None
         /\ accounts[a].status \in {"paused", "invalid", "credit_exhausted"}
         /\ accounts'[a].status = "active"
         => \E s \in Sessions : /\ pc[s] = "patching"
                                /\ ses[s].account = a
                                /\ pc'[s] = "idle"
  <1>1. ASSUME IInv, [Next]_vars PROVE A
    <2>1. CASE RowSteps
      BY <2>1 DEF RowSteps, RowStep
    <2>2. ASSUME NEW s \in Sessions, UpdateAccount(s) PROVE A
      <3>1. pc[s] = "patching" /\ pc'[s] = "idle"
        BY <1>1, <2>2 DEF UpdateAccount, Close, IInv, Base, TypeOK
      <3>2. \A a \in Accounts \ {ses[s].account} : accounts'[a] = accounts[a]
        BY <1>1, <2>2 DEF UpdateAccount, IInv, Base, TypeOK
      <3> QED BY <3>1, <3>2
    <2> QED BY <1>1, <2>1, <2>2, StepRows
  <1>2. IInv /\ [Next]_vars => [A]_vars
    BY <1>1
  <1> HIDE DEF A
  <1>3. Spec => [][A]_vars
    BY <1>2, AlwaysIInv, PTL DEF Spec
  <1> QED BY <1>3 DEF A, OnlyOperatorRevives

\* Routing cannot raise on an account whose status and cooldown no operator
\* has set: the handlers of a 429 and of a success change the two together.
THEOREM RoutingRaisesCorrect ==
    SerialWriters => (Spec => []RoutingRaisesOnlyIfTouched)
  <1> SUFFICES ASSUME SerialWriters
               PROVE  Spec => []RoutingRaisesOnlyIfTouched
    OBVIOUS
  <1>1. Init => RoutingRaisesOnlyIfTouched
    BY DEF Init, RoutingRaisesOnlyIfTouched
  <1>2. ASSUME IInv, RoutingRaisesOnlyIfTouched, [Next]_vars
        PROVE  RoutingRaisesOnlyIfTouched'
    <2>1. TypeOK /\ TypeOK'
      BY <1>2, StepType DEF IInv, Base
    <2>2. ASSUME NEW s \in Sessions, UpdateAccount(s)
          PROVE  RoutingRaisesOnlyIfTouched'
      <3> DEFINE a == ses[s].account
      <3>1. /\ a \in Accounts /\ accounts[a] \in AccountRow
            /\ ses[s].row \in AccountRow /\ ses[s].patch \in Patches
            /\ accounts'[a] = Updated(accounts[a], ses[s].row, ses[s].patch)
            /\ \A b \in Accounts \ {a} : /\ accounts'[b] = accounts[b]
                                         /\ touched'[b] = touched[b]
        BY <1>2, <2>1, <2>2 DEF UpdateAccount, IInv, Base, TypeOK, Shape,
                                ShapeOf
      <3>2. CASE ses[s].patch.status = Keep /\ ses[s].patch.cooldown = Keep
        <4>1. Keep # TRUE
          BY NoneAssumption
        <4>2. /\ accounts'[a].status = accounts[a].status
              /\ accounts'[a].cooldown = accounts[a].cooldown
          <5> DEFINE new == Updated(accounts[a], ses[s].row, ses[s].patch)
          <5>1. /\ new.status = accounts[a].status
                /\ new.cooldown = accounts[a].cooldown
            BY <3>1, <3>2, <4>1, PatchKeeps
          <5>2. accounts'[a] = new
            BY <3>1
          <5> HIDE DEF new
          <5> QED BY <5>1, <5>2
        <4>3. touched'[a] = touched[a]
          BY <2>1, <2>2, <3>1, <3>2 DEF UpdateAccount, TypeOK
        <4> QED BY <1>2, <3>1, <4>2, <4>3, NoneAssumption
                DEF RoutingRaisesOnlyIfTouched
      <3>3. CASE ses[s].patch.status # Keep \/ ses[s].patch.cooldown # Keep
        <4>1. touched'[a]
          BY <2>1, <2>2, <3>1, <3>3 DEF UpdateAccount, TypeOK
        <4> QED BY <1>2, <3>1, <4>1 DEF RoutingRaisesOnlyIfTouched
      <3> QED BY <3>2, <3>3
    <2>3. ASSUME \A s \in Sessions : ~UpdateAccount(s)
          PROVE  RoutingRaisesOnlyIfTouched'
      <3>1. RowSteps
        BY <1>2, <2>3, StepRows
      <3>2. UNCHANGED touched
        BY <1>2, <2>3, StepTouched
      <3> SUFFICES ASSUME NEW a \in Accounts, accounts'[a] # None,
                          accounts'[a].status = "active", accounts'[a].cooldown
                   PROVE  touched'[a]
        BY DEF RoutingRaisesOnlyIfTouched
      <3>3. RowStep(accounts[a], accounts'[a])
        BY <3>1 DEF RowSteps
      <3>4. accounts[a] # None /\ accounts[a].status = "active"
              /\ accounts[a].cooldown
        BY <3>3, NoneAssumption DEF RowStep
      <3> QED BY <1>2, <3>2, <3>4 DEF RoutingRaisesOnlyIfTouched
    <2> QED BY <2>2, <2>3
  <1>3. IInv /\ RoutingRaisesOnlyIfTouched /\ [Next]_vars
          => RoutingRaisesOnlyIfTouched'
    BY <1>2
  <1> QED BY <1>1, <1>3, AlwaysIInv, PTL DEF Spec

=============================================================================
