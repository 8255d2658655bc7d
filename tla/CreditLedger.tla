---------------------------- MODULE CreditLedger ----------------------------
(***************************************************************************)
(* What the proxy promises about the credits of an account, with no        *)
(* database, no sessions and no ORM: an account has a balance, a finished  *)
(* upstream call owes it a debit, and the debit is taken from the balance  *)
(* that is there when it is recorded.  The operator and the refresh pass   *)
(* assign balances.  FirecrawlProxy implements this specification when the *)
(* database serialises its writers (see Ledger there).                     *)
(***************************************************************************)
EXTENDS Naturals

CONSTANTS
    Accounts,   \* the Firecrawl accounts
    Sessions,   \* the request handlers that can owe a debit
    Costs,      \* the credits one call can cost
    None        \* no value: an account without a known balance, no debit

VARIABLES
    balance,    \* balance[a]: the credits left, None when unknown
    owed,       \* owed[s]: the debit session s has still to record, or None
    failed      \* the sessions whose last call ended without an answer

vars == <<balance, owed, failed>>

Balance == Nat \cup {None}

Debits == [account : Accounts, credits : Costs]

\* A balance never goes below zero, and an unknown one stays unknown.
Debit(b, c) == IF b = None THEN None ELSE IF b >= c THEN b - c ELSE 0

Init == /\ balance \in [Accounts -> Balance]
        /\ owed = [s \in Sessions |-> None]
        /\ failed = {}

\* A new call starts.
Begin(s) == /\ s \in failed
            /\ failed' = failed \ {s}
            /\ UNCHANGED <<balance, owed>>

\* An upstream call has succeeded; its cost is known and not yet recorded.
Owe(s) == \E d \in Debits :
            /\ s \notin failed /\ owed[s] = None
            /\ owed' = [owed EXCEPT ![s] = d]
            /\ UNCHANGED <<balance, failed>>

\* The debit is recorded, once, against the current balance.
Pay(s) == /\ owed[s] # None
          /\ balance' = [balance EXCEPT
                           ![owed[s].account] = Debit(@, owed[s].credits)]
          /\ owed' = [owed EXCEPT ![s] = None]
          /\ UNCHANGED failed

\* The call fails before anything is recorded; its client gets an error.
Fail(s) == /\ owed' = [owed EXCEPT ![s] = None]
           /\ failed' = failed \cup {s}
           /\ UNCHANGED balance

\* The operator or a refresh pass assigns balances.
Assign == /\ balance' \in [Accounts -> Balance]
          /\ UNCHANGED <<owed, failed>>

Next == \/ \E s \in Sessions : Begin(s) \/ Owe(s) \/ Pay(s) \/ Fail(s)
        \/ Assign

Spec == Init /\ [][Next]_vars
=============================================================================
