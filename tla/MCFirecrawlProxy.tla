-------------------------- MODULE MCFirecrawlProxy --------------------------
(* Values for the constants of FirecrawlProxy. *)
EXTENDS FirecrawlProxy, TLC

\* An operator who pauses, reactivates (with the cooldown cleared, as the
\* dashboard's form sends it) and corrects the balance.
MCPatches ==
    {[status |-> "paused", remaining |-> Keep, cooldown |-> Keep],
     [status |-> "active", remaining |-> Keep, cooldown |-> FALSE],
     [status |-> Keep, remaining |-> 1, cooldown |-> Keep]}

\* An operator who gives an account a cooldown and changes nothing else.
MCSetCooldown == {[status |-> Keep, remaining |-> Keep, cooldown |-> TRUE]}

\* An operator who leaves the accounts alone.
MCNoPatches == {}

\* Handlers, keys and accounts are interchangeable.
MCSymmetry == Permutations(Sessions) \cup Permutations(Credentials)
              \cup Permutations(Accounts)
=============================================================================
