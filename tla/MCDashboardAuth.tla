-------------------------- MODULE MCDashboardAuth --------------------------
(***************************************************************************)
(* Instances of DashboardAuth for TLC.                                     *)
(***************************************************************************)
EXTENDS DashboardAuth, TLC

CONSTANTS r1, r2, h1, h2

MCReplicas == {r1, r2}
MCHandlers == {h1, h2}

\* One deployment whose clients set, change and remove the password, one
\* whose clients enroll, use, disable and remove TOTP.
MCConfigs ==
    {[mode |-> "standard", manual |-> FALSE,
      calls |-> {"setup", "login", "change", "remove"}],
     [mode |-> "trusted_header", manual |-> TRUE,
      calls |-> {"remove", "enroll", "verify", "disable"}]}

MCPassword ==
    {[mode |-> "standard", manual |-> FALSE, calls |-> {"change", "remove"}]}

\* Replicas and requests are interchangeable.
MCSymmetry == Permutations(MCReplicas) \cup Permutations(MCHandlers)

=============================================================================
