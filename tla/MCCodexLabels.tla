---------------------------- MODULE MCCodexLabels ---------------------------
(***************************************************************************)
(* An instance of CodexLabels for TLC.                                     *)
(***************************************************************************)
EXTENDS CodexLabels

CONSTANTS old, new, afterPush, scheduled

\* A green pull request, one whose checks run, and one of a fork, for two runs
\* of the script and for one.
MCStarts ==
    LET green(runs, ev, f) == [fork |-> FALSE, checks |-> "success", merge |-> "clean", labels |-> {},
                               syncs |-> runs, events |-> ev, faults |-> f]
        young(runs, ev, f) == [green(runs, ev, f) EXCEPT !.checks = "running", !.merge = "unknown",
                                                        !.labels = {"legacy"}]
        forked(runs, ev, f) == [green(runs, ev, f) EXCEPT !.fork = TRUE, !.checks = "absent"]
    IN  {green(Syncs, 1, 1), green(Syncs, 2, 0), forked(Syncs, 2, 0),
         green({scheduled}, 3, 0), young({scheduled}, 2, 1)}

=============================================================================
