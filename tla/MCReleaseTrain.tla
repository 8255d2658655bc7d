--------------------------- MODULE MCReleaseTrain ---------------------------
(***************************************************************************)
(* Instances of ReleaseTrain for TLC.                                      *)
(***************************************************************************)
EXTENDS ReleaseTrain

CONSTANTS feat, fix, docs

Bumps(base, serial, touched) == [version |-> [base |-> base, serial |-> serial], touched |-> touched]

\* Release-please's own promotion, and pull requests that people open: a
\* promotion from another branch, a fork's branch that is named like a beta's,
\* and bumps of one field.
MCProposals ==
    LET proposal(b, kind, canonical) == [bump |-> b, kind |-> kind, canonical |-> canonical]
    IN  {proposal(Bumps(1, 0, Files), "release-please", TRUE),
         proposal(Bumps(1, 0, Files), "feature", TRUE),
         proposal(Bumps(1, 1, {}), "beta", FALSE),
         proposal(Bumps(1, 1, {"pyproject.toml"}), "feature", TRUE),
         proposal(Bumps(1, 0, {"uv.lock"}), "feature", TRUE)}

\* Two betas of one train; a train that is retargeted; pull requests of other
\* branches beside one beta; betas made by hand beside the workflow's; and
\* betas that go back and forth beside a pull request that sets one field.
MCConfigs ==
    LET only(changes, last, runs) ==
            [changes |-> changes, proposals |-> {}, maxFeatures |-> 0, byHand |-> {},
             maxByHand |-> 0, maxBase |-> last, syncs |-> runs]
    IN  {only({feat, fix}, 1, 3),
         only({feat, docs}, 2, 2),
         [only({feat}, 2, 1) EXCEPT !.proposals = MCProposals, !.maxFeatures = 2],
         [only({feat}, 1, 1) EXCEPT !.maxByHand = 2,
            !.byHand = {Bumps(1, 1, Files), Bumps(1, 2, {"pyproject.toml"})}],
         [only({}, 1, 0) EXCEPT !.maxByHand = 3, !.maxFeatures = 1,
            !.byHand = {Bumps(1, 1, Files), Bumps(1, 2, Files)},
            !.proposals = {[bump |-> Bumps(1, 2, {"pyproject.toml"}), kind |-> "feature",
                            canonical |-> TRUE]}]}

=============================================================================
