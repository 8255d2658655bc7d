---------------------------- MODULE ReleaseTrain ----------------------------
(***************************************************************************)
(* The release scripts and the workflows that call them: beta candidates   *)
(* are prepared from main on a branch per version, validated by people,    *)
(* merged as pull requests behind the release guards, and published as     *)
(* tags.  Everything that happens on GitHub in between (pushes, merges,    *)
(* edited descriptions) comes in any order.                                *)
(*                                                                         *)
(* A tree is the set of changes it contains and the release-managed        *)
(* version fields.  A commit is named by its position in commits, so that  *)
(* two commits with the same tree are different candidates.                *)
(***************************************************************************)
EXTENDS Integers, Sequences, FiniteSetsExt

CONSTANTS
    Files,      \* release-managed version fields
    Releasable, \* changes whose subject is a releasable Conventional Commit
    Noise,      \* other changes
    Configs,    \* bounds on what happens besides the workflows, one per behaviour:
                \* the changes that may land, the pull requests of other
                \* branches and how many of them, the betas made by hand and
                \* how many of them, the last stable version and the runs of
                \* the sync workflow
    MaxBase,    \* bound: stable versions
    MaxSerial,  \* bound: betas of one stable version
    MaxCommits  \* bound: commits

\* What people put into a pull request: which fields they set to which version.
Bump == [version : [base : 0..MaxBase, serial : 0..MaxSerial], touched : SUBSET Files]

\* A pull request of another branch: release-please's, one of a fork that is
\* named like a beta's, or any other.  Those of this repository's beta branches
\* are apart.
Proposal ==
    {p \in [bump : Bump, canonical : BOOLEAN, kind : {"feature", "release-please", "beta"}] :
        p.kind = "beta" => ~p.canonical}

ASSUME ReleaseAssumption ==
    /\ {"pyproject.toml", "uv.lock"} \subseteq Files
    /\ {MaxBase, MaxSerial, MaxCommits} \subseteq Nat
    /\ Configs \subseteq [changes : SUBSET (Releasable \cup Noise),
                          proposals : SUBSET Proposal, maxFeatures : Nat,
                          byHand : SUBSET {b \in Bump : b.version.serial > 0}, maxByHand : Nat,
                          maxBase : 1..MaxBase, syncs : Nat]

VARIABLES
    config,     \* the behaviour's bounds
    commits,    \* the commits there are: a tree and the commit it is based on
    main,       \* the head of main
    nextBase,   \* the stable version of the release-please branch
    branch,     \* branch[v]: head of release/beta-v, 0 if there is none
    pull,       \* pull[v]: the pull request of that branch
    features,   \* the pull requests of other branches
    candidates, \* the heads that were pushed to the beta branches
    sync,       \* the run of the sync workflow
    syncs,      \* runs so far
    publishing, \* merged pull requests whose publish workflow has not ended
    tags,       \* tags[v]: the commit tagged v, 0 if there is none
    tested,     \* candidates that people have really tested
    raced       \* history: a partial bump was merged into a main with other
                \* version fields than the one it was judged with

vars == <<config, commits, main, nextBase, branch, pull, features, candidates, sync, syncs,
          publishing, tags, tested, raced>>

\* A ReleaseVersion: X.Y.Z is a number, serial 0 is the stable channel.
Version == [base : 0..MaxBase, serial : 0..MaxSerial]
Beta == {v \in Version : v.serial > 0}
Stable(base) == [base |-> base, serial |-> 0]

\* A pull request: open or not, with the evidence in its description (the
\* validated candidate, and whether the required boxes are checked), and the
\* main with which the checks of its head and description passed, 0 if they
\* have not.
NoPull == [open |-> FALSE, body |-> [sha |-> 0, checked |-> FALSE], green |-> 0]

Idle == [stage |-> "idle"]

TreeAt(sha) == commits[sha].tree

-----------------------------------------------------------------------------
\* release_versions

\* update_project_versions: every field, uv.lock in the spelling of PEP 440.
Written(v) ==
    [f \in Files |-> [version |-> v, pep440 |-> f = "uv.lock" /\ v.serial > 0]]

\* canonical_release_version_for_file
Canonical(files) ==
    [f \in Files |-> IF f = "uv.lock" THEN [files[f] EXCEPT !.pep440 = FALSE] ELSE files[f]]

\* assert_project_versions
VersionsAre(files, v) ==
    \A f \in Files : Canonical(files)[f] = [version |-> v, pep440 |-> FALSE]

\* A mutated model: only pyproject.toml is read.
ConsistentUnread(files) == TRUE

\* read_consistent_release_version
Consistent(files) ==
    \A f, g \in Files : Canonical(files)[f] = Canonical(files)[g]

ProjectVersion(files) == files["pyproject.toml"].version

\* latest_beta_tag: the highest serial of the stable version, 0 if none.
LatestBeta(base) ==
    Max({0} \cup {v.serial : v \in {b \in Beta : b.base = base /\ tags[b] # 0}})

\* A mutated model: nothing counts as covered by a tag.
CoveredNever(tree, v) == FALSE

\* No releasable_commits_since the tag
Covered(tree, v) ==
    v.serial > 0 /\ tree.code \cap Releasable \subseteq TreeAt(tags[v]).code

-----------------------------------------------------------------------------
\* The guards

\* require_validation_evidence
Evidence(body, sha) == body.checked /\ body.sha = sha

\* guard_pull_request, on the merge of the pull request with main.  (A merge
\* queue has no payload for it and is refused any beta: left out.)
GuardBeta(ref, canonical, body, sha, tree, base) ==
    LET release == ProjectVersion(tree.files)
        canonicalBeta == ref.kind = "beta" /\ VersionsAre(tree.files, ref.version)
    IN  \/ Canonical(tree.files) = Canonical(base.files) /\ ~canonicalBeta
        \/ Consistent(tree.files) /\ release.serial = 0
        \/ /\ Consistent(tree.files)
           /\ ref = [kind |-> "beta", version |-> release]
           /\ canonical
           /\ Evidence(body, sha)

\* guard_stable_pull_request
GuardStable(ref, canonical, tree, base) ==
    LET changed == {f \in Files : Canonical(tree.files)[f] # Canonical(base.files)[f]}
    IN  \/ "pyproject.toml" \notin changed
        \/ ProjectVersion(tree.files).serial > 0
        \/ /\ ref.kind = "release-please" /\ canonical
           /\ Consistent(tree.files) /\ changed = Files

\* A mutated model: the merge may bring along what landed meanwhile.
SameTreeUnasked(published, validated) == TRUE

\* require_published_tree_matches_validated_candidate
SameTree(published, validated) == TreeAt(published) = TreeAt(validated)

\* verify_release_version --require-channel beta, then guard_publish
GuardPublish(p) ==
    LET release == ProjectVersion(TreeAt(p.sha).files)
    IN  /\ release.serial > 0
        /\ VersionsAre(TreeAt(p.sha).files, release)
        /\ p.version = release /\ p.canonical
        /\ Evidence(p.body, p.head)
        /\ SameTree(p.sha, p.head)

-----------------------------------------------------------------------------
\* git merge

\* The version fields merge unless both sides changed one differently.
Mergeable(base, ours, theirs) ==
    \A f \in Files :
        theirs.files[f] \in {base.files[f], ours.files[f]} \/ ours.files[f] = base.files[f]

Merge(base, ours, theirs) ==
    [code |-> ours.code \cup theirs.code,
     files |-> [f \in Files |->
        IF theirs.files[f] = base.files[f] THEN ours.files[f] ELSE theirs.files[f]]]

\* The merge of a candidate with main, as GitHub prepares it for the checks.
MergeOf(sha) == Merge(TreeAt(commits[sha].parent), TreeAt(main), TreeAt(sha))
MergeableOf(sha) == Mergeable(TreeAt(commits[sha].parent), TreeAt(main), TreeAt(sha))

-----------------------------------------------------------------------------
Init ==
    /\ config \in Configs
    /\ commits = << [tree |-> [code |-> {}, files |-> Written(Stable(0))], parent |-> 1] >>
    /\ main = 1 /\ nextBase = 1
    /\ branch = [v \in Beta |-> 0]
    /\ pull = [v \in Beta |-> NoPull]
    /\ features = {} /\ candidates = {}
    /\ sync = Idle /\ syncs = 0
    /\ publishing = {}
    /\ tags = [v \in Beta |-> 0]
    /\ tested = {} /\ raced = FALSE

Commit(tree, parent) ==
    /\ Len(commits) < MaxCommits
    /\ commits' = Append(commits, [tree |-> tree, parent |-> parent])

\* The tree of main with some version fields set.
Bumped(touched, v) ==
    [TreeAt(main) EXCEPT !.files =
        [f \in Files |-> IF f \in touched THEN Written(v)[f] ELSE @[f]]]

-----------------------------------------------------------------------------
\* The sync workflow.  One run at a time; it may fail or be cancelled anywhere.

\* Checkout main
Checkout ==
    /\ sync = Idle /\ syncs < config.syncs
    /\ sync' = [stage |-> "prepare", main |-> main, lease |-> branch]
    /\ syncs' = syncs + 1
    /\ UNCHANGED <<config, commits, main, nextBase, branch, pull, features, candidates,
                   publishing, tags, tested, raced>>

\* Fetch release metadata, and prepare_beta_release on the checked out main.
Prepare ==
    LET tree == TreeAt(sync.main)
        latest == [base |-> nextBase, serial |-> LatestBeta(nextBase)]
        next == [latest EXCEPT !.serial = @ + 1]
    IN  /\ sync.stage = "prepare"
        /\ \/ /\ Covered(tree, latest)
              /\ sync' = IF VersionsAre(tree.files, latest)
                         THEN [stage |-> "list", version |-> latest] ELSE Idle
           \/ /\ ~Covered(tree, latest) /\ next \in Beta
              /\ sync' = IF Written(next) = tree.files
                         THEN [stage |-> "list", version |-> next]
                         ELSE [stage |-> "push", version |-> next, main |-> sync.main,
                               lease |-> sync.lease,
                               over |-> IF latest.serial > 0 THEN tags[latest] ELSE 0]
        /\ UNCHANGED <<config, commits, main, nextBase, branch, pull, features, candidates, syncs,
                       publishing, tags, tested, raced>>

\* git push --force-with-lease: only over the head that was checked out.
Push ==
    /\ sync.stage = "push"
    /\ branch[sync.version] = sync.lease[sync.version]
    /\ Commit([TreeAt(sync.main) EXCEPT !.files = Written(sync.version)], sync.main)
    /\ branch' = [branch EXCEPT ![sync.version] = Len(commits')]
    /\ candidates' = candidates \cup
         {[version |-> sync.version, sha |-> Len(commits'), byHand |-> FALSE, over |-> sync.over]}
    /\ pull' = [pull EXCEPT ![sync.version].green = 0]
    /\ sync' = [stage |-> "edit", version |-> sync.version, sha |-> Len(commits')]
    /\ UNCHANGED <<config, main, nextBase, features, syncs, publishing, tags, tested, raced>>

\* gh pr edit or gh pr create, with the boxes unchecked for the candidate.
EditPull ==
    /\ sync.stage = "edit"
    /\ branch[sync.version] # 0
    /\ pull' = [pull EXCEPT ![sync.version] =
                    [open |-> TRUE, body |-> [sha |-> sync.sha, checked |-> FALSE], green |-> 0]]
    /\ sync' = [stage |-> "list", version |-> sync.version]
    /\ UNCHANGED <<config, commits, main, nextBase, branch, features, candidates, syncs,
                   publishing, tags, tested, raced>>

\* is_cleanup_candidate: the open beta pull requests of the automation but the
\* current one.
Superseded(v) == pull[v].open /\ v # sync.version

\* cleanup_superseded_beta_prs: fetch_open_prs and cleanup_plan.  Those that
\* people opened, pinned or renamed, or whose description lost the sentinel, are
\* spared.
ListSuperseded ==
    /\ sync.stage = "list"
    /\ \E spared \in SUBSET {v \in Beta : Superseded(v)} :
        sync' = [stage |-> "close", version |-> sync.version,
                 doomed |-> {v \in Beta : Superseded(v)} \ spared]
    /\ UNCHANGED <<config, commits, main, nextBase, branch, pull, features, candidates, syncs,
                   publishing, tags, tested, raced>>

\* execute_cleanup: gh pr close, which fails if the pull request is merged.
CloseSuperseded(v) ==
    /\ sync.stage = "close" /\ v \in sync.doomed
    /\ IF pull[v].open
       THEN /\ pull' = [pull EXCEPT ![v] = NoPull]
            /\ sync' = [stage |-> "delete", version |-> sync.version, closed |-> v,
                        doomed |-> sync.doomed \ {v}]
       ELSE sync' = Idle /\ UNCHANGED pull
    /\ UNCHANGED <<config, commits, main, nextBase, branch, features, candidates, syncs,
                   publishing, tags, tested, raced>>

\* execute_cleanup, then: DELETE of the branch, whatever was pushed there
\* meanwhile.  GitHub closes the pull request of a branch that is gone.
DeleteSuperseded ==
    /\ sync.stage = "delete"
    /\ branch' = [branch EXCEPT ![sync.closed] = 0]
    /\ pull' = [pull EXCEPT ![sync.closed] = NoPull]
    /\ sync' = [stage |-> "close", version |-> sync.version, doomed |-> sync.doomed]
    /\ UNCHANGED <<config, commits, main, nextBase, features, candidates, syncs, publishing, tags,
                   tested, raced>>

\* The run ends, by itself or by a failure.
SyncEnds ==
    /\ sync.stage # "idle" /\ sync' = Idle
    /\ UNCHANGED <<config, commits, main, nextBase, branch, pull, features, candidates, syncs,
                   publishing, tags, tested, raced>>

-----------------------------------------------------------------------------
\* People, GitHub and release-please

\* Somebody prepares a beta by hand (--beta-number asks for no new change, and
\* an edit may leave fields out), pushes it by force and has its pull request.
PushByHand(b) ==
    LET v == b.version
    IN  /\ Cardinality({c \in candidates : c.byHand}) < config.maxByHand
        /\ Commit(Bumped(b.touched, v), main)
        /\ branch' = [branch EXCEPT ![v] = Len(commits')]
        /\ candidates' = candidates \cup
             {[version |-> v, sha |-> Len(commits'), byHand |-> TRUE, over |-> 0]}
        /\ pull' = [pull EXCEPT ![v].open = TRUE, ![v].green = 0]
        /\ UNCHANGED <<config, main, nextBase, features, sync, syncs, publishing, tags, tested, raced>>

\* Somebody tests a candidate of the version and records the evidence: the one
\* they read of, which need not be the head any more.
Attest(v, sha) ==
    /\ pull[v].open
    /\ \E c \in candidates : c.version = v /\ c.sha = sha
    /\ pull[v].body # [sha |-> sha, checked |-> TRUE]
    /\ tested' = tested \cup {sha}
    /\ pull' = [pull EXCEPT ![v].body = [sha |-> sha, checked |-> TRUE], ![v].green = 0]
    /\ UNCHANGED <<config, commits, main, nextBase, branch, features, candidates, sync, syncs,
                   publishing, tags, raced>>

\* CI on a pull request: it merges with main, and both guards pass on the merge.
Passes(ref, canonical, body, sha) ==
    LET tree == MergeOf(sha)
    IN  /\ MergeableOf(sha)
        /\ GuardBeta(ref, canonical, body, sha, tree, TreeAt(main))
        /\ GuardStable(ref, canonical, tree, TreeAt(main))

\* The head sets version fields to no one version, and main's are not those
\* that it was judged with.
MergesLate(sha, judged) ==
    /\ \A v \in Version : TreeAt(sha).files # Written(v)
    /\ TreeAt(judged).files # TreeAt(main).files

\* A beta's pull request is judged when it was edited or pushed to.
CheckPull(v) ==
    /\ pull[v].open /\ pull[v].green = 0 /\ branch[v] # 0
    /\ Passes([kind |-> "beta", version |-> v], TRUE, pull[v].body, branch[v])
    /\ pull' = [pull EXCEPT ![v].green = main]
    /\ UNCHANGED <<config, commits, main, nextBase, branch, features, candidates, sync, syncs,
                   publishing, tags, tested, raced>>

\* Somebody merges it.  The publish workflow gets the event's payload.  The
\* branch stays or is deleted.
MergePull(v, deleted) ==
    /\ pull[v].open /\ pull[v].green # 0 /\ branch[v] # 0
    /\ MergeableOf(branch[v])
    /\ Commit(MergeOf(branch[v]), main)
    /\ main' = Len(commits')
    /\ raced' = (raced \/ MergesLate(branch[v], pull[v].green))
    /\ publishing' = publishing \cup
         {[version |-> v, canonical |-> TRUE, head |-> branch[v], body |-> pull[v].body,
           sha |-> main']}
    /\ pull' = [pull EXCEPT ![v] = NoPull]
    /\ branch' = IF deleted THEN [branch EXCEPT ![v] = 0] ELSE branch
    /\ UNCHANGED <<config, nextBase, features, candidates, sync, syncs, tags, tested>>

\* A change lands that touches no version field, which both guards let pass.
Land(change) ==
    /\ change \notin TreeAt(main).code
    /\ Commit([TreeAt(main) EXCEPT !.code = @ \cup {change}], main)
    /\ main' = Len(commits')
    /\ UNCHANGED <<config, nextBase, branch, pull, features, candidates, sync, syncs, publishing,
                   tags, tested, raced>>

\* A pull request of another branch.
Propose(p) ==
    /\ Cardinality(features) < config.maxFeatures
    /\ Commit(Bumped(p.bump.touched, p.bump.version), main)
    /\ features' = features \cup
         {[head |-> Len(commits'), canonical |-> p.canonical, merged |-> FALSE, green |-> 0,
           ref |-> [kind |-> p.kind, version |-> p.bump.version]]}
    /\ UNCHANGED <<config, main, nextBase, branch, pull, candidates, sync, syncs, publishing, tags,
                   tested, raced>>

\* Its description has every box checked.
Described(f) == [sha |-> f.head, checked |-> TRUE]

CheckFeature(f) ==
    /\ ~f.merged /\ f.green = 0
    /\ Passes(f.ref, f.canonical, Described(f), f.head)
    /\ features' = (features \ {f}) \cup {[f EXCEPT !.green = main]}
    /\ UNCHANGED <<config, commits, main, nextBase, branch, pull, candidates, sync, syncs,
                   publishing, tags, tested, raced>>

\* Release-please moves on to the next version once its pull request is in; a
\* branch that is named like a beta's starts the publish workflow.
MergeFeature(f) ==
    /\ ~f.merged /\ f.green # 0
    /\ MergeableOf(f.head)
    /\ Commit(MergeOf(f.head), main)
    /\ main' = Len(commits')
    /\ raced' = (raced \/ MergesLate(f.head, f.green))
    /\ features' = (features \ {f}) \cup {[f EXCEPT !.merged = TRUE]}
    /\ nextBase' = IF f.ref.kind = "release-please" /\ nextBase < config.maxBase
                   THEN nextBase + 1 ELSE nextBase
    /\ publishing' = publishing \cup
         (IF f.ref.kind = "beta"
          THEN {[version |-> f.ref.version, canonical |-> f.canonical, head |-> f.head,
                 body |-> Described(f), sha |-> main']}
          ELSE {})
    /\ UNCHANGED <<config, branch, pull, candidates, sync, syncs, tags, tested>>

\* Release-please finds that the next stable version is another one.
Retarget ==
    /\ nextBase < config.maxBase /\ nextBase' = nextBase + 1
    /\ UNCHANGED <<config, commits, main, branch, pull, features, candidates, sync, syncs,
                   publishing, tags, tested, raced>>

-----------------------------------------------------------------------------
\* The publish workflow, one run per merged pull request

\* The guards judge by the payload and by commits, which do not change; what
\* does is whether the tag is still free when it is pushed.
Publish(p) ==
    /\ GuardPublish(p) /\ tags[p.version] = 0
    /\ tags' = [tags EXCEPT ![p.version] = p.sha]
    /\ publishing' = publishing \ {p}
    /\ UNCHANGED <<config, commits, main, nextBase, branch, pull, features, candidates, sync,
                   syncs, tested, raced>>

RefusePublish(p) ==
    /\ ~(GuardPublish(p) /\ tags[p.version] = 0)
    /\ publishing' = publishing \ {p}
    /\ UNCHANGED <<config, commits, main, nextBase, branch, pull, features, candidates, sync,
                   syncs, tags, tested, raced>>

Next ==
    \/ Checkout \/ Prepare \/ Push \/ EditPull \/ ListSuperseded \/ DeleteSuperseded \/ SyncEnds
    \/ \E v \in Beta : CloseSuperseded(v) \/ CheckPull(v)
    \/ \E b \in config.byHand : PushByHand(b)
    \/ \E v \in Beta, sha \in DOMAIN commits : Attest(v, sha)
    \/ \E v \in Beta, deleted \in BOOLEAN : MergePull(v, deleted)
    \/ \E c \in config.changes : Land(c)
    \/ \E p \in config.proposals : Propose(p)
    \/ \E f \in features : CheckFeature(f) \/ MergeFeature(f)
    \/ Retarget
    \/ \E p \in publishing : Publish(p) \/ RefusePublish(p)

Spec == Init /\ [][Next]_vars

-----------------------------------------------------------------------------
\* Properties

\* What is published under a beta's tag was tested, whatever landed on main
\* between the test and the merge, whichever push, description and merge came
\* first, and whoever made the branch.
PublishedWasTested ==
    \A v \in Beta : tags[v] # 0 => \E sha \in tested : TreeAt(sha) = TreeAt(tags[v])

\* The version fields of main agree although the guards judge each pull request
\* by the main of that time and it is merged into a later one.  The one way out
\* is a pull request that sets some fields only: no guard judges it again when
\* the version on main has changed since.
VersionsAgree ==
    ~raced => \A f, g \in Files :
        LET files == Canonical(TreeAt(main).files) IN files[f] = files[g]

\* What is published of the workflow's own candidates has everything that the
\* beta had after which it was numbered, and a releasable change which that one
\* had not, although main is checked out before the tags are fetched, and
\* whatever betas were made by hand.
BetasAdvance ==
    \A v \in Beta, c \in candidates :
        /\ tags[v] # 0 /\ c.version = v /\ ~c.byHand /\ c.over # 0
        /\ TreeAt(c.sha) = TreeAt(tags[v])
        => /\ TreeAt(c.over).code \subseteq TreeAt(tags[v]).code
           /\ (TreeAt(tags[v]).code \ TreeAt(c.over).code) \cap Releasable # {}

=============================================================================
