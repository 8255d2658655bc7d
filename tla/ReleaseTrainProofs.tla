------------------------- MODULE ReleaseTrainProofs -------------------------
(***************************************************************************)
(* Proofs about ReleaseTrain: what is published was tested, the version    *)
(* fields of main agree unless a partial bump was merged late, and the     *)
(* workflow's betas advance, for any number of version fields, changes,    *)
(* versions, commits, pull requests and betas made by hand.                *)
(***************************************************************************)
EXTENDS ReleaseTrain, Extrema, TLAPS

-----------------------------------------------------------------------------
\* The inductive invariant

Field == [version : Version, pep440 : BOOLEAN]
Tree == [code : SUBSET (Releasable \cup Noise), files : [Files -> Field]]
CommitRecord == [tree : Tree, parent : Nat]
Body == [sha : Nat, checked : BOOLEAN]
Pull == [open : BOOLEAN, body : Body, green : Nat]
Ref == [kind : {"feature", "release-please", "beta"}, version : Version]
Feature == [head : Nat, canonical : BOOLEAN, merged : BOOLEAN, green : Nat, ref : Ref]

\* The names of the commits there are.
Shas == DOMAIN commits

\* Every name of a commit is one, and the records have their fields.
RepoShapes ==
    /\ config \in Configs
    /\ commits \in Seq(CommitRecord)
    /\ \A c \in Shas : commits[c].parent \in Shas
    /\ main \in Shas
    /\ nextBase \in 1..config.maxBase

PullShapes ==
    /\ pull \in [Beta -> Pull]
    /\ \A v \in Beta : pull[v].green # 0 => pull[v].green \in Shas

BetaShapes ==
    /\ branch \in [Beta -> {0} \cup Shas]
    /\ tags \in [Beta -> {0} \cup Shas]
    /\ tested \subseteq Shas
    /\ \A c \in candidates :
          c.version \in Beta /\ c.sha \in Shas /\ c.over \in {0} \cup Shas

PublishShapes ==
    publishing \subseteq [version : Version, canonical : BOOLEAN, head : Shas, body : Body, sha : Shas]

FeatureShapes ==
    \A f \in features :
        /\ f \in Feature /\ f.head \in Shas /\ (f.green # 0 => f.green \in Shas)
        /\ f.ref.kind = "beta" => ~f.canonical

SyncShapes ==
    /\ sync.stage \in {"prepare", "push"} => sync.main \in Shas
    /\ sync.stage \in {"push", "edit"} => sync.version \in Beta
    /\ sync.stage = "push" => sync.over \in {0} \cup Shas
    /\ sync.stage = "edit" => sync.sha \in Shas
    /\ sync.stage = "delete" => sync.closed \in Beta

Shapes ==
    /\ RepoShapes /\ PullShapes /\ BetaShapes /\ PublishShapes /\ FeatureShapes /\ SyncShapes

\* Evidence is of candidates that were tested, in a description and in the
\* payload of an event from this repository.
Attested ==
    /\ \A v \in Beta : pull[v].body.checked => pull[v].body.sha \in tested
    /\ \A p \in publishing : p.canonical /\ p.body.checked => p.body.sha \in tested

Code(sha) == TreeAt(sha).code

\* Commits are ordered by the changes they contain, and main has them all.
Chain ==
    /\ \A c, d \in Shas : Code(c) \subseteq Code(d) \/ Code(d) \subseteq Code(c)
    /\ \A c \in Shas : Code(c) \subseteq Code(main)

\* All of the old changes, and a releasable one more.
Gains(old, new) == old \subseteq new /\ (new \ old) \cap Releasable # {}

Advancing ==
    /\ sync.stage = "push" /\ sync.over # 0 => Gains(Code(sync.over), Code(sync.main))
    /\ \A c \in candidates : ~c.byHand /\ c.over # 0 => Gains(Code(c.over), Code(c.sha))

\* Every field is spelled as update_project_versions does.
Spelled(files) == \A f \in Files : files[f] = Written(files[f].version)[f]

\* The fields are those of one version.
Agreed(files) == \E v \in Version : files = Written(v)

FilesAt(sha) == TreeAt(sha).files

\* The head merged with the main of its check into fields that agree.
Judged(head, green) ==
    Agreed(Merge(TreeAt(commits[head].parent), TreeAt(green), TreeAt(head)).files)

\* While no partial bump was merged late, the fields of main have always
\* agreed, and so did the merges that were judged.
UniformRepo ==
    /\ Agreed(FilesAt(main))
    /\ \A c \in Shas : Agreed(FilesAt(commits[c].parent))
UniformSync == sync.stage \in {"prepare", "push"} => Agreed(FilesAt(sync.main))
UniformPulls ==
    \A v \in Beta : pull[v].green # 0 /\ branch[v] # 0 => Judged(branch[v], pull[v].green)
UniformFeatures == \A f \in features : f.green # 0 => Judged(f.head, f.green)
Uniform == UniformRepo /\ UniformSync /\ UniformPulls /\ UniformFeatures

AllSpelled == \A c \in Shas : Spelled(FilesAt(c))

-----------------------------------------------------------------------------
\* Commits

\* Commits are only ever added.
Grown == Shas \subseteq Shas' /\ \A c \in Shas : commits'[c] = commits[c]

LEMMA ShasAre ==
    ASSUME commits \in Seq(CommitRecord)
    PROVE  /\ Shas = 1..Len(commits) /\ Shas \subseteq Nat /\ 0 \notin Shas
           /\ \A c \in Shas : commits[c] \in CommitRecord
  BY DEF Shas

LEMMA CommitIs ==
    ASSUME commits \in Seq(CommitRecord), NEW tree \in Tree, NEW parent \in Shas,
           Commit(tree, parent)
    PROVE  /\ commits' \in Seq(CommitRecord)
           /\ Grown
           /\ Len(commits') \in Shas'
           /\ Shas' = Shas \cup {Len(commits')} /\ Len(commits') \notin Shas
           /\ commits'[Len(commits')] = [tree |-> tree, parent |-> parent]
  <1>1. [tree |-> tree, parent |-> parent] \in CommitRecord
    BY ShasAre DEF CommitRecord
  <1> DEFINE c == [tree |-> tree, parent |-> parent]
  <1>2. commits' = Append(commits, c)
    BY DEF Commit
  <1> HIDE DEF c
  <1>3. /\ commits' \in Seq(CommitRecord) /\ Len(commits') = Len(commits) + 1
        /\ \A i \in 1..Len(commits) : commits'[i] = commits[i]
        /\ commits'[Len(commits) + 1] = c
    BY <1>1, <1>2 DEF c
  <1>4. Len(commits) \in Nat /\ Shas = 1..Len(commits) /\ Shas' = 1..(Len(commits) + 1)
    BY <1>3 DEF Shas
  <1> QED
    BY <1>3, <1>4 DEF Grown, c

LEMMA VersionIs ==
    /\ MaxBase \in Nat /\ MaxSerial \in Nat
    /\ \A v \in Version : /\ v.base \in Nat /\ v.serial \in Nat
                          /\ v = [base |-> v.base, serial |-> v.serial]
  BY ReleaseAssumption DEF Version

LEMMA WrittenType == \A v \in Version : Written(v) \in [Files -> Field]
  BY DEF Written, Field, Version

LEMMA BetaIs == Beta \subseteq Version /\ \A v \in Beta : v.base \in Nat /\ v.serial \in Nat /\ v.serial > 0
  BY ReleaseAssumption DEF Beta, Version

LEMMA MergeType ==
    ASSUME NEW base \in Tree, NEW ours \in Tree, NEW theirs \in Tree
    PROVE  Merge(base, ours, theirs) \in Tree
  BY DEF Merge, Tree

LEMMA TreeTypes ==
    ASSUME NEW t \in Tree
    PROVE  /\ t.code \subseteq Releasable \cup Noise /\ t.files \in [Files -> Field]
           /\ \A files \in [Files -> Field] :
                 /\ [t EXCEPT !.files = files] \in Tree
                 /\ [t EXCEPT !.files = files].files = files
                 /\ [t EXCEPT !.files = files].code = t.code
           /\ \A code \in SUBSET (Releasable \cup Noise) :
                 /\ [t EXCEPT !.code = code] \in Tree
                 /\ [t EXCEPT !.code = code].code = code
                 /\ [t EXCEPT !.code = code].files = t.files
  BY DEF Tree

LEMMA PullTypes ==
    /\ NoPull \in Pull /\ NoPull.body.checked = FALSE /\ NoPull.green = 0
    /\ \A q \in Pull, g \in Nat :
          /\ [q EXCEPT !.green = g] \in Pull /\ [q EXCEPT !.green = g].body = q.body
          /\ [q EXCEPT !.green = g].green = g
    /\ \A q \in Pull :
          /\ [q EXCEPT !.open = TRUE, !.green = 0] \in Pull
          /\ [q EXCEPT !.open = TRUE, !.green = 0].body = q.body
          /\ [q EXCEPT !.open = TRUE, !.green = 0].green = 0
    /\ \A q \in Pull, sha \in Nat, b \in BOOLEAN :
          /\ [q EXCEPT !.body = [sha |-> sha, checked |-> b], !.green = 0] \in Pull
          /\ [open |-> TRUE, body |-> [sha |-> sha, checked |-> b], green |-> 0] \in Pull
          /\ [q EXCEPT !.body = [sha |-> sha, checked |-> b], !.green = 0].body
                = [sha |-> sha, checked |-> b]
          /\ [q EXCEPT !.body = [sha |-> sha, checked |-> b], !.green = 0].green = 0
  <1>1. NoPull \in Pull /\ NoPull.body.checked = FALSE /\ NoPull.green = 0
    BY DEF NoPull, Pull, Body
  <1>2. \A q \in Pull, g \in Nat :
          /\ [q EXCEPT !.green = g] \in Pull /\ [q EXCEPT !.green = g].body = q.body
          /\ [q EXCEPT !.green = g].green = g
    BY DEF Pull
  <1>3. \A q \in Pull :
          /\ [q EXCEPT !.open = TRUE, !.green = 0] \in Pull
          /\ [q EXCEPT !.open = TRUE, !.green = 0].body = q.body
          /\ [q EXCEPT !.open = TRUE, !.green = 0].green = 0
    BY DEF Pull
  <1>4. ASSUME NEW q \in Pull, NEW sha \in Nat, NEW b \in BOOLEAN
        PROVE  /\ [q EXCEPT !.body = [sha |-> sha, checked |-> b], !.green = 0] \in Pull
               /\ [open |-> TRUE, body |-> [sha |-> sha, checked |-> b], green |-> 0] \in Pull
               /\ [q EXCEPT !.body = [sha |-> sha, checked |-> b], !.green = 0].body
                     = [sha |-> sha, checked |-> b]
               /\ [q EXCEPT !.body = [sha |-> sha, checked |-> b], !.green = 0].green = 0
    <2>1. [sha |-> sha, checked |-> b] \in Body
      BY DEF Body
    <2> DEFINE body == [sha |-> sha, checked |-> b]
    <2> HIDE DEF body
    <2>2. /\ [q EXCEPT !.body = body, !.green = 0] \in Pull
          /\ [open |-> TRUE, body |-> body, green |-> 0] \in Pull
          /\ [q EXCEPT !.body = body, !.green = 0].body = body
          /\ [q EXCEPT !.body = body, !.green = 0].green = 0
      BY <2>1 DEF Pull, body
    <2> QED
      BY <2>2 DEF body
  <1> QED
    BY <1>1, <1>2, <1>3, <1>4

-----------------------------------------------------------------------------
\* Shapes is an invariant

\* Shapes, as its uses need it.
LEMMA Typed ==
    ASSUME Shapes
    PROVE  /\ commits \in Seq(CommitRecord) /\ main \in Shas
           /\ Shas \subseteq Nat /\ 0 \notin Shas
           /\ \A c \in Shas : commits[c].parent \in Shas /\ TreeAt(c) \in Tree
           /\ nextBase \in Nat /\ nextBase <= MaxBase /\ nextBase >= 1
           /\ config.maxBase \in Nat /\ config.maxBase <= MaxBase
           /\ config.changes \subseteq Releasable \cup Noise
           /\ config.proposals \subseteq Proposal
           /\ \A b \in config.byHand : b.version \in Beta /\ b.touched \in SUBSET Files
           /\ \A v \in Beta : branch[v] # 0 => branch[v] \in Shas
           /\ \A v \in Beta : tags[v] # 0 => tags[v] \in Shas
           /\ \A p \in publishing : /\ p.version \in Version /\ p.head \in Shas /\ p.sha \in Shas
                                    /\ p.body \in Body
           /\ pull \in [Beta -> Pull]
  <1>1. /\ commits \in Seq(CommitRecord) /\ main \in Shas
        /\ Shas \subseteq Nat /\ 0 \notin Shas
    BY ShasAre DEF Shapes, RepoShapes
  <1>2. \A c \in Shas : commits[c].parent \in Shas /\ TreeAt(c) \in Tree
    BY <1>1, ShasAre DEF Shapes, RepoShapes, TreeAt, CommitRecord
  <1>3. /\ nextBase \in Nat /\ nextBase <= MaxBase /\ nextBase >= 1
        /\ config.maxBase \in Nat /\ config.maxBase <= MaxBase
        /\ config.changes \subseteq Releasable \cup Noise
        /\ config.proposals \subseteq Proposal
        /\ config.byHand \subseteq {b \in Bump : b.version.serial > 0}
    BY ReleaseAssumption DEF Shapes, RepoShapes
  <1>4. \A b \in config.byHand : b.version \in Beta /\ b.touched \in SUBSET Files
    BY <1>3 DEF Bump, Beta, Version
  <1>5. /\ \A v \in Beta : branch[v] # 0 => branch[v] \in Shas
        /\ \A v \in Beta : tags[v] # 0 => tags[v] \in Shas
    BY DEF Shapes, BetaShapes
  <1>6. \A p \in publishing : /\ p.version \in Version /\ p.head \in Shas /\ p.sha \in Shas
                              /\ p.body \in Body
    BY DEF Shapes, PublishShapes
  <1>7. pull \in [Beta -> Pull]
    BY DEF Shapes, PullShapes
  <1> QED
    BY <1>1, <1>2, <1>3, <1>4, <1>5, <1>6, <1>7

LEMMA InitShapes == Init => Shapes
  <1> SUFFICES ASSUME Init PROVE Shapes
    OBVIOUS
  <1> USE DEF Init
  <1>1. Stable(0) \in Version
    BY ReleaseAssumption DEF Stable, Version
  <1> DEFINE t == [code |-> {}, files |-> Written(Stable(0))]
  <1>2. t \in Tree
    BY <1>1, WrittenType DEF Tree
  <1>3. [tree |-> t, parent |-> 1] \in CommitRecord /\ [tree |-> t, parent |-> 1].parent = 1
    BY <1>2 DEF CommitRecord
  <1> DEFINE c == [tree |-> t, parent |-> 1]
  <1>4. commits = <<c>>
    OBVIOUS
  <1> HIDE DEF c
  <1>5. commits \in Seq(CommitRecord) /\ Shas = {1} /\ commits[1].parent = 1
    BY <1>3, <1>4 DEF Shas, c
  <1>6. 1 \in 1..config.maxBase
    BY ReleaseAssumption
  <1>7. PullShapes
    BY PullTypes DEF PullShapes
  <1> QED
    BY <1>5, <1>6, <1>7
       DEF Shapes, RepoShapes, BetaShapes, PublishShapes, FeatureShapes, SyncShapes, Idle

\* A part whose variables a step leaves alone keeps its shape.
LEMMA ShapesGrow ==
    ASSUME Shapes, Grown
    PROVE  /\ UNCHANGED pull => PullShapes'
           /\ UNCHANGED <<branch, tags, tested, candidates>> => BetaShapes'
           /\ UNCHANGED publishing => PublishShapes'
           /\ UNCHANGED features => FeatureShapes'
           /\ UNCHANGED sync => SyncShapes'
           /\ publishing \subseteq [version : Version, canonical : BOOLEAN, head : Shas', body : Body,
                                    sha : Shas']
           /\ branch \in [Beta -> {0} \cup Shas'] /\ tags \in [Beta -> {0} \cup Shas']
           /\ tested \subseteq Shas'
           /\ \A c \in candidates :
                 c.version \in Beta /\ c.sha \in Shas' /\ c.over \in {0} \cup Shas'
           /\ \A f \in features :
                 /\ f \in Feature /\ f.head \in Shas' /\ (f.green # 0 => f.green \in Shas')
                 /\ f.ref.kind = "beta" => ~f.canonical
  <1>1. Shas \subseteq Shas'
    BY DEF Grown
  <1>2. publishing \subseteq [version : Version, canonical : BOOLEAN, head : Shas', body : Body,
                              sha : Shas']
    BY <1>1 DEF Shapes, PublishShapes
  <1>3. UNCHANGED publishing => PublishShapes'
    BY <1>2 DEF PublishShapes
  <1>4. UNCHANGED pull => PullShapes'
    BY <1>1 DEF Shapes, PullShapes
  <1>5. /\ branch \in [Beta -> {0} \cup Shas'] /\ tags \in [Beta -> {0} \cup Shas']
        /\ tested \subseteq Shas'
        /\ \A c \in candidates :
              c.version \in Beta /\ c.sha \in Shas' /\ c.over \in {0} \cup Shas'
    BY <1>1 DEF Shapes, BetaShapes
  <1>6. UNCHANGED <<branch, tags, tested, candidates>> => BetaShapes'
    BY <1>5 DEF BetaShapes
  <1>7. \A f \in features :
           /\ f \in Feature /\ f.head \in Shas' /\ (f.green # 0 => f.green \in Shas')
           /\ f.ref.kind = "beta" => ~f.canonical
    BY <1>1 DEF Shapes, FeatureShapes
  <1>8. UNCHANGED features => FeatureShapes'
    BY <1>7 DEF FeatureShapes
  <1>9. UNCHANGED sync => SyncShapes'
    BY <1>1 DEF Shapes, SyncShapes
  <1> QED
    BY <1>2, <1>3, <1>4, <1>5, <1>6, <1>7, <1>8, <1>9

\* The commits of a step that adds one.
LEMMA CommitShapes ==
    ASSUME Shapes, NEW tree \in Tree, NEW parent \in Shas, Commit(tree, parent)
    PROVE  /\ commits' \in Seq(CommitRecord)
           /\ \A c \in Shas' : commits'[c].parent \in Shas'
           /\ Grown /\ Len(commits') \in Shas'
           /\ Shas' = Shas \cup {Len(commits')} /\ Len(commits') \notin Shas
           /\ commits'[Len(commits')].tree = tree /\ commits'[Len(commits')].parent = parent
           /\ \A c \in Shas : commits'[c] = commits[c]
  <1>1. /\ commits' \in Seq(CommitRecord) /\ Grown /\ Len(commits') \in Shas'
        /\ Shas' = Shas \cup {Len(commits')} /\ Len(commits') \notin Shas
        /\ commits'[Len(commits')] = [tree |-> tree, parent |-> parent]
    BY CommitIs, Typed
  <1>2. commits'[Len(commits')].tree = tree /\ commits'[Len(commits')].parent = parent
    BY <1>1
  <1>3. \A c \in Shas : commits'[c] = commits[c] /\ commits'[c].parent \in Shas
    BY <1>1, Typed DEF Grown
  <1> QED
    BY <1>1, <1>2, <1>3

\* The trees that steps commit.
LEMMA MergedTrees ==
    ASSUME Shapes
    PROVE  /\ \A c \in Shas : MergeOf(c) \in Tree
           /\ \A c \in config.changes :
                 [TreeAt(main) EXCEPT !.code = @ \cup {c}] \in Tree
           /\ \A c \in Shas, v \in Version :
                 [TreeAt(c) EXCEPT !.files = Written(v)] \in Tree
           /\ \A T \in SUBSET Files, v \in Version :
                 /\ Bumped(T, v) \in Tree /\ Bumped(T, v).code = Code(main)
                 /\ Bumped(T, v).files =
                      [f \in Files |-> IF f \in T THEN Written(v)[f] ELSE TreeAt(main).files[f]]
  <1>1. \A c \in Shas : MergeOf(c) \in Tree
    BY Typed, MergeType DEF MergeOf
  <1>2. ASSUME NEW c \in config.changes
        PROVE  [TreeAt(main) EXCEPT !.code = @ \cup {c}] \in Tree
    <2>1. TreeAt(main) \in Tree /\ c \in Releasable \cup Noise
      BY Typed
    <2>2. TreeAt(main).code \cup {c} \in SUBSET (Releasable \cup Noise)
      BY <2>1, TreeTypes
    <2> QED
      BY <2>1, <2>2, TreeTypes
  <1>3. ASSUME NEW c \in Shas, NEW v \in Version
        PROVE  [TreeAt(c) EXCEPT !.files = Written(v)] \in Tree
    <2>1. TreeAt(c) \in Tree /\ Written(v) \in [Files -> Field]
      BY Typed, WrittenType
    <2> QED
      BY <2>1, TreeTypes
  <1>4. ASSUME NEW T \in SUBSET Files, NEW v \in Version
        PROVE  /\ Bumped(T, v) \in Tree /\ Bumped(T, v).code = Code(main)
               /\ Bumped(T, v).files =
                    [f \in Files |-> IF f \in T THEN Written(v)[f] ELSE TreeAt(main).files[f]]
    <2> DEFINE files == [f \in Files |-> IF f \in T THEN Written(v)[f] ELSE TreeAt(main).files[f]]
    <2>1. TreeAt(main) \in Tree /\ TreeAt(main).files \in [Files -> Field]
      BY Typed, TreeTypes
    <2>2. files \in [Files -> Field]
      BY <2>1, WrittenType
    <2>3. Bumped(T, v) = [TreeAt(main) EXCEPT !.files = files]
      BY DEF Bumped
    <2> HIDE DEF files
    <2>4. /\ Bumped(T, v) \in Tree /\ Bumped(T, v).files = files
          /\ Bumped(T, v).code = TreeAt(main).code
      BY <2>1, <2>2, <2>3, TreeTypes
    <2> QED
      BY <2>4 DEF files, Code
  <1> QED
    BY <1>1, <1>2, <1>3, <1>4

\* What is known of the tags of one stable version.
LEMMA LatestIs ==
    ASSUME Shapes, NEW base \in 0..MaxBase
    PROVE  /\ LatestBeta(base) \in 0..MaxSerial
           /\ LatestBeta(base) > 0 =>
                 /\ [base |-> base, serial |-> LatestBeta(base)] \in Beta
                 /\ tags[[base |-> base, serial |-> LatestBeta(base)]] # 0
           /\ \A v \in Beta : v.base = base /\ tags[v] # 0 => v.serial <= LatestBeta(base)
  <1> DEFINE B == {b \in Beta : b.base = base /\ tags[b] # 0}
             S == {v.serial : v \in B}
             T == {0} \cup S
  <1>0. MaxSerial \in Nat /\ MaxBase \in Nat
    BY ReleaseAssumption
  <1>1. \A b \in Beta : b = [base |-> b.base, serial |-> b.serial] /\ b.serial \in 0..MaxSerial
    BY DEF Beta, Version
  <1>2. T \subseteq 0..MaxSerial /\ T # {}
    BY <1>0, <1>1
  <1>3. LatestBeta(base) = Max(T)
    BY DEF LatestBeta
  <1>4. \A v \in B : v.serial \in T
    OBVIOUS
  <1>5. ASSUME NEW x \in T, x > 0
        PROVE  [base |-> base, serial |-> x] \in B
    <2>1. PICK v \in B : v.serial = x
      BY <1>5
    <2>2. v = [base |-> base, serial |-> x]
      BY <1>1, <2>1
    <2> QED
      BY <2>2
  <1> HIDE DEF T
  <1>6. Max(T) \in T /\ \A y \in T : y <= Max(T)
    BY <1>0, <1>2, MaxOfBounded
  <1> QED
    BY <1>2, <1>3, <1>4, <1>5, <1>6

\* The run's record after Prepare.
LEMMA PrepareIs ==
    ASSUME Shapes, Prepare
    PROVE  /\ sync.stage = "prepare" /\ sync.main \in Shas
           /\ \/ sync'.stage \in {"idle", "list"}
              \/ /\ sync'.stage = "push" /\ sync'.version \in Beta /\ sync'.main = sync.main
                 /\ \/ sync'.over = 0
                    \/ /\ sync'.over \in Shas
                       /\ ~(Code(sync.main) \cap Releasable \subseteq Code(sync'.over))
  <1>1. PICK l : l = LatestBeta(nextBase)
    OBVIOUS
  <1> DEFINE latest == [base |-> nextBase, serial |-> l]
             next == [latest EXCEPT !.serial = @ + 1]
             over == IF latest.serial > 0 THEN tags[latest] ELSE 0
  <1>2. nextBase \in 0..MaxBase
    BY Typed, ReleaseAssumption
  <1>3. l \in Nat /\ (l > 0 => latest \in Beta /\ tags[latest] # 0)
    BY <1>1, <1>2, LatestIs, ReleaseAssumption
  <1>4. sync.stage = "prepare" /\ sync.main \in Shas
    BY DEF Prepare, Shapes, SyncShapes
  <1>5. latest.serial = l
    OBVIOUS
  <1>6. over = 0 \/ (over \in Shas /\ l > 0 /\ over = tags[latest])
    <2> HIDE DEF latest
    <2> QED
      BY <1>3, <1>5, Typed
  <1>7. \/ sync'.stage \in {"idle", "list"}
        \/ /\ sync' = [stage |-> "push", version |-> next, main |-> sync.main,
                       lease |-> sync.lease, over |-> over]
           /\ next \in Beta /\ ~Covered(TreeAt(sync.main), latest)
    <2>1. latest = [base |-> nextBase, serial |-> LatestBeta(nextBase)]
      BY <1>1
    <2> HIDE DEF latest
    <2> QED
      BY <2>1 DEF Prepare, Idle
  <1>8. Covered(TreeAt(sync.main), latest) <=>
          l > 0 /\ Code(sync.main) \cap Releasable \subseteq Code(tags[latest])
    BY <1>5 DEF Covered, Code
  <1> HIDE DEF latest, next, over
  <1> QED
    BY <1>4, <1>6, <1>7, <1>8

\* The workflow's steps that leave the commits alone.
LEMMA SyncStep ==
    ASSUME Shapes,
           \/ Checkout \/ Prepare \/ EditPull \/ ListSuperseded \/ DeleteSuperseded \/ SyncEnds
           \/ \E v \in Beta : CloseSuperseded(v)
    PROVE  Shapes' /\ Grown
  <1>0. /\ UNCHANGED <<config, commits, main, nextBase, features, publishing, tags, tested, candidates>>
    BY DEF Checkout, Prepare, EditPull, ListSuperseded, DeleteSuperseded, SyncEnds, CloseSuperseded
  <1>1. Grown /\ Shas' = Shas
    BY <1>0 DEF Grown, Shas
  <1>2. RepoShapes' /\ PublishShapes' /\ FeatureShapes'
    BY <1>0, <1>1, ShapesGrow DEF Shapes, RepoShapes
  <1>3. UNCHANGED branch => BetaShapes'
    BY <1>0, <1>1, ShapesGrow
  <1>4. UNCHANGED pull => PullShapes'
    BY <1>1, ShapesGrow
  <1>5. CASE Checkout
    <2>1. SyncShapes'
      BY <1>1, <1>5, Typed DEF Checkout, SyncShapes
    <2> QED
      BY <1>1, <1>2, <1>3, <1>4, <1>5, <2>1 DEF Checkout, Shapes
  <1>6. CASE Prepare
    <2>1. SyncShapes'
      BY <1>1, <1>6, PrepareIs DEF SyncShapes
    <2> QED
      BY <1>1, <1>2, <1>3, <1>4, <1>6, <2>1 DEF Prepare, Shapes
  <1>7. CASE EditPull
    <2>1. sync.version \in Beta /\ sync.sha \in Nat
      BY <1>7, Typed DEF EditPull, Shapes, SyncShapes
    <2> DEFINE q == [open |-> TRUE, body |-> [sha |-> sync.sha, checked |-> FALSE], green |-> 0]
    <2>2. pull' = [pull EXCEPT ![sync.version] = q]
      BY <1>7 DEF EditPull
    <2>3. q \in Pull /\ q.green = 0
      BY <2>1, PullTypes
    <2> HIDE DEF q
    <2>4. PullShapes'
      BY <1>1, <2>1, <2>2, <2>3 DEF Shapes, PullShapes
    <2>5. SyncShapes' /\ UNCHANGED branch
      BY <1>7 DEF EditPull, SyncShapes
    <2> QED
      BY <1>1, <1>2, <1>3, <2>4, <2>5 DEF Shapes
  <1>8. CASE ListSuperseded
    <2>1. SyncShapes'
      BY <1>8 DEF ListSuperseded, SyncShapes
    <2> QED
      BY <1>1, <1>2, <1>3, <1>4, <1>8, <2>1 DEF ListSuperseded, Shapes
  <1>9. CASE SyncEnds
    <2>1. SyncShapes'
      BY <1>9 DEF SyncEnds, SyncShapes, Idle
    <2> QED
      BY <1>1, <1>2, <1>3, <1>4, <1>9, <2>1 DEF SyncEnds, Shapes
  <1>10. CASE DeleteSuperseded
    <2>1. sync.closed \in Beta
      BY <1>10 DEF DeleteSuperseded, Shapes, SyncShapes
    <2>2. SyncShapes'
      BY <1>10 DEF DeleteSuperseded, SyncShapes
    <2>3. PullShapes'
      BY <1>1, <1>10, <2>1, PullTypes DEF DeleteSuperseded, Shapes, PullShapes
    <2>4. BetaShapes'
      BY <1>0, <1>1, <1>10 DEF DeleteSuperseded, Shapes, BetaShapes
    <2> QED
      BY <1>1, <1>2, <2>2, <2>3, <2>4 DEF Shapes
  <1>11. ASSUME NEW v \in Beta, CloseSuperseded(v)
         PROVE  Shapes' /\ Grown
    <2>1. \/ sync'.stage = "idle"
          \/ sync'.stage = "delete" /\ sync'.closed = v
      BY <1>11 DEF CloseSuperseded, Idle
    <2>2. SyncShapes'
      BY <2>1 DEF SyncShapes
    <2>3. PullShapes'
      BY <1>1, <1>11, PullTypes DEF CloseSuperseded, Shapes, PullShapes
    <2> QED
      BY <1>1, <1>2, <1>3, <1>11, <2>2, <2>3 DEF CloseSuperseded, Shapes
  <1> QED
    BY <1>5, <1>6, <1>7, <1>8, <1>9, <1>10, <1>11

\* What people, GitHub, release-please and the publish workflow do besides.
LEMMA OtherStep ==
    ASSUME Shapes,
           \/ \E v \in Beta : CheckPull(v)
           \/ \E v \in Beta, sha \in Shas : Attest(v, sha)
           \/ \E f \in features : CheckFeature(f)
           \/ Retarget
           \/ \E p \in publishing : Publish(p) \/ RefusePublish(p)
    PROVE  Shapes' /\ Grown
  <1>0. UNCHANGED <<config, commits, main, branch, candidates, sync>>
    BY DEF CheckPull, Attest, CheckFeature, Retarget, Publish, RefusePublish
  <1>1. Grown /\ Shas' = Shas
    BY <1>0 DEF Grown, Shas
  <1>2. SyncShapes' /\ (UNCHANGED nextBase => RepoShapes')
    BY <1>0, <1>1, ShapesGrow DEF Shapes, RepoShapes
  <1>3. main \in Shas /\ main \in Nat
    BY Typed
  <1>4. ASSUME NEW v \in Beta, CheckPull(v)
        PROVE  Shapes' /\ Grown
    <2>1. pull' = [pull EXCEPT ![v] = [pull[v] EXCEPT !.green = main]]
      BY <1>4 DEF CheckPull
    <2>2. pull[v] \in Pull
      BY Typed
    <2>3. [pull[v] EXCEPT !.green = main] \in Pull /\ [pull[v] EXCEPT !.green = main].green = main
      BY <1>3, <2>2, PullTypes
    <2>4. PullShapes'
      BY <1>1, <1>3, <2>1, <2>3 DEF Shapes, PullShapes
    <2>5. UNCHANGED <<nextBase, features, publishing, tags, tested>>
      BY <1>4 DEF CheckPull
    <2> QED
      BY <1>0, <1>1, <1>2, <2>4, <2>5, ShapesGrow DEF Shapes
  <1>5. ASSUME NEW v \in Beta, NEW sha \in Shas, Attest(v, sha)
        PROVE  Shapes' /\ Grown
    <2> DEFINE q == [pull[v] EXCEPT !.body = [sha |-> sha, checked |-> TRUE], !.green = 0]
    <2>1. pull' = [pull EXCEPT ![v] = q]
      BY <1>5 DEF Attest
    <2>2. sha \in Nat /\ pull[v] \in Pull
      BY Typed
    <2>3. q \in Pull /\ q.green = 0
      BY <2>2, PullTypes
    <2> HIDE DEF q
    <2>4. PullShapes'
      BY <1>1, <2>1, <2>3 DEF Shapes, PullShapes
    <2>5. /\ UNCHANGED <<nextBase, features, publishing, tags>>
          /\ tested' = tested \cup {sha}
      BY <1>5 DEF Attest
    <2>6. BetaShapes'
      BY <1>0, <1>1, <2>5 DEF Shapes, BetaShapes
    <2> QED
      BY <1>0, <1>1, <1>2, <2>4, <2>5, <2>6, ShapesGrow DEF Shapes
  <1>6. ASSUME NEW f \in features, CheckFeature(f)
        PROVE  Shapes' /\ Grown
    <2> DEFINE g == [f EXCEPT !.green = main]
    <2>1. /\ features' = (features \ {f}) \cup {g}
          /\ UNCHANGED <<nextBase, pull, publishing, tags, tested>>
      BY <1>6 DEF CheckFeature
    <2>2. f \in Feature /\ f.head \in Shas /\ (f.ref.kind = "beta" => ~f.canonical)
      BY DEF Shapes, FeatureShapes
    <2>3. /\ g \in Feature /\ g.head = f.head /\ g.green = main /\ g.ref = f.ref
          /\ g.canonical = f.canonical
      BY <1>3, <2>2 DEF Feature
    <2> HIDE DEF g
    <2>4. FeatureShapes'
      BY <1>1, <1>3, <2>1, <2>2, <2>3 DEF Shapes, FeatureShapes
    <2> QED
      BY <1>0, <1>1, <1>2, <2>1, <2>4, ShapesGrow DEF Shapes
  <1>7. CASE Retarget
    <2>1. /\ nextBase' \in 1..config.maxBase
          /\ UNCHANGED <<pull, features, publishing, tags, tested>>
      BY <1>7, Typed DEF Retarget
    <2>2. RepoShapes'
      BY <1>0, <1>1, <2>1 DEF Shapes, RepoShapes
    <2> QED
      BY <1>0, <1>1, <1>2, <2>1, <2>2, ShapesGrow DEF Shapes
  <1>8. ASSUME NEW p \in publishing, Publish(p)
        PROVE  Shapes' /\ Grown
    <2>1. tags' \in [Beta -> {0} \cup Shas]
      BY <1>8, Typed DEF Publish, Shapes, BetaShapes
    <2>2. /\ UNCHANGED <<nextBase, pull, features, tested>>
          /\ publishing' \subseteq publishing
      BY <1>8 DEF Publish
    <2>3. BetaShapes' /\ PublishShapes'
      BY <1>0, <1>1, <2>1, <2>2 DEF Shapes, BetaShapes, PublishShapes
    <2> QED
      BY <1>0, <1>1, <1>2, <2>2, <2>3, ShapesGrow DEF Shapes
  <1>9. ASSUME NEW p \in publishing, RefusePublish(p)
        PROVE  Shapes' /\ Grown
    <2>1. /\ UNCHANGED <<nextBase, pull, features, tags, tested>>
          /\ publishing' \subseteq publishing
      BY <1>9 DEF RefusePublish
    <2>2. PublishShapes'
      BY <1>1, <2>1 DEF Shapes, PublishShapes
    <2> QED
      BY <1>0, <1>1, <1>2, <2>1, <2>2, ShapesGrow DEF Shapes
  <1> QED
    BY <1>4, <1>5, <1>6, <1>7, <1>8, <1>9

\* What the steps that add a commit add.
LEMMA CommitAdds ==
    ASSUME Shapes
    PROVE  /\ Push => LET tree == [TreeAt(sync.main) EXCEPT !.files = Written(sync.version)]
                      IN  /\ sync.stage = "push" /\ sync.main \in Shas /\ sync.version \in Beta
                          /\ sync.over \in {0} \cup Shas
                          /\ tree \in Tree /\ Commit(tree, sync.main)
                          /\ tree.code = Code(sync.main) /\ tree.files = Written(sync.version)
           /\ \A b \in config.byHand : PushByHand(b) =>
                  /\ b.version \in Beta /\ b.touched \in SUBSET Files
                  /\ Bumped(b.touched, b.version) \in Tree
                  /\ Commit(Bumped(b.touched, b.version), main)
           /\ \A p \in config.proposals : Propose(p) =>
                  /\ p.bump.version \in Version /\ p.bump.touched \in SUBSET Files
                  /\ p.canonical \in BOOLEAN /\ p.kind \in {"feature", "release-please", "beta"}
                  /\ p.kind = "beta" => ~p.canonical
                  /\ Bumped(p.bump.touched, p.bump.version) \in Tree
                  /\ Commit(Bumped(p.bump.touched, p.bump.version), main)
           /\ \A v \in Beta, deleted \in BOOLEAN : MergePull(v, deleted) =>
                  /\ branch[v] \in Shas /\ MergeOf(branch[v]) \in Tree
                  /\ Commit(MergeOf(branch[v]), main)
           /\ \A f \in features : MergeFeature(f) =>
                  /\ f.head \in Shas /\ MergeOf(f.head) \in Tree /\ Commit(MergeOf(f.head), main)
           /\ \A c \in config.changes : Land(c) =>
                  LET tree == [TreeAt(main) EXCEPT !.code = @ \cup {c}]
                  IN  /\ tree \in Tree /\ Commit(tree, main)
                      /\ Code(main) \subseteq tree.code /\ tree.files = FilesAt(main)
  <1>0. main \in Shas /\ TreeAt(main) \in Tree
    BY Typed
  <1>1. ASSUME Push
        PROVE  LET tree == [TreeAt(sync.main) EXCEPT !.files = Written(sync.version)]
               IN  /\ sync.stage = "push" /\ sync.main \in Shas /\ sync.version \in Beta
                   /\ sync.over \in {0} \cup Shas
                   /\ tree \in Tree /\ Commit(tree, sync.main)
                   /\ tree.code = Code(sync.main) /\ tree.files = Written(sync.version)
    <2>1. /\ sync.stage = "push" /\ sync.main \in Shas /\ sync.version \in Beta
          /\ sync.over \in {0} \cup Shas
      BY <1>1 DEF Push, Shapes, SyncShapes
    <2>2. TreeAt(sync.main) \in Tree /\ Written(sync.version) \in [Files -> Field]
      BY <2>1, Typed, WrittenType, BetaIs
    <2> DEFINE tree == [TreeAt(sync.main) EXCEPT !.files = Written(sync.version)]
    <2>3. tree \in Tree /\ tree.code = Code(sync.main) /\ tree.files = Written(sync.version)
      BY <2>2, TreeTypes DEF Code
    <2>4. Commit(tree, sync.main)
      BY <1>1 DEF Push
    <2> QED
      BY <2>1, <2>3, <2>4
  <1>2. ASSUME NEW b \in config.byHand, PushByHand(b)
        PROVE  /\ b.version \in Beta /\ b.touched \in SUBSET Files
               /\ Bumped(b.touched, b.version) \in Tree
               /\ Commit(Bumped(b.touched, b.version), main)
    BY <1>2, Typed, BetaIs, MergedTrees DEF PushByHand
  <1>3. ASSUME NEW p \in config.proposals, Propose(p)
        PROVE  /\ p.bump.version \in Version /\ p.bump.touched \in SUBSET Files
               /\ p.canonical \in BOOLEAN /\ p.kind \in {"feature", "release-please", "beta"}
               /\ p.kind = "beta" => ~p.canonical
               /\ Bumped(p.bump.touched, p.bump.version) \in Tree
               /\ Commit(Bumped(p.bump.touched, p.bump.version), main)
    <2>1. /\ p.bump \in Bump /\ p.canonical \in BOOLEAN /\ p.kind \in {"feature", "release-please", "beta"}
          /\ p.kind = "beta" => ~p.canonical
      BY Typed DEF Proposal
    <2>2. p.bump.version \in Version /\ p.bump.touched \in SUBSET Files
      BY <2>1 DEF Bump, Version
    <2> QED
      BY <1>3, <2>1, <2>2, MergedTrees DEF Propose
  <1>4. ASSUME NEW v \in Beta, NEW deleted \in BOOLEAN, MergePull(v, deleted)
        PROVE  /\ branch[v] \in Shas /\ MergeOf(branch[v]) \in Tree
               /\ Commit(MergeOf(branch[v]), main)
    BY <1>4, Typed, MergedTrees DEF MergePull
  <1>5. ASSUME NEW f \in features, MergeFeature(f)
        PROVE  f.head \in Shas /\ MergeOf(f.head) \in Tree /\ Commit(MergeOf(f.head), main)
    BY <1>5, MergedTrees DEF MergeFeature, Shapes, FeatureShapes
  <1>6. ASSUME NEW c \in config.changes, Land(c)
        PROVE  LET tree == [TreeAt(main) EXCEPT !.code = @ \cup {c}]
               IN  /\ tree \in Tree /\ Commit(tree, main)
                   /\ Code(main) \subseteq tree.code /\ tree.files = FilesAt(main)
    <2> DEFINE tree == [TreeAt(main) EXCEPT !.code = @ \cup {c}]
    <2>1. tree \in Tree /\ Commit(tree, main)
      BY <1>6, MergedTrees DEF Land
    <2>2. Code(main) \subseteq tree.code /\ tree.files = FilesAt(main)
      BY <1>0 DEF Code, FilesAt, Tree
    <2> QED
      BY <2>1, <2>2
  <1> QED
    BY <1>1, <1>2, <1>3, <1>4, <1>5, <1>6

LEMMA CommitStep ==
    ASSUME Shapes,
           \/ Push
           \/ \E b \in config.byHand : PushByHand(b)
           \/ \E v \in Beta, deleted \in BOOLEAN : MergePull(v, deleted)
           \/ \E c \in config.changes : Land(c)
           \/ \E p \in config.proposals : Propose(p)
           \/ \E f \in features : MergeFeature(f)
    PROVE  Shapes' /\ Grown
  <1>0. PICK new : new = Len(commits')
    OBVIOUS
  <1>1. ASSUME NEW tree \in Tree, NEW parent \in Shas, Commit(tree, parent)
        PROVE  /\ Grown /\ new \in Shas' /\ new \in Nat /\ new # 0
               /\ UNCHANGED config /\ main' \in {main, new} /\ nextBase' \in 1..config.maxBase
                    => RepoShapes'
    <2>1. /\ commits' \in Seq(CommitRecord) /\ \A c \in Shas' : commits'[c].parent \in Shas'
          /\ Grown /\ new \in Shas'
      BY <1>0, <1>1, CommitShapes
    <2>2. new \in Nat /\ new # 0
      BY <2>1 DEF Shas
    <2>3. main \in Shas'
      BY <2>1, Typed DEF Grown
    <2>4. ASSUME config' = config, main' \in {main, new}, nextBase' \in 1..config.maxBase
          PROVE  RepoShapes'
      <3>1. config' \in Configs /\ nextBase' \in 1..config'.maxBase
        BY <2>4 DEF Shapes, RepoShapes
      <3>2. main' \in Shas'
        BY <2>1, <2>3, <2>4
      <3> QED
        BY <2>1, <3>1, <3>2 DEF RepoShapes
    <2> QED
      BY <2>1, <2>2, <2>4
  <1>2. main \in Shas /\ nextBase \in 1..config.maxBase
    BY DEF Shapes, RepoShapes
  <1>3. CASE Push
    <2>0. PICK tree : tree = [TreeAt(sync.main) EXCEPT !.files = Written(sync.version)]
      OBVIOUS
    <2>1. /\ sync.stage = "push" /\ sync.main \in Shas /\ sync.version \in Beta
          /\ sync.over \in {0} \cup Shas
          /\ tree \in Tree /\ Commit(tree, sync.main)
      BY <1>3, <2>0, CommitAdds
    <2>2. /\ branch' = [branch EXCEPT ![sync.version] = new]
          /\ candidates' = candidates \cup
               {[version |-> sync.version, sha |-> new, byHand |-> FALSE, over |-> sync.over]}
          /\ pull' = [pull EXCEPT ![sync.version] = [pull[sync.version] EXCEPT !.green = 0]]
          /\ sync' = [stage |-> "edit", version |-> sync.version, sha |-> new]
          /\ UNCHANGED <<config, main, nextBase, features, publishing, tags, tested>>
      BY <1>0, <1>3 DEF Push
    <2>3. Grown /\ new \in Shas' /\ RepoShapes'
      BY <1>1, <1>2, <2>1, <2>2
    <2>4. BetaShapes'
      <3>1. branch' \in [Beta -> {0} \cup Shas']
        BY <2>1, <2>2, <2>3, ShapesGrow
      <3>2. sync.over \in {0} \cup Shas'
        BY <2>1, <2>3 DEF Grown
      <3>3. \A c \in candidates' :
              c.version \in Beta /\ c.sha \in Shas' /\ c.over \in {0} \cup Shas'
        BY <2>1, <2>2, <2>3, <3>2, ShapesGrow
      <3> QED
        BY <2>2, <2>3, <3>1, <3>3, ShapesGrow DEF BetaShapes
    <2>5. PullShapes'
      <3>1. PICK q \in Pull : q = pull[sync.version]
        BY <2>1, Typed
      <3>2. [q EXCEPT !.green = 0] \in Pull /\ [q EXCEPT !.green = 0].green = 0
        BY DEF Pull
      <3> QED
        BY <2>1, <2>2, <2>3, <3>1, <3>2 DEF Shapes, PullShapes, Grown
    <2>6. SyncShapes'
      BY <2>1, <2>2, <2>3 DEF SyncShapes
    <2> QED
      BY <2>2, <2>3, <2>4, <2>5, <2>6, ShapesGrow DEF Shapes
  <1>4. ASSUME NEW b \in config.byHand, PushByHand(b)
        PROVE  Shapes' /\ Grown
    <2>0. PICK v : v = b.version
      OBVIOUS
    <2>1. v \in Beta /\ Bumped(b.touched, v) \in Tree /\ Commit(Bumped(b.touched, v), main)
      BY <1>4, <2>0, CommitAdds
    <2>2. /\ branch' = [branch EXCEPT ![v] = new]
          /\ candidates' = candidates \cup
               {[version |-> v, sha |-> new, byHand |-> TRUE, over |-> 0]}
          /\ pull' = [pull EXCEPT ![v] = [pull[v] EXCEPT !.open = TRUE, !.green = 0]]
          /\ UNCHANGED <<config, main, nextBase, features, sync, publishing, tags, tested>>
      BY <1>0, <1>4, <2>0 DEF PushByHand
    <2>3. Grown /\ new \in Shas' /\ RepoShapes'
      BY <1>1, <1>2, <2>1, <2>2
    <2>4. BetaShapes'
      <3>1. branch' \in [Beta -> {0} \cup Shas']
        BY <2>1, <2>2, <2>3, ShapesGrow
      <3>2. \A c \in candidates' :
              c.version \in Beta /\ c.sha \in Shas' /\ c.over \in {0} \cup Shas'
        BY <2>1, <2>2, <2>3, ShapesGrow
      <3> QED
        BY <2>2, <2>3, <3>1, <3>2, ShapesGrow DEF BetaShapes
    <2>5. PullShapes'
      <3>1. pull[v] \in Pull
        BY <2>1, Typed
      <3>2. /\ [pull[v] EXCEPT !.open = TRUE, !.green = 0] \in Pull
            /\ [pull[v] EXCEPT !.open = TRUE, !.green = 0].green = 0
        BY <3>1, PullTypes
      <3> QED
        BY <2>1, <2>2, <2>3, <3>2 DEF Shapes, PullShapes, Grown
    <2> QED
      BY <2>2, <2>3, <2>4, <2>5, ShapesGrow DEF Shapes
  <1>5. ASSUME NEW v \in Beta, NEW deleted \in BOOLEAN, MergePull(v, deleted)
        PROVE  Shapes' /\ Grown
    <2> DEFINE payload == [version |-> v, canonical |-> TRUE, head |-> branch[v],
                           body |-> pull[v].body, sha |-> new]
    <2>1. branch[v] \in Shas /\ MergeOf(branch[v]) \in Tree /\ Commit(MergeOf(branch[v]), main)
      BY <1>5, CommitAdds
    <2>2. /\ main' = new /\ publishing' = publishing \cup {payload}
          /\ pull' = [pull EXCEPT ![v] = NoPull]
          /\ branch' \in {branch, [branch EXCEPT ![v] = 0]}
          /\ UNCHANGED <<config, nextBase, features, candidates, sync, tags, tested>>
      BY <1>0, <1>5 DEF MergePull
    <2>3. Grown /\ new \in Shas' /\ RepoShapes'
      BY <1>1, <1>2, <2>1, <2>2
    <2>4. payload \in [version : Version, canonical : BOOLEAN, head : Shas', body : Body, sha : Shas']
      <3>1. pull[v].body \in Body
        BY Typed DEF Pull
      <3> QED
        BY <2>1, <2>3, <3>1, BetaIs DEF Grown
    <2> HIDE DEF payload
    <2>5. PublishShapes'
      BY <2>2, <2>3, <2>4, ShapesGrow DEF PublishShapes
    <2>6. BetaShapes'
      <3>1. branch' \in [Beta -> {0} \cup Shas']
        BY <2>2, <2>3, ShapesGrow
      <3> QED
        BY <2>2, <2>3, <3>1, ShapesGrow DEF BetaShapes
    <2>7. PullShapes'
      BY <2>2, <2>3, PullTypes DEF Shapes, PullShapes, Grown
    <2> QED
      BY <2>2, <2>3, <2>5, <2>6, <2>7, ShapesGrow DEF Shapes
  <1>6. ASSUME NEW c \in config.changes, Land(c)
        PROVE  Shapes' /\ Grown
    <2>0. PICK tree : tree = [TreeAt(main) EXCEPT !.code = @ \cup {c}]
      OBVIOUS
    <2>1. tree \in Tree /\ Commit(tree, main)
      BY <1>6, <2>0, CommitAdds
    <2>2. /\ main' = new
          /\ UNCHANGED <<config, nextBase, branch, pull, features, candidates, sync, publishing,
                         tags, tested>>
      BY <1>0, <1>6 DEF Land
    <2>3. Grown /\ RepoShapes'
      BY <1>1, <1>2, <2>1, <2>2
    <2> QED
      BY <2>2, <2>3, ShapesGrow DEF Shapes
  <1>7. ASSUME NEW p \in config.proposals, Propose(p)
        PROVE  Shapes' /\ Grown
    <2> DEFINE f == [head |-> new, canonical |-> p.canonical, merged |-> FALSE, green |-> 0,
                     ref |-> [kind |-> p.kind, version |-> p.bump.version]]
    <2>1. /\ p.bump.version \in Version
          /\ p.canonical \in BOOLEAN /\ p.kind \in {"feature", "release-please", "beta"}
          /\ p.kind = "beta" => ~p.canonical
          /\ Bumped(p.bump.touched, p.bump.version) \in Tree
          /\ Commit(Bumped(p.bump.touched, p.bump.version), main)
      BY <1>7, CommitAdds
    <2>2. /\ features' = features \cup {f}
          /\ UNCHANGED <<config, main, nextBase, branch, pull, candidates, sync, publishing, tags,
                         tested>>
      BY <1>0, <1>7 DEF Propose
    <2>3. Grown /\ new \in Shas' /\ new \in Nat /\ RepoShapes'
      BY <1>1, <1>2, <2>1, <2>2
    <2>4. /\ f \in Feature /\ f.head = new /\ f.green = 0
          /\ f.ref.kind = "beta" => ~f.canonical
      BY <2>1, <2>3 DEF Feature, Ref
    <2> HIDE DEF f
    <2>5. FeatureShapes'
      BY <2>2, <2>3, <2>4, ShapesGrow DEF FeatureShapes
    <2> QED
      BY <2>2, <2>3, <2>5, ShapesGrow DEF Shapes
  <1>8. ASSUME NEW f \in features, MergeFeature(f)
        PROVE  Shapes' /\ Grown
    <2> DEFINE g == [f EXCEPT !.merged = TRUE]
               payload == [version |-> f.ref.version, canonical |-> f.canonical, head |-> f.head,
                           body |-> Described(f), sha |-> new]
    <2>1. f.head \in Shas /\ MergeOf(f.head) \in Tree /\ Commit(MergeOf(f.head), main)
      BY <1>8, CommitAdds
    <2>2. /\ main' = new /\ features' = (features \ {f}) \cup {g}
          /\ publishing' \subseteq publishing \cup {payload}
          /\ UNCHANGED <<config, branch, pull, candidates, sync, tags, tested>>
      BY <1>0, <1>8 DEF MergeFeature
    <2>3. nextBase' \in 1..config.maxBase
      BY <1>2, <1>8, Typed DEF MergeFeature
    <2>4. Grown /\ new \in Shas' /\ RepoShapes'
      BY <1>1, <1>2, <2>1, <2>2, <2>3
    <2>5. /\ f \in Feature /\ f.head \in Shas' /\ (f.green # 0 => f.green \in Shas')
          /\ f.ref.kind = "beta" => ~f.canonical
      BY <2>4, ShapesGrow
    <2>6. /\ g \in Feature /\ g.head = f.head /\ g.green = f.green /\ g.ref = f.ref
          /\ g.canonical = f.canonical
      BY <2>5 DEF Feature
    <2>7. payload \in [version : Version, canonical : BOOLEAN, head : Shas', body : Body, sha : Shas']
      <3>1. f.ref.version \in Version /\ f.canonical \in BOOLEAN /\ f.head \in Nat
        BY <2>5 DEF Feature, Ref
      <3>2. Described(f) \in Body
        BY <3>1 DEF Described, Body
      <3> QED
        BY <2>4, <2>5, <3>1, <3>2
    <2> HIDE DEF g, payload
    <2>8. FeatureShapes'
      BY <2>2, <2>4, <2>5, <2>6, ShapesGrow DEF FeatureShapes
    <2>9. PublishShapes'
      BY <2>2, <2>4, <2>7, ShapesGrow DEF PublishShapes
    <2> QED
      BY <2>2, <2>4, <2>8, <2>9, ShapesGrow DEF Shapes
  <1> QED
    BY <1>3, <1>4, <1>5, <1>6, <1>7, <1>8

LEMMA ShapesStep == ASSUME Shapes, Next PROVE Shapes' /\ Grown
  BY SyncStep, OtherStep, CommitStep DEF Next, Shas

\* A tag that is set keeps its commit.
TagsKept == \A v \in Beta : tags[v] # 0 => tags'[v] = tags[v]

LEMMA TagsKeptStep == ASSUME Shapes, Next PROVE TagsKept
  <1>1. ASSUME NEW p \in publishing, Publish(p) PROVE TagsKept
    <2>1. tags[p.version] = 0 /\ tags' = [tags EXCEPT ![p.version] = p.sha]
      BY <1>1 DEF Publish
    <2> QED
      BY <2>1 DEF TagsKept, Shapes, BetaShapes
  <1>2. CASE UNCHANGED tags
    BY <1>2 DEF TagsKept
  <1>3. \/ UNCHANGED tags
        \/ \E p \in publishing : Publish(p)
    BY DEF Next, Checkout, Prepare, Push, EditPull, ListSuperseded, DeleteSuperseded, SyncEnds,
           CloseSuperseded, CheckPull, PushByHand, Attest, MergePull, Land, Propose, CheckFeature,
           MergeFeature, Retarget, RefusePublish
  <1> QED
    BY <1>1, <1>2, <1>3

-----------------------------------------------------------------------------
\* What is published was tested

LEMMA TestedInit == Init => Attested /\ PublishedWasTested
  <1> SUFFICES ASSUME Init PROVE Attested /\ PublishedWasTested
    OBVIOUS
  <1>1. \A v \in Beta : pull[v] = NoPull /\ tags[v] = 0
    BY DEF Init
  <1>2. publishing = {}
    BY DEF Init
  <1> QED
    BY <1>1, <1>2, PullTypes DEF Attested, PublishedWasTested

\* The evidence of a description comes from a test or from the one before.
LEMMA PullEvidence ==
    ASSUME Shapes, Attested, Next, NEW v \in Beta, pull'[v].body.checked
    PROVE  pull'[v].body.sha \in tested'
  <1>0. pull \in [Beta -> Pull] /\ (pull[v].body.checked => pull[v].body.sha \in tested)
    BY Typed DEF Attested
  <1>1. ASSUME tested' = tested, NEW w \in Beta, NEW q,
               pull' = [pull EXCEPT ![w] = q], q.body = pull[w].body \/ q.body.checked = FALSE
        PROVE  pull'[v].body.sha \in tested'
    <2>1. CASE v = w
      BY <1>0, <1>1, <2>1
    <2>2. CASE v # w
      BY <1>0, <1>1, <2>2
    <2> QED
      BY <2>1, <2>2
  <1>2. CASE Push
    <2>1. sync.version \in Beta /\ pull[sync.version] \in Pull /\ tested' = tested
      BY <1>0, <1>2 DEF Push, Shapes, SyncShapes
    <2>2. pull' = [pull EXCEPT ![sync.version] = [pull[sync.version] EXCEPT !.green = 0]]
      BY <1>2 DEF Push
    <2>3. PICK q \in Pull : q = pull[sync.version]
      BY <2>1
    <2>4. [q EXCEPT !.green = 0].body = q.body
      BY DEF Pull
    <2> QED
      BY <1>1, <2>1, <2>2, <2>3, <2>4
  <1>3. CASE EditPull
    <2>1. sync.version \in Beta /\ tested' = tested
      BY <1>3 DEF EditPull, Shapes, SyncShapes
    <2> DEFINE q == [open |-> TRUE, body |-> [sha |-> sync.sha, checked |-> FALSE], green |-> 0]
    <2>2. pull' = [pull EXCEPT ![sync.version] = q] /\ q.body.checked = FALSE
      BY <1>3 DEF EditPull
    <2> HIDE DEF q
    <2> QED
      BY <1>1, <2>1, <2>2
  <1>4. ASSUME NEW w \in Beta, pull' = [pull EXCEPT ![w] = NoPull], tested' = tested
        PROVE  pull'[v].body.sha \in tested'
    BY <1>1, <1>4, PullTypes
  <1>5. CASE DeleteSuperseded
    BY <1>4, <1>5 DEF DeleteSuperseded, Shapes, SyncShapes
  <1>6. ASSUME NEW w \in Beta, CheckPull(w)
        PROVE  pull'[v].body.sha \in tested'
    <2>1. /\ pull' = [pull EXCEPT ![w] = [pull[w] EXCEPT !.green = main]] /\ tested' = tested
      BY <1>6 DEF CheckPull
    <2>2. [pull[w] EXCEPT !.green = main].body = pull[w].body
      BY <1>0, Typed, PullTypes
    <2> QED
      BY <1>1, <2>1, <2>2
  <1>7. ASSUME NEW b \in config.byHand, PushByHand(b)
        PROVE  pull'[v].body.sha \in tested'
    <2>0. PICK w : w = b.version
      OBVIOUS
    <2>1. w \in Beta /\ pull[w] \in Pull
      BY <2>0, Typed
    <2>2. /\ pull' = [pull EXCEPT ![w] = [pull[w] EXCEPT !.open = TRUE, !.green = 0]]
          /\ tested' = tested
      BY <1>7, <2>0 DEF PushByHand
    <2>3. [pull[w] EXCEPT !.open = TRUE, !.green = 0].body = pull[w].body
      BY <2>1, PullTypes
    <2> QED
      BY <1>1, <2>1, <2>2, <2>3
  <1>8. ASSUME NEW w \in Beta, NEW sha \in Shas, Attest(w, sha)
        PROVE  pull'[v].body.sha \in tested'
    <2> DEFINE q == [pull[w] EXCEPT !.body = [sha |-> sha, checked |-> TRUE], !.green = 0]
    <2>1. pull' = [pull EXCEPT ![w] = q] /\ tested' = tested \cup {sha}
      BY <1>8 DEF Attest
    <2>2. q.body = [sha |-> sha, checked |-> TRUE]
      <3>1. pull[w] \in Pull /\ sha \in Nat
        BY <1>0, Typed
      <3> QED
        BY <3>1, PullTypes
    <2> HIDE DEF q
    <2>3. CASE v = w
      <3>1. pull'[v].body.sha = sha
        BY <1>0, <2>1, <2>2, <2>3
      <3> QED
        BY <2>1, <3>1
    <2>4. CASE v # w
      BY <1>0, <2>1, <2>4
    <2> QED
      BY <2>3, <2>4
  <1>9. CASE UNCHANGED <<pull, tested>>
    BY <1>0, <1>9
  <1>10. \/ Push \/ EditPull \/ DeleteSuperseded
         \/ \E w \in Beta : \/ pull' = [pull EXCEPT ![w] = NoPull] /\ tested' = tested
                            \/ CheckPull(w)
                            \/ \E sha \in Shas : Attest(w, sha)
         \/ \E b \in config.byHand : PushByHand(b)
         \/ UNCHANGED <<pull, tested>>
    BY DEF Next, Checkout, Prepare, ListSuperseded, SyncEnds, Land, Propose, CheckFeature,
           MergeFeature, Retarget, Publish, RefusePublish, CloseSuperseded, MergePull, Shas
  <1> QED
    BY <1>2, <1>3, <1>4, <1>5, <1>6, <1>7, <1>8, <1>9, <1>10

LEMMA TestedStep ==
    ASSUME Shapes, Attested, PublishedWasTested, Next
    PROVE  Attested' /\ PublishedWasTested'
  <1>1. tested \subseteq tested'
    BY DEF Next, Checkout, Prepare, Push, EditPull, ListSuperseded, DeleteSuperseded, SyncEnds,
           CloseSuperseded, CheckPull, PushByHand, Attest, MergePull, Land, Propose, CheckFeature,
           MergeFeature, Retarget, Publish, RefusePublish
  <1>2. ASSUME NEW p \in publishing', p.canonical, p.body.checked
        PROVE  p.body.sha \in tested'
    <2>1. CASE p \in publishing
      BY <1>1, <1>2, <2>1 DEF Attested
    <2>2. CASE p \notin publishing
      <3>1. \/ \E v \in Beta, deleted \in BOOLEAN : MergePull(v, deleted)
            \/ \E f \in features : MergeFeature(f)
        BY <2>2
           DEF Next, Checkout, Prepare, Push, EditPull, ListSuperseded, DeleteSuperseded, SyncEnds,
               CloseSuperseded, CheckPull, PushByHand, Attest, Land, Propose, CheckFeature,
               Retarget, Publish, RefusePublish
      <3>2. ASSUME NEW v \in Beta, NEW deleted \in BOOLEAN, MergePull(v, deleted)
            PROVE  p.body.sha \in tested'
        <4>1. p.body = pull[v].body
          BY <2>2, <3>2 DEF MergePull
        <4> QED
          BY <1>1, <1>2, <4>1 DEF Attested
      <3>3. ASSUME NEW f \in features, MergeFeature(f)
            PROVE  FALSE
        <4>1. f.ref.kind = "beta" /\ p.canonical = f.canonical
          BY <2>2, <3>3 DEF MergeFeature
        <4> QED
          BY <1>2, <4>1 DEF Shapes, FeatureShapes
      <3> QED
        BY <3>1, <3>2, <3>3
    <2> QED
      BY <2>1, <2>2
  <1>3. Attested'
    BY <1>2, PullEvidence DEF Attested
  <1>4. Grown /\ TagsKept
    BY ShapesStep, TagsKeptStep
  <1>5. ASSUME NEW v \in Beta, tags'[v] # 0
        PROVE  \E sha \in tested' : TreeAt(sha)' = TreeAt(tags[v])'
    <2>1. CASE tags[v] # 0
      <3>1. PICK sha \in tested : TreeAt(sha) = TreeAt(tags[v])
        BY <2>1 DEF PublishedWasTested
      <3>2. sha \in Shas /\ tags[v] \in Shas /\ tags'[v] = tags[v]
        BY <1>4, <2>1, Typed DEF Shapes, BetaShapes, TagsKept
      <3>3. TreeAt(sha)' = TreeAt(sha) /\ TreeAt(tags[v])' = TreeAt(tags[v])
        BY <1>4, <3>2 DEF Grown, TreeAt
      <3> QED
        BY <1>1, <3>1, <3>3
    <2>2. CASE tags[v] = 0
      <3>1. PICK p \in publishing : Publish(p)
        BY <1>5, <2>2
           DEF Next, Checkout, Prepare, Push, EditPull, ListSuperseded, DeleteSuperseded, SyncEnds,
               CloseSuperseded, CheckPull, PushByHand, Attest, MergePull, Land, Propose,
               CheckFeature, MergeFeature, Retarget, RefusePublish
      <3>2. p.version = v /\ tags'[v] = p.sha
        BY <1>5, <2>2, <3>1, Typed DEF Publish, Shapes, BetaShapes
      <3>3. p.canonical /\ p.body.checked /\ p.body.sha = p.head /\ TreeAt(p.sha) = TreeAt(p.head)
        BY <3>1 DEF Publish, GuardPublish, Evidence, SameTree
      <3>4. p.head \in tested
        BY <3>3 DEF Attested
      <3>5. p.head \in Shas /\ p.sha \in Shas
        BY Typed
      <3>6. TreeAt(p.head)' = TreeAt(p.sha)'
        BY <1>4, <3>3, <3>5 DEF Grown, TreeAt
      <3>7. TreeAt(tags[v])' = TreeAt(p.sha)'
        BY <3>2 DEF TreeAt
      <3> QED
        BY <1>1, <3>4, <3>6, <3>7
    <2> QED
      BY <2>1, <2>2
  <1> QED
    BY <1>3, <1>5 DEF PublishedWasTested

-----------------------------------------------------------------------------
\* The betas advance

\* The first commit is alone.
LEMMA ChainInit == Init => Chain /\ Advancing
  <1> SUFFICES ASSUME Init PROVE Chain /\ Advancing
    OBVIOUS
  <1>1. Shas = {1} /\ main = 1
    BY DEF Init, Shas
  <1>2. Chain
    BY <1>1 DEF Chain
  <1>3. Advancing
    BY DEF Advancing, Init, Idle
  <1> QED
    BY <1>2, <1>3

\* A new commit has the changes of main or of an older commit, and main has
\* them all.
LEMMA ChainGrows ==
    ASSUME Shapes, Chain, NEW tree \in Tree, NEW parent \in Shas, Commit(tree, parent),
           \/ main' = Len(commits') /\ Code(main) \subseteq tree.code
           \/ main' = main /\ \E c \in Shas : tree.code = Code(c)
    PROVE  Chain'
  <1>0. PICK new : new = Len(commits')
    OBVIOUS
  <1>1. /\ Shas' = Shas \cup {new}
        /\ commits'[new].tree = tree
        /\ \A c \in Shas : commits'[c] = commits[c]
    BY <1>0, CommitShapes
  <1>2. /\ \A c \in Shas : Code(c)' = Code(c)
        /\ Code(new)' = tree.code
    BY <1>1 DEF Code, TreeAt
  <1>3. main \in Shas
    BY Typed
  <1>4. \A c \in Shas : Code(c) \subseteq Code(main)
    BY DEF Chain
  <1>5. \A c \in Shas : Code(c) \subseteq tree.code \/ tree.code \subseteq Code(c)
    BY <1>4 DEF Chain
  <1>6. Code(main) \subseteq Code(main)' /\ tree.code \subseteq Code(main)'
    <2>1. CASE main' = Len(commits') /\ Code(main) \subseteq tree.code
      <3>1. Code(main)' = tree.code
        BY <1>0, <1>1, <2>1 DEF Code, TreeAt
      <3> QED
        BY <2>1, <3>1
    <2>2. CASE main' = main /\ \E c \in Shas : tree.code = Code(c)
      <3>1. Code(main)' = Code(main)
        BY <1>1, <1>3, <2>2 DEF Code, TreeAt
      <3> QED
        BY <1>4, <2>2, <3>1
    <2> QED
      BY <2>1, <2>2
  <1>7. ASSUME NEW c \in Shas', NEW d \in Shas'
        PROVE  Code(c)' \subseteq Code(d)' \/ Code(d)' \subseteq Code(c)'
    <2>1. CASE c = new /\ d = new
      BY <2>1
    <2>2. CASE c \in Shas /\ d = new
      BY <1>2, <1>5, <2>2
    <2>3. CASE c = new /\ d \in Shas
      BY <1>2, <1>5, <2>3
    <2>4. CASE c \in Shas /\ d \in Shas
      BY <1>2, <2>4 DEF Chain
    <2> QED
      BY <1>1, <2>1, <2>2, <2>3, <2>4
  <1>8. ASSUME NEW c \in Shas'
        PROVE  Code(c)' \subseteq Code(main)'
    <2>1. CASE c = new
      BY <1>2, <1>6, <2>1
    <2>2. CASE c \in Shas
      BY <1>2, <1>4, <1>6, <2>2
    <2> QED
      BY <1>1, <2>1, <2>2
  <1> QED
    BY <1>7, <1>8 DEF Chain

LEMMA ChainStep == ASSUME Shapes, Chain, Next PROVE Chain'
  <1>0. main \in Shas /\ TreeAt(main) \in Tree
    BY Typed
  <1>1. CASE Push
    <2>0. PICK tree : tree = [TreeAt(sync.main) EXCEPT !.files = Written(sync.version)]
      OBVIOUS
    <2>1. /\ sync.main \in Shas /\ tree \in Tree /\ Commit(tree, sync.main)
          /\ tree.code = Code(sync.main) /\ main' = main
      BY <1>1, <2>0, CommitAdds DEF Push
    <2> QED
      BY <2>1, ChainGrows
  <1>2. ASSUME NEW T \in SUBSET Files, NEW v \in Version, Commit(Bumped(T, v), main), main' = main
        PROVE  Chain'
    <2>1. Bumped(T, v) \in Tree /\ Bumped(T, v).code = Code(main)
      BY MergedTrees
    <2> QED
      BY <1>0, <1>2, <2>1, ChainGrows
  <1>3. ASSUME NEW b \in config.byHand, PushByHand(b)
        PROVE  Chain'
    BY <1>2, <1>3, CommitAdds, BetaIs DEF PushByHand
  <1>4. ASSUME NEW p \in config.proposals, Propose(p)
        PROVE  Chain'
    BY <1>2, <1>4, CommitAdds DEF Propose
  <1>5. ASSUME NEW c \in Shas, MergeOf(c) \in Tree, Commit(MergeOf(c), main), main' = Len(commits')
        PROVE  Chain'
    <2>1. Code(main) \subseteq MergeOf(c).code
      BY DEF MergeOf, Merge, Code
    <2> QED
      BY <1>0, <1>5, <2>1, ChainGrows
  <1>6. ASSUME NEW v \in Beta, NEW deleted \in BOOLEAN, MergePull(v, deleted)
        PROVE  Chain'
    BY <1>5, <1>6, CommitAdds DEF MergePull
  <1>7. ASSUME NEW f \in features, MergeFeature(f)
        PROVE  Chain'
    BY <1>5, <1>7, CommitAdds DEF MergeFeature
  <1>8. ASSUME NEW c \in config.changes, Land(c)
        PROVE  Chain'
    <2>0. PICK tree : tree = [TreeAt(main) EXCEPT !.code = @ \cup {c}]
      OBVIOUS
    <2>1. tree \in Tree /\ Commit(tree, main) /\ Code(main) \subseteq tree.code
      BY <1>8, <2>0, CommitAdds
    <2> QED
      BY <1>0, <1>8, <2>1, ChainGrows DEF Land
  <1>9. CASE UNCHANGED <<commits, main>>
    <2>1. Shas' = Shas /\ \A c \in Shas : Code(c)' = Code(c)
      BY <1>9 DEF Shas, Code, TreeAt
    <2>2. Code(main)' = Code(main)
      BY <1>9 DEF Code, TreeAt
    <2> QED
      BY <1>9, <2>1, <2>2 DEF Chain
  <1>10. \/ Push
         \/ \E b \in config.byHand : PushByHand(b)
         \/ \E v \in Beta, deleted \in BOOLEAN : MergePull(v, deleted)
         \/ \E c \in config.changes : Land(c)
         \/ \E p \in config.proposals : Propose(p)
         \/ \E f \in features : MergeFeature(f)
         \/ UNCHANGED <<commits, main>>
    BY DEF Next, Checkout, Prepare, EditPull, ListSuperseded, DeleteSuperseded, SyncEnds,
           CloseSuperseded, CheckPull, Attest, CheckFeature, Retarget, Publish, RefusePublish
  <1> QED
    BY <1>1, <1>3, <1>4, <1>6, <1>7, <1>8, <1>9, <1>10

LEMMA CodeStays == ASSUME Grown, NEW c \in Shas PROVE Code(c)' = Code(c)
  BY DEF Grown, Code, TreeAt

\* Prepare finds a change that the latest beta lacks, and commits are ordered:
\* the main that was checked out has all of that beta, though it may have been
\* checked out before the beta was tagged.
LEMMA AdvancingStep == ASSUME Shapes, Chain, Advancing, Next PROVE Advancing'
  <1>0. Grown
    BY ShapesStep
  <1>1. ASSUME NEW over, NEW c, sync.stage = "push", over = sync.over, c = sync.main, over # 0
        PROVE  /\ over \in Shas /\ c \in Shas /\ Gains(Code(over), Code(c))
               /\ Code(over)' = Code(over) /\ Code(c)' = Code(c)
    <2>1. over \in Shas /\ c \in Shas
      BY <1>1 DEF Shapes, SyncShapes
    <2> QED
      BY <1>0, <1>1, <2>1, CodeStays DEF Advancing
  <1>2. ASSUME sync'.stage = "push", sync'.over # 0
        PROVE  Gains(Code(sync.over), Code(sync.main))'
    <2>1. PICK over, c : over = sync'.over /\ c = sync'.main
      OBVIOUS
    <2>2. CASE UNCHANGED sync
      <3>1. Gains(Code(over), Code(c)) /\ Code(over)' = Code(over) /\ Code(c)' = Code(c)
        BY <1>1, <1>2, <2>1, <2>2
      <3>2. Code(sync.over)' = Code(over)' /\ Code(sync.main)' = Code(c)'
        BY <2>1 DEF Code, TreeAt
      <3> QED
        BY <3>1, <3>2 DEF Gains
    <2>3. CASE Prepare
      <3>1. /\ c \in Shas /\ over \in Shas
            /\ ~(Code(c) \cap Releasable \subseteq Code(over))
        BY <1>2, <2>1, <2>3, PrepareIs
      <3>2. Code(over) \subseteq Code(c)
        BY <3>1 DEF Chain
      <3>3. Gains(Code(over), Code(c))
        BY <3>1, <3>2 DEF Gains
      <3>4. Code(over)' = Code(over) /\ Code(c)' = Code(c)
        BY <1>0, <3>1, CodeStays
      <3>5. Code(sync.over)' = Code(over)' /\ Code(sync.main)' = Code(c)'
        BY <2>1 DEF Code, TreeAt
      <3> QED
        BY <3>3, <3>4, <3>5 DEF Gains
    <2>4. UNCHANGED sync \/ Prepare
      <3>1. Checkout \/ Push \/ EditPull => sync'.stage # "push"
        BY DEF Checkout, Push, EditPull
      <3>2. ListSuperseded \/ DeleteSuperseded \/ SyncEnds => sync'.stage # "push"
        BY DEF ListSuperseded, DeleteSuperseded, SyncEnds, Idle
      <3>3. \A v \in Beta : CloseSuperseded(v) => sync'.stage # "push"
        BY DEF CloseSuperseded, Idle
      <3>4. \/ Checkout \/ Prepare \/ Push \/ EditPull \/ ListSuperseded \/ DeleteSuperseded
            \/ SyncEnds \/ UNCHANGED sync
            \/ \E v \in Beta : CloseSuperseded(v)
        BY DEF Next, CheckPull, PushByHand, Attest, MergePull, Land, Propose, CheckFeature,
               MergeFeature, Retarget, Publish, RefusePublish
      <3> QED
        BY <1>2, <3>1, <3>2, <3>3, <3>4
    <2> QED
      BY <2>2, <2>3, <2>4
  <1>3. ASSUME NEW c \in candidates', ~c.byHand, c.over # 0
        PROVE  Gains(Code(c.over), Code(c.sha))'
    <2>1. CASE c \in candidates
      <3>1. Gains(Code(c.over), Code(c.sha)) /\ c.over \in Shas /\ c.sha \in Shas
        BY <1>3, <2>1 DEF Advancing, Shapes, BetaShapes
      <3> QED
        BY <1>0, <3>1, CodeStays DEF Gains
    <2>2. CASE c \notin candidates
      <3>1. Push
        <4>1. \A b \in config.byHand : PushByHand(b) => c.byHand = TRUE
          BY <2>2 DEF PushByHand
        <4>2. Push \/ UNCHANGED candidates \/ \E b \in config.byHand : PushByHand(b)
          BY DEF Next, Checkout, Prepare, EditPull, ListSuperseded, DeleteSuperseded, SyncEnds,
                 CloseSuperseded, CheckPull, Attest, MergePull, Land, Propose, CheckFeature,
                 MergeFeature, Retarget, Publish, RefusePublish
        <4> QED
          BY <1>3, <2>2, <4>1, <4>2
      <3>2. c.over = sync.over /\ c.sha = Len(commits')
        BY <2>2, <3>1 DEF Push
      <3>3. PICK over, d, new : over = sync.over /\ d = sync.main /\ new = Len(commits')
        OBVIOUS
      <3>4. PICK tree : tree = [TreeAt(sync.main) EXCEPT !.files = Written(sync.version)]
        OBVIOUS
      <3>5. /\ sync.stage = "push" /\ d \in Shas /\ tree \in Tree /\ Commit(tree, d)
            /\ tree.code = Code(d)
        BY <3>1, <3>3, <3>4, CommitAdds
      <3>6. Code(new)' = Code(d)
        <4>1. commits'[new].tree = tree
          BY <3>3, <3>5, CommitShapes
        <4> QED
          BY <3>5, <4>1 DEF Code, TreeAt
      <3>7. Gains(Code(over), Code(d)) /\ Code(over)' = Code(over)
        BY <1>1, <1>3, <3>2, <3>3, <3>5
      <3> QED
        BY <3>2, <3>3, <3>6, <3>7 DEF Gains
    <2> QED
      BY <2>1, <2>2
  <1> QED
    BY <1>2, <1>3 DEF Advancing

-----------------------------------------------------------------------------
\* The version fields agree

LEMMA WrittenIs ==
    /\ \A v : \A f \in Files : Written(v)[f].version = v
    /\ \A v, w : \A f \in Files : Written(v)[f] = Written(w)[f] <=> v = w
    /\ \A v : DOMAIN Written(v) = Files
  <1>1. \A v : \A f \in Files : Written(v)[f].version = v
    BY DEF Written
  <1>2. \A v, w : \A f \in Files : Written(v)[f] = Written(w)[f] <=> v = w
    BY <1>1
  <1>3. \A v : DOMAIN Written(v) = Files
    BY DEF Written
  <1> QED
    BY <1>1, <1>2, <1>3

\* Fields that are spelled as written are told apart by their versions.
LEMMA SpelledIs ==
    ASSUME NEW files \in [Files -> Field], Spelled(files)
    PROVE  /\ \A v \in Version : (\A f \in Files : files[f].version = v) => files = Written(v)
           /\ \A other \in [Files -> Field] :
                  Spelled(other) /\ (\A f \in Files : files[f].version = other[f].version)
                      => files = other
  <1>1. \A v \in Version : (\A f \in Files : files[f].version = v) => files = Written(v)
    BY DEF Spelled, Written
  <1>2. \A other \in [Files -> Field] :
                  Spelled(other) /\ (\A f \in Files : files[f].version = other[f].version)
                      => files = other
    BY DEF Spelled
  <1> QED
    BY <1>1, <1>2

LEMMA CanonicalIs ==
    ASSUME NEW files \in [Files -> Field], NEW f \in Files
    PROVE  Canonical(files)[f].version = files[f].version
  BY DEF Canonical, Field

\* What passes guard_pull_request has fields that agree, or main's.
LEMMA GuardAgrees ==
    ASSUME NEW tree \in Tree, NEW base \in Tree, NEW ref, NEW canonical, NEW body, NEW sha,
           Spelled(tree.files), Spelled(base.files), Agreed(base.files),
           GuardBeta(ref, canonical, body, sha, tree, base)
    PROVE  Agreed(tree.files)
  <1>1. tree.files \in [Files -> Field] /\ base.files \in [Files -> Field]
    BY TreeTypes
  <1>2. PICK a \in [Files -> Field], b \in [Files -> Field] : a = tree.files /\ b = base.files
    BY <1>1
  <1>3. Canonical(a) = Canonical(b) \/ Consistent(a)
    BY <1>2 DEF GuardBeta
  <1>4. ASSUME Canonical(a) = Canonical(b) PROVE a = b
    <2>1. \A f \in Files : a[f].version = b[f].version
      <3> TAKE f \in Files
      <3> QED
        BY <1>4, CanonicalIs
    <2> QED
      BY <1>2, <2>1, SpelledIs
  <1>5. ASSUME Consistent(a) PROVE Agreed(a)
    <2>1. "uv.lock" \in Files
      BY ReleaseAssumption
    <2>2. PICK v : v = a["uv.lock"].version
      OBVIOUS
    <2>3. v \in Version
      BY <2>1, <2>2 DEF Field
    <2>4. ASSUME NEW f \in Files PROVE a[f].version = v
      <3>1. Canonical(a)[f] = Canonical(a)["uv.lock"]
        BY <1>5, <2>1 DEF Consistent
      <3>2. /\ Canonical(a)[f].version = a[f].version
            /\ Canonical(a)["uv.lock"].version = a["uv.lock"].version
        BY <2>1, CanonicalIs
      <3> QED
        BY <2>2, <3>1, <3>2
    <2>5. a = Written(v)
      BY <1>2, <2>3, <2>4, SpelledIs
    <2> QED
      BY <2>3, <2>5 DEF Agreed
  <1> QED
    BY <1>2, <1>3, <1>4, <1>5

\* A merge takes each field from a side.
LEMMA MergeSpelled ==
    ASSUME NEW base, NEW ours, NEW theirs, Spelled(ours.files), Spelled(theirs.files)
    PROVE  Spelled(Merge(base, ours, theirs).files)
  <1>1. Merge(base, ours, theirs).files = [f \in Files |->
            IF theirs.files[f] = base.files[f] THEN ours.files[f] ELSE theirs.files[f]]
    BY DEF Merge
  <1> QED
    BY <1>1 DEF Spelled

\* A merge of trees whose fields agree.
LEMMA MergeWritten ==
    ASSUME NEW base, NEW ours, NEW theirs,
           Agreed(base.files), Agreed(ours.files), Agreed(theirs.files)
    PROVE  Agreed(Merge(base, ours, theirs).files)
  <1>0. PICK b \in Version, u \in Version, a \in Version :
            base.files = Written(b) /\ ours.files = Written(u) /\ theirs.files = Written(a)
    BY DEF Agreed
  <1>1. Merge(base, ours, theirs).files =
            [f \in Files |-> IF Written(a)[f] = Written(b)[f] THEN Written(u)[f] ELSE Written(a)[f]]
    BY <1>0 DEF Merge
  <1>2. a = b => Merge(base, ours, theirs).files = Written(u)
    BY <1>1, WrittenIs DEF Written
  <1>3. a # b => Merge(base, ours, theirs).files = Written(a)
    <2>1. \A f \in Files : a # b => Written(a)[f] # Written(b)[f]
      BY WrittenIs
    <2> QED
      BY <1>1, <2>1 DEF Written
  <1> QED
    BY <1>2, <1>3 DEF Agreed

\* The fields of a merge depend on fields only.
LEMMA MergeFiles ==
    ASSUME NEW base, NEW ours, NEW other, NEW theirs, ours.files = other.files
    PROVE  Merge(base, ours, theirs).files = Merge(base, other, theirs).files
  BY DEF Merge

\* What is merged in time, or sets all fields, leaves fields that agree.
LEMMA MergeAgrees ==
    ASSUME Shapes, Uniform, NEW head \in Shas, NEW green \in Shas, Judged(head, green),
           ~MergesLate(head, green)
    PROVE  Agreed(MergeOf(head).files)
  <1>1. PICK base, ours, theirs : /\ base = TreeAt(commits[head].parent)
                                  /\ ours = TreeAt(main) /\ theirs = TreeAt(head)
    OBVIOUS
  <1>2. Agreed(base.files) /\ Agreed(ours.files)
    BY <1>1 DEF Uniform, UniformRepo, FilesAt
  <1>3. MergeOf(head) = Merge(base, ours, theirs)
    BY <1>1 DEF MergeOf
  <1>4. CASE Agreed(theirs.files)
    BY <1>2, <1>3, <1>4, MergeWritten
  <1>5. CASE TreeAt(green).files = ours.files
    <2>1. Agreed(Merge(base, TreeAt(green), theirs).files)
      BY <1>1 DEF Judged
    <2> QED
      BY <1>3, <1>5, <2>1, MergeFiles
  <1> QED
    BY <1>1, <1>4, <1>5 DEF MergesLate, Agreed

\* What the checks let pass is judged.
LEMMA CheckAgrees ==
    ASSUME Shapes, AllSpelled, Uniform, NEW head \in Shas, NEW ref, NEW canonical, NEW body,
           Passes(ref, canonical, body, head)
    PROVE  Judged(head, main)
  <1>1. main \in Shas /\ TreeAt(main) \in Tree /\ MergeOf(head) \in Tree
    BY Typed, MergedTrees
  <1>2. Spelled(TreeAt(main).files) /\ Spelled(TreeAt(head).files) /\ Agreed(TreeAt(main).files)
    BY <1>1 DEF AllSpelled, Uniform, UniformRepo, FilesAt
  <1>3. Spelled(MergeOf(head).files)
    BY <1>2, MergeSpelled DEF MergeOf
  <1>4. GuardBeta(ref, canonical, body, head, MergeOf(head), TreeAt(main))
    BY DEF Passes
  <1>5. Agreed(MergeOf(head).files)
    BY <1>1, <1>2, <1>3, <1>4, GuardAgrees
  <1> QED
    BY <1>5 DEF Judged, MergeOf

\* What is spelled stays so: a step commits fields that were written or that
\* are those of older commits.
LEMMA SpelledStep == ASSUME Shapes, AllSpelled, Next PROVE AllSpelled'
  <1>0. main \in Shas /\ Spelled(FilesAt(main))
    BY Typed DEF AllSpelled
  <1>1. \A v : Spelled(Written(v))
    BY WrittenIs DEF Spelled
  <1>2. ASSUME NEW tree \in Tree, NEW parent \in Shas, Commit(tree, parent), Spelled(tree.files)
        PROVE  AllSpelled'
    <2>1. PICK new : new = Len(commits')
      OBVIOUS
    <2>2. /\ Shas' = Shas \cup {new} /\ commits'[new].tree = tree
          /\ \A c \in Shas : commits'[c] = commits[c]
      BY <1>2, <2>1, CommitShapes
    <2>3. FilesAt(new)' = tree.files /\ \A c \in Shas : FilesAt(c)' = FilesAt(c)
      BY <2>2 DEF FilesAt, TreeAt
    <2> QED
      BY <1>2, <2>2, <2>3 DEF AllSpelled
  <1>3. CASE Push
    <2>0. PICK tree : tree = [TreeAt(sync.main) EXCEPT !.files = Written(sync.version)]
      OBVIOUS
    <2>1. /\ sync.main \in Shas /\ tree \in Tree /\ Commit(tree, sync.main)
          /\ tree.files = Written(sync.version)
      BY <1>3, <2>0, CommitAdds
    <2>2. Spelled(tree.files)
      BY <1>1, <2>1
    <2> QED
      BY <1>2, <2>1, <2>2
  <1>4. ASSUME NEW T \in SUBSET Files, NEW v \in Version, Commit(Bumped(T, v), main)
        PROVE  AllSpelled'
    <2>1. /\ Bumped(T, v) \in Tree
          /\ Bumped(T, v).files =
               [f \in Files |-> IF f \in T THEN Written(v)[f] ELSE FilesAt(main)[f]]
      BY MergedTrees DEF FilesAt
    <2>2. Spelled(Bumped(T, v).files)
      BY <1>0, <1>1, <2>1 DEF Spelled
    <2> QED
      BY <1>0, <1>2, <1>4, <2>1, <2>2
  <1>5. ASSUME NEW b \in config.byHand, PushByHand(b)
        PROVE  AllSpelled'
    BY <1>4, <1>5, CommitAdds, BetaIs
  <1>6. ASSUME NEW p \in config.proposals, Propose(p)
        PROVE  AllSpelled'
    BY <1>4, <1>6, CommitAdds
  <1>7. ASSUME NEW c \in Shas, MergeOf(c) \in Tree, Commit(MergeOf(c), main)
        PROVE  AllSpelled'
    <2>1. Spelled(MergeOf(c).files)
      BY <1>0, MergeSpelled DEF MergeOf, AllSpelled, FilesAt
    <2> QED
      BY <1>0, <1>2, <1>7, <2>1
  <1>8. ASSUME NEW v \in Beta, NEW deleted \in BOOLEAN, MergePull(v, deleted)
        PROVE  AllSpelled'
    BY <1>7, <1>8, CommitAdds
  <1>9. ASSUME NEW f \in features, MergeFeature(f)
        PROVE  AllSpelled'
    BY <1>7, <1>9, CommitAdds
  <1>10. ASSUME NEW c \in config.changes, Land(c)
         PROVE  AllSpelled'
    <2>0. PICK tree : tree = [TreeAt(main) EXCEPT !.code = @ \cup {c}]
      OBVIOUS
    <2>1. tree \in Tree /\ Commit(tree, main) /\ tree.files = FilesAt(main)
      BY <1>10, <2>0, CommitAdds
    <2> QED
      BY <1>0, <1>2, <2>1
  <1>11. CASE UNCHANGED commits
    BY <1>11 DEF AllSpelled, Shas, FilesAt, TreeAt
  <1>12. \/ Push
         \/ \E b \in config.byHand : PushByHand(b)
         \/ \E v \in Beta, deleted \in BOOLEAN : MergePull(v, deleted)
         \/ \E c \in config.changes : Land(c)
         \/ \E p \in config.proposals : Propose(p)
         \/ \E f \in features : MergeFeature(f)
         \/ UNCHANGED commits
    BY DEF Next, Checkout, Prepare, EditPull, ListSuperseded, DeleteSuperseded, SyncEnds,
           CloseSuperseded, CheckPull, Attest, CheckFeature, Retarget, Publish, RefusePublish
  <1> QED
    BY <1>3, <1>5, <1>6, <1>8, <1>9, <1>10, <1>11, <1>12

LEMMA JudgedStays ==
    ASSUME Shapes, Grown, NEW head \in Shas, NEW green \in Shas, Judged(head, green)
    PROVE  Judged(head, green)'
  <1>1. commits[head].parent \in Shas
    BY Typed
  <1>2. PICK parent \in Shas : parent = commits[head].parent
    BY <1>1
  <1>3. /\ commits'[head].parent = parent /\ TreeAt(parent)' = TreeAt(parent)
        /\ TreeAt(green)' = TreeAt(green) /\ TreeAt(head)' = TreeAt(head)
    BY <1>2 DEF Grown, TreeAt
  <1>4. TreeAt(commits[head].parent)' = TreeAt(parent)'
    BY <1>3 DEF TreeAt
  <1> QED
    BY <1>2, <1>3, <1>4 DEF Judged

LEMMA AgreedStays ==
    ASSUME Grown, NEW c \in Shas, Agreed(FilesAt(c))
    PROVE  Agreed(FilesAt(c))'
  <1>1. FilesAt(c)' = FilesAt(c)
    BY DEF Grown, FilesAt, TreeAt
  <1> QED
    BY <1>1 DEF Agreed

\* The parts that a step leaves alone, and pull requests that are not judged.
LEMMA UniformKept ==
    ASSUME Shapes, Uniform, Grown
    PROVE  /\ UNCHANGED sync => UniformSync'
           /\ sync'.stage \notin {"prepare", "push"} => UniformSync'
           /\ (\A v \in Beta : \/ pull'[v].green = 0 \/ branch'[v] = 0
                               \/ pull'[v].green = pull[v].green /\ branch'[v] = branch[v])
                => UniformPulls'
           /\ (\A f \in features' : f.green = 0 \/ \E g \in features : f.head = g.head /\ f.green = g.green)
                => UniformFeatures'
           /\ UNCHANGED <<commits, main>> => UniformRepo'
  <1>1. ASSUME UNCHANGED sync PROVE UniformSync'
    <2>1. PICK c : c = sync.main
      OBVIOUS
    <2>2. sync.stage \in {"prepare", "push"} => c \in Shas /\ Agreed(FilesAt(c))
      BY <2>1 DEF Shapes, SyncShapes, Uniform, UniformSync
    <2>3. sync.stage \in {"prepare", "push"} => Agreed(FilesAt(c))'
      BY <2>2, AgreedStays
    <2>4. Agreed(FilesAt(c))' => Agreed(FilesAt(sync.main))'
      BY <1>1, <2>1 DEF FilesAt, TreeAt
    <2> QED
      BY <1>1, <2>3, <2>4 DEF UniformSync
  <1>2. sync'.stage \notin {"prepare", "push"} => UniformSync'
    BY DEF UniformSync
  <1>3. ASSUME \A v \in Beta : \/ pull'[v].green = 0 \/ branch'[v] = 0
                               \/ pull'[v].green = pull[v].green /\ branch'[v] = branch[v]
        PROVE  UniformPulls'
    <2> SUFFICES ASSUME NEW v \in Beta, pull'[v].green # 0, branch'[v] # 0
                 PROVE  Judged(branch[v], pull[v].green)'
      BY DEF UniformPulls
    <2>1. PICK h, g : h = branch'[v] /\ g = pull'[v].green
      OBVIOUS
    <2>2. h = branch[v] /\ g = pull[v].green /\ h # 0 /\ g # 0
      BY <1>3, <2>1
    <2>3. h \in Shas /\ g \in Shas /\ Judged(h, g)
      BY <2>2, Typed DEF Shapes, PullShapes, Uniform, UniformPulls
    <2>4. Judged(h, g)'
      BY <2>3, JudgedStays
    <2> QED
      BY <2>1, <2>4 DEF Judged, TreeAt
  <1>4. ASSUME \A f \in features' :
                  f.green = 0 \/ \E g \in features : f.head = g.head /\ f.green = g.green
        PROVE  UniformFeatures'
    <2> SUFFICES ASSUME NEW f \in features', f.green # 0
                 PROVE  Judged(f.head, f.green)'
      BY DEF UniformFeatures
    <2>1. PICK g \in features : f.head = g.head /\ f.green = g.green
      BY <1>4
    <2>2. f.head \in Shas /\ f.green \in Shas /\ Judged(f.head, f.green)
      BY <2>1 DEF Shapes, FeatureShapes, Uniform, UniformFeatures
    <2> QED
      BY <2>2, JudgedStays
  <1>5. ASSUME UNCHANGED <<commits, main>> PROVE UniformRepo'
    BY <1>5 DEF Uniform, UniformRepo, Shas, FilesAt, TreeAt, Agreed
  <1> QED
    BY <1>1, <1>2, <1>3, <1>4, <1>5

\* A new commit on a main of some time; it may be the new main.
LEMMA UniformGrows ==
    ASSUME Shapes, Uniform, NEW tree \in Tree, NEW parent \in Shas, Commit(tree, parent),
           Agreed(FilesAt(parent)),
           main' = main \/ (main' = Len(commits') /\ Agreed(tree.files))
    PROVE  UniformRepo'
  <1>1. PICK new : new = Len(commits')
    OBVIOUS
  <1>2. /\ Shas' = Shas \cup {new} /\ commits'[new].tree = tree /\ commits'[new].parent = parent
        /\ \A c \in Shas : commits'[c] = commits[c]
        /\ Grown
    BY <1>1, CommitShapes
  <1>3. FilesAt(new)' = tree.files
    BY <1>2 DEF FilesAt, TreeAt
  <1>4. Agreed(FilesAt(main))'
    <2>1. CASE main' = main
      <3>1. main \in Shas /\ Agreed(FilesAt(main))
        BY Typed DEF Uniform, UniformRepo
      <3>2. FilesAt(main)' = FilesAt(main)
        BY <1>2, <2>1, <3>1 DEF FilesAt, TreeAt
      <3> QED
        BY <3>1, <3>2 DEF Agreed
    <2>2. CASE main' = Len(commits') /\ Agreed(tree.files)
      <3>1. FilesAt(main)' = tree.files
        BY <1>1, <1>2, <2>2 DEF FilesAt, TreeAt
      <3> QED
        BY <2>2, <3>1 DEF Agreed
    <2> QED
      BY <2>1, <2>2
  <1>5. ASSUME NEW c \in Shas'
        PROVE  Agreed(FilesAt(commits[c].parent))'
    <2>1. PICK p : p = commits'[c].parent
      OBVIOUS
    <2>2. p \in Shas /\ Agreed(FilesAt(p))
      <3>1. CASE c = new
        BY <1>2, <2>1, <3>1
      <3>2. CASE c \in Shas
        BY <1>2, <2>1, <3>2, Typed DEF Uniform, UniformRepo
      <3> QED
        BY <1>2, <3>1, <3>2
    <2>3. Agreed(FilesAt(p))'
      BY <1>2, <2>2, AgreedStays
    <2> QED
      BY <2>1, <2>3 DEF FilesAt, TreeAt
  <1> QED
    BY <1>4, <1>5 DEF UniformRepo

LEMMA UniformSyncStep ==
    ASSUME Shapes, Uniform,
           \/ Checkout \/ Prepare \/ EditPull \/ ListSuperseded \/ DeleteSuperseded \/ SyncEnds
           \/ \E v \in Beta : CloseSuperseded(v)
    PROVE  Uniform'
  <1>0. UNCHANGED <<commits, main, features>>
    BY DEF Checkout, Prepare, EditPull, ListSuperseded, DeleteSuperseded, SyncEnds, CloseSuperseded
  <1>1. Grown /\ UniformRepo' /\ UniformFeatures'
    BY <1>0, SyncStep, UniformKept
  <1>2. UniformPulls'
    <2>1. CASE UNCHANGED <<pull, branch>>
      BY <1>1, <2>1, UniformKept
    <2>2. CASE EditPull
      <3>1. sync.version \in Beta /\ UNCHANGED branch
        BY <2>2 DEF EditPull, Shapes, SyncShapes
      <3>2. \A v \in Beta : pull'[v].green = 0 \/ pull'[v].green = pull[v].green
        BY <2>2, <3>1, Typed DEF EditPull
      <3> QED
        BY <1>1, <3>1, <3>2, UniformKept
    <2>3. CASE DeleteSuperseded
      <3>1. sync.closed \in Beta
        BY <2>3 DEF DeleteSuperseded, Shapes, SyncShapes
      <3>2. \A v \in Beta : \/ branch'[v] = 0
                            \/ pull'[v].green = pull[v].green /\ branch'[v] = branch[v]
        BY <2>3, <3>1, Typed DEF DeleteSuperseded, Shapes, BetaShapes
      <3> QED
        BY <1>1, <3>2, UniformKept
    <2>4. ASSUME NEW w \in Beta, CloseSuperseded(w) PROVE UniformPulls'
      <3>1. \A v \in Beta : pull'[v].green = 0 \/ pull'[v].green = pull[v].green
        BY <2>4, Typed, PullTypes DEF CloseSuperseded
      <3>2. UNCHANGED branch
        BY <2>4 DEF CloseSuperseded
      <3> QED
        BY <1>1, <3>1, <3>2, UniformKept
    <2> QED
      BY <2>1, <2>2, <2>3, <2>4 DEF Checkout, Prepare, ListSuperseded, SyncEnds
  <1>3. UniformSync'
    <2>1. CASE Checkout
      <3>1. sync'.main = main /\ Agreed(FilesAt(main))
        BY <2>1 DEF Checkout, Uniform, UniformRepo
      <3>2. FilesAt(sync.main)' = FilesAt(main)
        BY <1>0, <3>1 DEF FilesAt, TreeAt
      <3> QED
        BY <3>1, <3>2 DEF UniformSync, Agreed
    <2>2. CASE Prepare
      <3>1. /\ sync.stage = "prepare"
            /\ sync'.stage \in {"idle", "list"} \/ sync'.main = sync.main
        BY <2>2, PrepareIs
      <3>2. CASE sync'.stage \in {"idle", "list"}
        BY <3>2 DEF UniformSync
      <3>3. CASE sync'.main = sync.main
        <4>1. FilesAt(sync.main)' = FilesAt(sync.main)
          BY <1>0, <3>3 DEF FilesAt, TreeAt
        <4>2. Agreed(FilesAt(sync.main))
          BY <3>1 DEF Uniform, UniformSync
        <4> QED
          BY <4>1, <4>2 DEF UniformSync, Agreed
      <3> QED
        BY <3>1, <3>2, <3>3
    <2>3. CASE EditPull \/ ListSuperseded
      BY <2>3 DEF EditPull, ListSuperseded, UniformSync
    <2>4. CASE DeleteSuperseded \/ SyncEnds
      BY <2>4 DEF DeleteSuperseded, SyncEnds, UniformSync, Idle
    <2>5. ASSUME NEW v \in Beta, CloseSuperseded(v) PROVE UniformSync'
      <3>1. sync'.stage \in {"idle", "delete"}
        BY <2>5 DEF CloseSuperseded, Idle
      <3> QED
        BY <3>1 DEF UniformSync
    <2> QED
      BY <2>1, <2>2, <2>3, <2>4, <2>5
  <1> QED
    BY <1>1, <1>2, <1>3 DEF Uniform

LEMMA UniformOtherStep ==
    ASSUME Shapes, AllSpelled, Uniform,
           \/ \E v \in Beta : CheckPull(v)
           \/ \E v \in Beta, sha \in Shas : Attest(v, sha)
           \/ \E f \in features : CheckFeature(f)
           \/ Retarget
           \/ \E p \in publishing : Publish(p) \/ RefusePublish(p)
    PROVE  Uniform'
  <1>0. UNCHANGED <<commits, main, branch, sync>>
    BY DEF CheckPull, Attest, CheckFeature, Retarget, Publish, RefusePublish
  <1>1. Grown /\ UniformRepo' /\ UniformSync'
    BY <1>0, OtherStep, UniformKept
  <1>2. UNCHANGED features => UniformFeatures'
    BY <1>1, UniformKept
  <1>3. main \in Shas
    BY Typed
  <1>4. ASSUME NEW w \in Beta, CheckPull(w) PROVE Uniform'
    <2>0. PICK h : h = branch[w]
      OBVIOUS
    <2>1. h \in Shas /\ Passes([kind |-> "beta", version |-> w], TRUE, pull[w].body, h)
      BY <1>4, <2>0, Typed DEF CheckPull
    <2>2. Judged(h, main)
      BY <2>1, CheckAgrees
    <2>3. Judged(h, main)'
      <3>1. PICK m \in Shas : m = main
        BY <1>3
      <3>2. Judged(h, m)'
        BY <1>1, <2>1, <2>2, <3>1, JudgedStays
      <3> QED
        BY <1>0, <3>1, <3>2 DEF Judged, TreeAt
    <2>4. /\ pull'[w].green = main
          /\ \A v \in Beta : v = w \/ pull'[v].green = pull[v].green
      BY <1>4, Typed DEF CheckPull, Pull
    <2>5. ASSUME NEW v \in Beta, pull'[v].green # 0, branch'[v] # 0
          PROVE  Judged(branch[v], pull[v].green)'
      <3>1. CASE v = w
        BY <1>0, <2>0, <2>3, <2>4, <3>1 DEF Judged, TreeAt
      <3>2. CASE v # w
        <4>1. PICK b, g : b = branch[v] /\ g = pull[v].green
          OBVIOUS
        <4>2. b \in Shas /\ g \in Shas /\ Judged(b, g)
          BY <1>0, <2>4, <2>5, <3>2, <4>1, Typed DEF Shapes, PullShapes, Uniform, UniformPulls
        <4>3. Judged(b, g)'
          BY <1>1, <4>2, JudgedStays
        <4> QED
          BY <1>0, <2>4, <3>2, <4>1, <4>3 DEF Judged, TreeAt
      <3> QED
        BY <3>1, <3>2
    <2>6. UNCHANGED features
      BY <1>4 DEF CheckPull
    <2> QED
      BY <1>1, <1>2, <2>5, <2>6 DEF Uniform, UniformPulls
  <1>5. ASSUME NEW w \in Beta, NEW sha \in Shas, Attest(w, sha) PROVE Uniform'
    <2>1. \A v \in Beta : pull'[v].green = 0 \/ pull'[v].green = pull[v].green
      BY <1>5, Typed DEF Attest, Pull
    <2>2. UNCHANGED features
      BY <1>5 DEF Attest
    <2> QED
      BY <1>0, <1>1, <1>2, <2>1, <2>2, UniformKept DEF Uniform
  <1>6. ASSUME NEW f \in features, CheckFeature(f) PROVE Uniform'
    <2>1. PICK g : g = [f EXCEPT !.green = main]
      OBVIOUS
    <2>2. f \in Feature /\ f.head \in Shas
      BY DEF Shapes, FeatureShapes
    <2>3. g.head = f.head /\ g.green = main
      BY <2>1, <2>2 DEF Feature
    <2>4. features' = (features \ {f}) \cup {g} /\ UNCHANGED pull
      BY <1>6, <2>1 DEF CheckFeature
    <2>5. Judged(f.head, main)
      BY <1>6, <2>2, CheckAgrees DEF CheckFeature
    <2>6. Judged(g.head, g.green)'
      <3>1. PICK m \in Shas : m = main
        BY <1>3
      <3>2. Judged(f.head, m)'
        BY <1>1, <2>2, <2>5, <3>1, JudgedStays
      <3> QED
        BY <2>3, <3>1, <3>2
    <2>7. ASSUME NEW e \in features, e.green # 0 PROVE Judged(e.head, e.green)'
      <3>1. e.head \in Shas /\ e.green \in Shas /\ Judged(e.head, e.green)
        BY <2>7 DEF Shapes, FeatureShapes, Uniform, UniformFeatures
      <3> QED
        BY <1>1, <3>1, JudgedStays
    <2>8. UniformFeatures'
      BY <2>4, <2>6, <2>7 DEF UniformFeatures
    <2>9. UniformPulls'
      BY <1>0, <1>1, <2>4, UniformKept
    <2> QED
      BY <1>1, <2>8, <2>9 DEF Uniform
  <1>7. CASE Retarget \/ \E p \in publishing : Publish(p) \/ RefusePublish(p)
    <2>1. UNCHANGED <<pull, features>>
      BY <1>7 DEF Retarget, Publish, RefusePublish
    <2> QED
      BY <1>0, <1>1, <1>2, <2>1, UniformKept DEF Uniform
  <1> QED
    BY <1>4, <1>5, <1>6, <1>7

LEMMA UniformCommitStep ==
    ASSUME Shapes, Uniform, ~raced',
           \/ Push
           \/ \E b \in config.byHand : PushByHand(b)
           \/ \E v \in Beta, deleted \in BOOLEAN : MergePull(v, deleted)
           \/ \E c \in config.changes : Land(c)
           \/ \E p \in config.proposals : Propose(p)
           \/ \E f \in features : MergeFeature(f)
    PROVE  Uniform'
  <1>0. Grown /\ main \in Shas /\ Agreed(FilesAt(main))
    BY CommitStep, Typed DEF Uniform, UniformRepo
  <1>1. UNCHANGED features => UniformFeatures'
    BY <1>0, UniformKept
  <1>2. UNCHANGED sync => UniformSync'
    BY <1>0, UniformKept
  <1>3. UNCHANGED <<pull, branch>> => UniformPulls'
    BY <1>0, UniformKept
  <1>4. CASE Push
    <2>0. PICK tree : tree = [TreeAt(sync.main) EXCEPT !.files = Written(sync.version)]
      OBVIOUS
    <2>1. /\ sync.stage = "push" /\ sync.main \in Shas /\ sync.version \in Beta
          /\ tree \in Tree /\ Commit(tree, sync.main)
      BY <1>4, <2>0, CommitAdds
    <2>2. UniformRepo'
      <3>1. Agreed(FilesAt(sync.main)) /\ main' = main
        BY <1>4, <2>1 DEF Uniform, UniformSync, Push
      <3> QED
        BY <2>1, <3>1, UniformGrows
    <2>3. /\ pull' = [pull EXCEPT ![sync.version] = [pull[sync.version] EXCEPT !.green = 0]]
          /\ branch' = [branch EXCEPT ![sync.version] = Len(commits')]
          /\ UNCHANGED features /\ sync'.stage = "edit"
      BY <1>4 DEF Push
    <2>4. \A v \in Beta : \/ pull'[v].green = 0
                          \/ pull'[v].green = pull[v].green /\ branch'[v] = branch[v]
      BY <2>1, <2>3, Typed DEF Shapes, BetaShapes, Pull
    <2>5. UniformPulls' /\ UniformSync'
      BY <1>0, <2>3, <2>4, UniformKept
    <2> QED
      BY <1>1, <2>2, <2>3, <2>5 DEF Uniform
  <1>5. ASSUME NEW b \in config.byHand, PushByHand(b) PROVE Uniform'
    <2>0. PICK w : w = b.version
      OBVIOUS
    <2>1. w \in Beta /\ Bumped(b.touched, w) \in Tree /\ Commit(Bumped(b.touched, w), main)
      BY <1>5, <2>0, CommitAdds
    <2>2. /\ pull' = [pull EXCEPT ![w] = [pull[w] EXCEPT !.open = TRUE, !.green = 0]]
          /\ branch' = [branch EXCEPT ![w] = Len(commits')]
          /\ UNCHANGED <<main, features, sync>>
      BY <1>5, <2>0 DEF PushByHand
    <2>3. UniformRepo'
      BY <1>0, <2>1, <2>2, UniformGrows
    <2>4. \A v \in Beta : \/ pull'[v].green = 0
                          \/ pull'[v].green = pull[v].green /\ branch'[v] = branch[v]
      BY <2>1, <2>2, Typed DEF Shapes, BetaShapes, Pull
    <2>5. UniformPulls'
      BY <1>0, <2>4, UniformKept
    <2> QED
      BY <1>1, <1>2, <2>2, <2>3, <2>5 DEF Uniform
  <1>6. ASSUME NEW w \in Beta, NEW deleted \in BOOLEAN, MergePull(w, deleted) PROVE Uniform'
    <2>0. PICK h, g : h = branch[w] /\ g = pull[w].green
      OBVIOUS
    <2>1. h \in Shas /\ MergeOf(h) \in Tree /\ Commit(MergeOf(h), main)
      BY <1>6, <2>0, CommitAdds
    <2>2. /\ g # 0 /\ h # 0 /\ ~MergesLate(h, g) /\ main' = Len(commits')
          /\ pull' = [pull EXCEPT ![w] = NoPull]
          /\ branch' \in {branch, [branch EXCEPT ![w] = 0]}
          /\ UNCHANGED <<features, sync>>
      BY <1>6, <2>0 DEF MergePull
    <2>3. g \in Shas /\ Judged(h, g)
      BY <2>0, <2>2 DEF Shapes, PullShapes, Uniform, UniformPulls
    <2>4. Agreed(MergeOf(h).files)
      BY <2>1, <2>2, <2>3, MergeAgrees
    <2>5. UniformRepo'
      BY <1>0, <2>1, <2>2, <2>4, UniformGrows
    <2>6. \A v \in Beta : \/ pull'[v].green = 0
                          \/ pull'[v].green = pull[v].green /\ branch'[v] = branch[v]
      BY <2>2, Typed, PullTypes DEF Shapes, BetaShapes
    <2>7. UniformPulls'
      BY <1>0, <2>6, UniformKept
    <2> QED
      BY <1>1, <1>2, <2>2, <2>5, <2>7 DEF Uniform
  <1>7. ASSUME NEW c \in config.changes, Land(c) PROVE Uniform'
    <2>0. PICK tree : tree = [TreeAt(main) EXCEPT !.code = @ \cup {c}]
      OBVIOUS
    <2>1. tree \in Tree /\ Commit(tree, main) /\ tree.files = FilesAt(main)
      BY <1>7, <2>0, CommitAdds
    <2>2. main' = Len(commits') /\ UNCHANGED <<pull, branch, features, sync>>
      BY <1>7 DEF Land
    <2>3. UniformRepo'
      BY <1>0, <2>1, <2>2, UniformGrows
    <2> QED
      BY <1>1, <1>2, <1>3, <2>2, <2>3 DEF Uniform
  <1>8. ASSUME NEW p \in config.proposals, Propose(p) PROVE Uniform'
    <2>0. PICK tree : tree = Bumped(p.bump.touched, p.bump.version)
      OBVIOUS
    <2>1. tree \in Tree /\ Commit(tree, main)
      BY <1>8, <2>0, CommitAdds
    <2>2. UNCHANGED <<main, pull, branch, sync>>
      BY <1>8 DEF Propose
    <2>3. UniformRepo'
      BY <1>0, <2>1, <2>2, UniformGrows
    <2>4. \A f \in features' : f.green = 0 \/ f \in features
      BY <1>8 DEF Propose
    <2>5. UniformFeatures'
      BY <1>0, <2>4, UniformKept
    <2> QED
      BY <1>2, <1>3, <2>2, <2>3, <2>5 DEF Uniform
  <1>9. ASSUME NEW f \in features, MergeFeature(f) PROVE Uniform'
    <2>1. f.head \in Shas /\ MergeOf(f.head) \in Tree /\ Commit(MergeOf(f.head), main)
      BY <1>9, CommitAdds
    <2>2. PICK g : g = [f EXCEPT !.merged = TRUE]
      OBVIOUS
    <2>3. f \in Feature /\ g.head = f.head /\ g.green = f.green
      BY <2>2 DEF Shapes, FeatureShapes, Feature
    <2>4. /\ f.green # 0 /\ ~MergesLate(f.head, f.green) /\ main' = Len(commits')
          /\ features' = (features \ {f}) \cup {g}
          /\ UNCHANGED <<pull, branch, sync>>
      BY <1>9, <2>2 DEF MergeFeature
    <2>5. f.green \in Shas /\ Judged(f.head, f.green)
      BY <2>4 DEF Shapes, FeatureShapes, Uniform, UniformFeatures
    <2>6. Agreed(MergeOf(f.head).files)
      BY <2>1, <2>4, <2>5, MergeAgrees
    <2>7. UniformRepo'
      BY <1>0, <2>1, <2>4, <2>6, UniformGrows
    <2>8. UniformFeatures'
      BY <1>0, <2>3, <2>4, UniformKept
    <2> QED
      BY <1>2, <1>3, <2>4, <2>7, <2>8 DEF Uniform
  <1> QED
    BY <1>4, <1>5, <1>6, <1>7, <1>8, <1>9

LEMMA UniformStep ==
    ASSUME Shapes, AllSpelled, ~raced => Uniform, Next
    PROVE  ~raced' => Uniform'
  <1> SUFFICES ASSUME ~raced' PROVE Uniform'
    OBVIOUS
  <1>1. ~raced
    BY DEF Next, Checkout, Prepare, Push, EditPull, ListSuperseded, DeleteSuperseded, SyncEnds,
           CloseSuperseded, CheckPull, PushByHand, Attest, MergePull, Land, Propose, CheckFeature,
           MergeFeature, Retarget, Publish, RefusePublish
  <1> QED
    BY <1>1, UniformSyncStep, UniformOtherStep, UniformCommitStep DEF Next, Shas

LEMMA UniformInit == Init => AllSpelled /\ Uniform
  <1> SUFFICES ASSUME Init PROVE AllSpelled /\ Uniform
    OBVIOUS
  <1>1. /\ Shas = {1} /\ main = 1 /\ commits[1].parent = 1
        /\ FilesAt(1) = Written(Stable(0))
    BY DEF Init, Shas, FilesAt, TreeAt
  <1>2. Stable(0) \in Version
    BY ReleaseAssumption DEF Stable, Version
  <1>3. Agreed(FilesAt(1)) /\ Spelled(FilesAt(1))
    BY <1>1, <1>2, WrittenIs DEF Agreed, Spelled
  <1>4. UniformRepo /\ AllSpelled
    BY <1>1, <1>3 DEF UniformRepo, AllSpelled
  <1>5. UniformPulls
    <2>1. \A v \in Beta : branch[v] = 0
      BY DEF Init
    <2> QED
      BY <2>1 DEF UniformPulls
  <1>6. UniformSync /\ UniformFeatures
    BY DEF Init, Idle, UniformSync, UniformFeatures
  <1> QED
    BY <1>4, <1>5, <1>6 DEF Uniform

-----------------------------------------------------------------------------
\* The theorems

ReleaseInv ==
    /\ Shapes /\ Attested /\ PublishedWasTested
    /\ Chain /\ Advancing
    /\ AllSpelled /\ (~raced => Uniform)

LEMMA Invariance == Spec => []ReleaseInv
  <1>1. Init => ReleaseInv
    BY InitShapes, TestedInit, ChainInit, UniformInit DEF ReleaseInv
  <1>2. ReleaseInv /\ [Next]_vars => ReleaseInv'
    <2> SUFFICES ASSUME ReleaseInv, [Next]_vars PROVE ReleaseInv'
      OBVIOUS
    <2>1. CASE Next
      BY <2>1, ShapesStep, TestedStep, ChainStep, AdvancingStep, SpelledStep, UniformStep
         DEF ReleaseInv
    <2>2. CASE UNCHANGED vars
      <3>1. Shapes'
        BY <2>2 DEF ReleaseInv, vars, Shapes, Shas, RepoShapes, PullShapes, BetaShapes,
                    PublishShapes, FeatureShapes, SyncShapes
      <3>2. Attested' /\ PublishedWasTested'
        BY <2>2 DEF ReleaseInv, vars, Attested, PublishedWasTested, TreeAt
      <3>3. Chain' /\ Advancing'
        BY <2>2 DEF ReleaseInv, vars, Shas, Chain, Advancing, Code, TreeAt
      <3>4. AllSpelled'
        BY <2>2 DEF ReleaseInv, vars, Shas, AllSpelled, FilesAt, TreeAt
      <3>5. ~raced' => Uniform'
        <4>1. ASSUME Uniform PROVE Uniform'
          <5>1. UniformRepo' /\ UniformSync'
            BY <2>2, <4>1 DEF vars, Uniform, UniformRepo, UniformSync, Shas, FilesAt, TreeAt
          <5>2. UniformPulls' /\ UniformFeatures'
            BY <2>2, <4>1 DEF vars, Uniform, UniformPulls, UniformFeatures, Judged, TreeAt
          <5> QED
            BY <5>1, <5>2 DEF Uniform
        <4> QED
          BY <2>2, <4>1 DEF ReleaseInv, vars
      <3> QED
        BY <3>1, <3>2, <3>3, <3>4, <3>5 DEF ReleaseInv
    <2> QED
      BY <2>1, <2>2
  <1> QED
    BY <1>1, <1>2, PTL DEF Spec

\* What guard_publish lets through was tested: the tree under a beta's tag is
\* one that people tested, whatever was pushed, landed, edited or merged
\* between the test and the tag, and whoever made the branch.
THEOREM ReleaseTested == Spec => []PublishedWasTested
  <1>1. ReleaseInv => PublishedWasTested
    BY DEF ReleaseInv
  <1> QED
    BY <1>1, Invariance, PTL

\* What is published of the workflow's candidates contains the beta after which
\* prepare_beta_release numbered it and a releasable change more, although
\* main may have been checked out before that beta was tagged, and whatever
\* betas were made by hand.
THEOREM ReleaseAdvances == Spec => []BetasAdvance
  <1>1. ReleaseInv => BetasAdvance
    <2> SUFFICES ASSUME ReleaseInv, NEW v \in Beta, NEW c \in candidates,
                        ~c.byHand, c.over # 0, TreeAt(c.sha) = TreeAt(tags[v])
                 PROVE  /\ TreeAt(c.over).code \subseteq TreeAt(tags[v]).code
                        /\ (TreeAt(tags[v]).code \ TreeAt(c.over).code) \cap Releasable # {}
      BY DEF BetasAdvance
    <2>1. Gains(TreeAt(c.over).code, TreeAt(tags[v]).code)
      BY DEF ReleaseInv, Advancing, Code
    <2> QED
      BY <2>1 DEF Gains
  <1> QED
    BY <1>1, Invariance, PTL

\* The version fields of main agree after every merge of any number of pull
\* requests, although the guards saw the merge with an earlier main, unless one
\* that sets some fields only met another version than the guards did.
THEOREM ReleaseAgrees == Spec => []VersionsAgree
  <1>1. ReleaseInv => VersionsAgree
    <2> SUFFICES ASSUME ReleaseInv, ~raced, NEW f \in Files, NEW g \in Files
                 PROVE  Canonical(TreeAt(main).files)[f] = Canonical(TreeAt(main).files)[g]
      BY DEF VersionsAgree
    <2>1. PICK v \in Version : TreeAt(main).files = Written(v)
      BY DEF ReleaseInv, Uniform, UniformRepo, Agreed, FilesAt
    <2>2. \A h \in Files : Canonical(Written(v))[h] = [version |-> v, pep440 |-> FALSE]
      <3> TAKE h \in Files
      <3>1. CASE h = "uv.lock"
        BY <3>1 DEF Canonical, Written
      <3>2. CASE h # "uv.lock"
        BY <3>2 DEF Canonical, Written
      <3> QED
        BY <3>1, <3>2
    <2> QED
      BY <2>1, <2>2
  <1> QED
    BY <1>1, Invariance, PTL


=============================================================================
