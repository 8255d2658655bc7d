---------------------------- MODULE CodexLabels -----------------------------
(***************************************************************************)
(* The script that keeps the Codex labels of a pull request: it reads the  *)
(* pull request in several requests to GitHub, decides, and writes labels, *)
(* approvals and a request for a review one by one.  The workflow's runs   *)
(* for a pull request, after CI and on the schedule overlap, and the pull  *)
(* request changes while they run.                                         *)
(***************************************************************************)
EXTENDS Integers, Sequences, SequencesExt, FiniteSetsExt

CONSTANTS
    Commits,    \* commits that can be the head of the pull request
    Checks,     \* REQUIRED_CHECKS_BY_REPO of the repository
    Others,     \* names of other check runs, and of commit statuses
    Syncs,      \* runs of the script
    First,      \* the head it is opened with
    Starts      \* states a pull request is in when the script first sees it, with
                \* bounds: the runs that overlap, what happens to it besides the
                \* script, and requests of the script that GitHub does not serve

ASSUME LabelsAssumption ==
    /\ First \in Commits
    /\ Checks # {} /\ Checks \cap Others = {}
    /\ IsFiniteSet(Syncs)
    /\ Starts \subseteq [fork : BOOLEAN, checks : {"absent", "running", "success"},
                         merge : {"unknown", "clean"}, labels : SUBSET {"ok", "needs_work", "legacy"},
                         syncs : SUBSET Syncs, events : Nat, faults : Nat]

VARIABLES
    head,       \* headRefOid
    timeline,   \* timelineItems: heads, requests for a review, Codex's answers
    threads,    \* review threads with a finding of Codex, neither resolved nor outdated
    checks,     \* checks[h][c]: the latest run of c on h, or its status
    fork,       \* the workflow runs of its commits wait for an approval
    approved,   \* commits whose workflow runs the script has approved
    merge,      \* mergeStateStatus: "blocked" for DIRTY, BLOCKED and CONFLICTING
    labels,     \* labels of the pull request
    sync,       \* sync[s]: a run of the script
    events,     \* events that may still happen
    faults      \* requests that may still fail

vars == <<head, timeline, threads, checks, fork, approved, merge, labels, sync, events, faults>>
request == <<head, timeline, threads, checks, fork, approved, merge>>

\* The items of the timeline.  A comment is one of Codex's, and says whether it
\* found no major issues; a request carries Codex's reaction.  Two fields are
\* histories, which the script does not read: who asked, and the commit Codex
\* had looked at when it wrote a comment.
HeadItem(h) == [kind |-> "head", oid |-> h]
RequestItem(by) == [kind |-> "request", reaction |-> "none", by |-> by]
ReviewItem(h, finding) == [kind |-> "review", oid |-> h, finding |-> finding]
CommentItem(clean, about) == [kind |-> "comment", clean |-> clean, about |-> about]

NoSync == [pc |-> "idle"]

Init ==
    /\ head = First
    /\ timeline = <<HeadItem(First)>>
    /\ threads = {}
    /\ approved = {}
    /\ \E start \in Starts :
        /\ fork = start.fork
        /\ checks = [h \in Commits |-> [c \in Checks \cup Others |->
                        IF h = First /\ c \in Checks THEN start.checks ELSE "absent"]]
        /\ merge = start.merge
        /\ labels = start.labels
        /\ events = start.events
        /\ faults = start.faults
        /\ sync = [s \in Syncs |-> IF s \in start.syncs THEN NoSync ELSE [pc |-> "off"]]

-----------------------------------------------------------------------------
\* What the script makes of what it read

\* A mutated model: the first place.
FirstIndex(nodes, h) == SelectInSeq(nodes, LAMBDA n : n = HeadItem(h))

\* timeline_head_oid: the last place where h became the head.
HeadIndex(nodes, h) == SelectLastInSeq(nodes, LAMBDA n : n = HeadItem(h))

\* The verdict of one item on h: codex_request_reaction_state,
\* is_needs_work_codex_body and is_clean_codex_body.
Verdict(n, h) ==
    CASE n.kind = "request" /\ n.reaction = "+1"   -> "clean"
      [] n.kind = "request" /\ n.reaction = "eyes" -> "pending"
      [] n.kind = "review" /\ n.oid = h            -> IF n.finding THEN "needs_work" ELSE "clean"
      [] n.kind = "comment" /\ n.clean             -> "clean"
      [] OTHER                                     -> "none"

\* pull_review_comment_nodes: the findings that concern h.
Concerns(t, h) == h \in {t.oid, t.now}

\* merge_review_comment_nodes: a finding follows its review if it was made on h,
\* and otherwise precedes the first later item that has a timestamp.  Item i of
\* the timeline is at place 3 * i, the items put before and after it beside it.
Place(nodes, t, h) ==
    LET later == {i \in 1..Len(nodes) : i > t.review /\ nodes[i].kind # "head"}
    IN  IF t.oid = h /\ t.review <= Len(nodes) THEN 3 * t.review + 1
        ELSE IF later = {} THEN 3 * (Len(nodes) + 1) - 1
        ELSE 3 * Min(later) - 1

\* The merged items since h became the head.
Since(nodes, found, h) ==
    {e \in {[at |-> 3 * i, verdict |-> Verdict(nodes[i], h), item |-> nodes[i]] : i \in 1..Len(nodes)}
           \cup {[at |-> Place(nodes, t, h), verdict |-> "needs_work", item |-> [kind |-> "finding"]] :
                    t \in {u \in found : Concerns(u, h)}} :
        e.at > 3 * HeadIndex(nodes, h)}

\* A mutated model: the first answer stands.
FirstVerdict(nodes, found, h) ==
    LET answers == {e \in Since(nodes, found, h) : e.verdict \in {"clean", "needs_work"}}
    IN  IF answers = {} THEN "none"
        ELSE (CHOOSE e \in answers : \A f \in answers : e.at <= f.at).verdict

\* find_current_head_codex_review_state: the last answer decides; an
\* acknowledged request counts while there is no answer.
ReviewState(nodes, found, h) ==
    LET since == Since(nodes, found, h)
        answers == {e \in since : e.verdict \in {"clean", "needs_work"}}
    IN  IF answers # {} THEN (CHOOSE e \in answers : \A f \in answers : e.at >= f.at).verdict
        ELSE IF \E e \in since : e.verdict = "pending" THEN "pending"
        ELSE "none"

\* A mutated model: a request for a review is not news.
AnswersOnly(nodes, found, h) ==
    \E e \in Since(nodes, found, h) :
        e.item.kind \in {"comment", "finding"} \/ (e.item.kind = "review" /\ e.item.oid = h)

\* has_codex_news_after_current_head
HasNews(nodes, found, h) ==
    \E e \in Since(nodes, found, h) :
        \/ e.item.kind \in {"request", "comment", "finding"}
        \/ e.item.kind = "review" /\ e.item.oid = h

\* workflow_runs_requiring_approval
Held(h) == fork /\ h \notin approved

\* classify_check_state: the latest run of every name, required or not, and the
\* statuses.  "unknown" is a conclusion the script has no set for.
CheckState(latest) ==
    LET states == {latest[c] : c \in Checks \cup Others} \ {"absent"}
    IN  CASE states = {}                               -> "none"
          [] "failure" \in states                      -> "failure"
          [] "running" \in states                      -> "pending"
          [] \E c \in Checks : latest[c] = "absent"    -> "pending"
          [] states = {"success"}                      -> "success"
          [] OTHER                                     -> "unknown"

-----------------------------------------------------------------------------
\* A run of the script.

Reads(s, read) ==
    /\ sync' = [sync EXCEPT ![s] = read]
    /\ UNCHANGED <<request, labels, events, faults>>

\* pr_timeline_evidence: the head and the timeline come in one answer.
ReadTimeline(s) ==
    /\ sync[s].pc = "idle"
    /\ Reads(s, [pc |-> "comments", head |-> head, nodes |-> timeline])

\* The rest of pr_timeline_evidence: review comments and the threads they are in.
ReadComments(s) ==
    LET r == sync[s]
    IN  /\ r.pc = "comments"
        /\ Reads(s, [pc |-> "state", head |-> r.head,
                     review |-> ReviewState(r.nodes, threads, r.head),
                     news |-> HasNews(r.nodes, threads, r.head)])

\* issue_label_names, commit_checks_state of the head that was read, and
\* pr_merge_state: three requests in a row, nothing is decided between them.
ReadState(s) ==
    LET r == sync[s]
    IN  /\ r.pc = "state"
        /\ Reads(s, [pc |-> "threads", head |-> r.head, review |-> r.review, news |-> r.news,
                     has |-> labels, checks |-> CheckState(checks[r.head]), merge |-> merge])

\* wants_ok_label: while GitHub has not computed the merge state the label is
\* kept, not given.
WantsOk(r, open) ==
    /\ r.review = "clean"
    /\ ~open
    /\ r.checks = "success"
    /\ r.merge # "blocked"
    /\ r.merge = "unknown" => "ok" \in r.has

\* wants_needs_work_label
WantsNeedsWork(r, open) == r.review = "needs_work" \/ open

\* trigger_codex_review
WantsReview(r) ==
    /\ r.review = "none"
    /\ r.checks = "success"
    /\ r.merge = "clean"
    /\ ~r.news

\* What a label needs for it to be wanted or not.
Change(label, wanted, r) ==
    IF wanted /\ label \notin r.has THEN <<[op |-> "add", label |-> label]>>
    ELSE IF ~wanted /\ label \in r.has THEN <<[op |-> "remove", label |-> label]>>
    ELSE <<>>

\* A run with writes to make, or without.
Writing(todo) == IF todo = <<>> THEN NoSync ELSE [pc |-> "write", todo |-> todo]

\* The rest of decide_pr, with the last reads: the findings of
\* unresolved_codex_finding_thread_urls, and the workflow runs that need an
\* approval.  What comes of it are the writes apply_decision,
\* approve_workflow_runs and trigger_codex_review make, in main's order.
Decide(s) ==
    LET r == sync[s]
        open == \E t \in threads : Concerns(t, r.head)
        approve == r.review = "clean" /\ ~open /\ r.merge = "clean" /\ Held(r.head)
        todo == Change("ok", WantsOk(r, open), r)
                \o Change("needs_work", WantsNeedsWork(r, open), r)
                \o Change("legacy", FALSE, r)
                \o (IF approve THEN <<[op |-> "approve", oid |-> r.head]>> ELSE <<>>)
                \o (IF WantsReview(r) THEN <<[op |-> "ask"]>> ELSE <<>>)
    IN  /\ r.pc = "threads"
        /\ sync' = [sync EXCEPT ![s] = Writing(todo)]
        /\ UNCHANGED <<request, labels, events, faults>>

\* What is left after the first write.
Proceed(s) == sync' = [sync EXCEPT ![s] = Writing(Tail(sync[s].todo))]

\* A mutated model: what is approved are the runs of the head.
ApprovedNow(w) == approved \cup {head}

\* approve: the workflow runs of the commit they were listed for.
Approved(w) == approved \cup {w.oid}

\* gh_api_write and run_gh_write: removing a label that is gone is no error.
Write(s) ==
    LET w == Head(sync[s].todo)
    IN  /\ sync[s].pc = "write"
        /\ labels' = CASE w.op = "add"    -> labels \cup {w.label}
                       [] w.op = "remove" -> labels \ {w.label}
                       [] OTHER           -> labels
        /\ approved' = IF w.op = "approve" THEN Approved(w) ELSE approved
        /\ timeline' = IF w.op = "ask" THEN Append(timeline, RequestItem("script")) ELSE timeline
        /\ Proceed(s)
        /\ UNCHANGED <<head, threads, checks, fork, merge, events, faults>>

\* The token may not write this resource: tolerated, the other writes go on.
Denied(s) ==
    /\ sync[s].pc = "write"
    /\ faults > 0
    /\ faults' = faults - 1
    /\ Proceed(s)
    /\ UNCHANGED <<request, labels, events>>

\* Any other GhError, of a read or of a write, is the end of the script's work
\* on the pull request.
Fails(s) ==
    /\ sync[s].pc \notin {"idle", "off"}
    /\ faults > 0
    /\ faults' = faults - 1
    /\ sync' = [sync EXCEPT ![s] = NoSync]
    /\ UNCHANGED <<request, labels, events>>

Step(s) ==
    \/ ReadTimeline(s) \/ ReadComments(s) \/ ReadState(s) \/ Decide(s) \/ Write(s)

-----------------------------------------------------------------------------
\* The pull request: GitHub, its users and Codex

Happens ==
    /\ events > 0
    /\ events' = events - 1
    /\ UNCHANGED <<labels, sync, faults>>

\* A push, or a force-push back to an earlier commit.  Threads are carried over
\* or become outdated, and GitHub may have computed the merge state at once.
Push(h) ==
    /\ Happens
    /\ h # head
    /\ head' = h
    /\ timeline' = Append(timeline, HeadItem(h))
    /\ \E carried \in SUBSET threads : threads' = {[t EXCEPT !.now = h] : t \in carried}
    /\ merge' \in {"unknown", "clean"}
    /\ UNCHANGED <<checks, fork, approved>>

\* Somebody asks for a review.
Ask ==
    /\ Happens
    /\ timeline' = Append(timeline, RequestItem("user"))
    /\ UNCHANGED <<head, threads, checks, fork, approved, merge>>

\* Codex reacts to a request: it has seen it, or found nothing.
React(i, reaction) ==
    /\ Happens
    /\ timeline[i].kind = "request" /\ timeline[i].reaction # "+1"
    /\ timeline' = [timeline EXCEPT ![i].reaction = reaction]
    /\ UNCHANGED <<head, threads, checks, fork, approved, merge>>

\* Codex comments: no major issues, or for instance that it cannot review.  The
\* commit it has looked at may no longer be the head.
Comment(clean, about) ==
    /\ Happens
    /\ HeadIndex(timeline, about) > 0
    /\ timeline' = Append(timeline, CommentItem(clean, about))
    /\ UNCHANGED <<head, threads, checks, fork, approved, merge>>

\* Codex submits a review of a commit that is or was the head, with findings in
\* its text, in a thread, or without any.
Review(h, finding, thread) ==
    /\ Happens
    /\ HeadIndex(timeline, h) > 0
    /\ timeline' = Append(timeline, ReviewItem(h, finding))
    /\ threads' = IF thread
                  THEN threads \cup {[review |-> Len(timeline'), oid |-> h, now |-> h]}
                  ELSE threads
    /\ UNCHANGED <<head, checks, fork, approved, merge>>

\* A thread is resolved.
Resolve(t) ==
    /\ Happens
    /\ threads' = threads \ {t}
    /\ UNCHANGED <<head, timeline, checks, fork, approved, merge>>

\* A check or a status is reported, ends, or starts again.  The required checks
\* are jobs of the workflows that may wait for an approval.
CheckMoves(h, c, state) ==
    /\ Happens
    /\ c \in Checks => ~Held(h)
    /\ HeadIndex(timeline, h) > 0
    /\ (state = "running") <=> (checks[h][c] # "running")
    /\ checks' = [checks EXCEPT ![h][c] = state]
    /\ UNCHANGED <<head, timeline, threads, fork, approved, merge>>

\* GitHub computes the merge state.
MergeMoves(state) ==
    /\ Happens
    /\ state # merge
    /\ merge' = state
    /\ UNCHANGED <<head, timeline, threads, checks, fork, approved>>

Next ==
    \/ \E s \in Syncs : Step(s) \/ Denied(s) \/ Fails(s)
    \/ \E h \in Commits : Push(h)
    \/ Ask
    \/ \E i \in 1..Len(timeline), reaction \in {"eyes", "+1"} : React(i, reaction)
    \/ \E clean \in BOOLEAN, about \in Commits : Comment(clean, about)
    \/ \E h \in Commits, finding, thread \in BOOLEAN : Review(h, finding, thread)
    \/ \E t \in threads : Resolve(t)
    \/ \E h \in Commits, c \in Checks \cup Others, state \in {"running", "success", "failure", "unknown"} :
          CheckMoves(h, c, state)
    \/ \E state \in {"unknown", "clean", "blocked"} : MergeMoves(state)

\* The workflow runs on a schedule, and a run that has started ends.
Spec == Init /\ [][Next]_vars /\ \A s \in Syncs : WF_vars(Step(s))

-----------------------------------------------------------------------------
\* Properties

\* What the script takes for Codex's answers to the current head: what came
\* since it was pushed, comments whichever commit they are about.
Pushed == SelectLastInSeq(timeline, LAMBDA n : n.kind = "head")
Answers == {i \in Pushed + 1 .. Len(timeline) :
                LET n == timeline[i]
                IN  \/ n.kind = "request" /\ n.reaction = "+1"
                    \/ n.kind = "comment" /\ n.clean
                    \/ n.kind = "review" /\ n.oid = head}

NeedsWork ==
    \/ \E t \in threads : head \in {t.oid, t.now}
    \/ /\ Answers # {}
       /\ LET last == timeline[Max(Answers)] IN last.kind = "review" /\ last.finding
Clean == Answers # {} /\ ~NeedsWork
Green ==
    /\ \A c \in Checks : checks[head][c] = "success"
    /\ \A c \in Others : checks[head][c] \in {"absent", "success"}

LabelsRight ==
    /\ ("needs_work" \in labels) <=> NeedsWork
    /\ "ok" \in labels => Clean /\ Green /\ merge # "blocked"
    /\ Clean /\ Green /\ merge = "clean" => "ok" \in labels
    /\ "legacy" \notin labels

\* Once the pull request stops changing, its labels come to say what the last
\* answer to its head, the open findings and the checks say, and stay so,
\* although overlapping runs have written labels for heads, answers and labels
\* they read before a change.
Settles == <>[]LabelsRight

\* A pull request that stays green, mergeable and unanswered is not left
\* waiting: in the end a review of its head has been asked for, or Codex has
\* said something about it, although any run may fail before it asks.
ReviewIsAsked ==
    <>[](Green /\ merge = "clean" /\ ~NeedsWork =>
            \E i \in Pushed + 1 .. Len(timeline) :
                \/ timeline[i].kind \in {"request", "comment"}
                \/ timeline[i] \in {ReviewItem(head, finding) : finding \in BOOLEAN})

\* Runs of the script do not ask again and again: since a push, each of the
\* overlapping runs has asked at most once, because a run that starts after a
\* request takes it for news.
AsksAreBounded ==
    Cardinality({i \in Pushed + 1 .. Len(timeline) :
                    timeline[i].kind = "request" /\ timeline[i].by = "script"})
        <= Cardinality(Syncs)

\* Since h was pushed, Codex has found nothing wrong with h: in a review of it,
\* a comment about it, or its reaction to a request.
Cleared(nodes, h) ==
    \E i, j \in 1..Len(nodes) :
        /\ i < j /\ nodes[i] = HeadItem(h)
        /\ \/ nodes[j].kind = "request" /\ nodes[j].reaction = "+1"
           \/ nodes[j] \in {CommentItem(TRUE, h), ReviewItem(h, FALSE)}

\* Since h was pushed, a clean comment has come that is about another commit.
LateAnswer(nodes, h) ==
    \E i, j \in 1..Len(nodes) :
        /\ i < j /\ nodes[i] = HeadItem(h)
        /\ \E about \in Commits \ {h} : nodes[j] = CommentItem(TRUE, about)

\* Workflow runs of a commit are approved only if Codex has cleared that commit
\* since it was pushed, even if the head has moved between the script's reads
\* and its approval.  The one exception is a clean comment about another commit
\* that came late, after the push.
ApprovedWasCleared ==
    \A h \in approved : Cleared(timeline, h) \/ LateAnswer(timeline, h)

\* What the script says of its approvals, that they come "after a current-head
\* clean Codex review": violated, because find_current_head_codex_review_state
\* asks of a comment when it came, and not which commit it is about.
ApprovedWasReviewed == \A h \in approved : Cleared(timeline, h)

=============================================================================
