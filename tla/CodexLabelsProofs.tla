-------------------------- MODULE CodexLabelsProofs -------------------------
(***************************************************************************)
(* Proofs about CodexLabels: the runs of the script ask for a bounded      *)
(* number of reviews, and approve workflow runs only of commits that Codex *)
(* has cleared, unless an answer about another commit came late, for any   *)
(* number of runs, commits, checks and events.                             *)
(***************************************************************************)
EXTENDS CodexLabels, Extrema, FiniteSetTheorems, TLAPS

-----------------------------------------------------------------------------
\* The inductive invariant

Item ==
    {HeadItem(h) : h \in Commits}
    \cup [kind : {"request"}, reaction : {"none", "eyes", "+1"}, by : {"script", "user"}]
    \cup [kind : {"review"}, oid : Commits, finding : BOOLEAN]
    \cup [kind : {"comment"}, clean : BOOLEAN, about : Commits]

Thread == [review : Nat, oid : Commits, now : Commits]

\* The writes of a run.
LabelWrite == [op : {"add", "remove"}, label : {"ok", "needs_work", "legacy"}]
ApproveWrite == [op : {"approve"}, oid : Commits]
AskWrite == [op |-> "ask"]
Quiet == LabelWrite \cup ApproveWrite

\* The last head of the timeline is h.
HeadIsLast(nodes, h) ==
    \E i \in 1..Len(nodes) :
        /\ nodes[i] = HeadItem(h)
        /\ \A j \in 1..Len(nodes) : j > i => nodes[j].kind # "head"

Shapes ==
    /\ head \in Commits
    /\ timeline \in Seq(Item)
    /\ threads \subseteq Thread
    /\ sync = [s \in Syncs |-> sync[s]]
    /\ HeadIsLast(timeline, head)

\* Items stay, but a request may be given a reaction, and keeps a "+1".
Became(n, m) ==
    \/ m = n
    \/ /\ n.kind = "request" /\ m.kind = "request" /\ m.by = n.by
       /\ n.reaction # "+1"

Grown(nodes, later) ==
    Len(nodes) <= Len(later) /\ \A i \in 1..Len(nodes) : Became(nodes[i], later[i])

\* Codex has answered without a finding since h was pushed, in a comment about
\* whichever commit.
Answer(n, h) ==
    \/ n.kind = "request" /\ n.reaction = "+1"
    \/ n = ReviewItem(h, FALSE)
    \/ \E about \in Commits : n = CommentItem(TRUE, about)

Answered(nodes, h) ==
    \E i, j \in 1..Len(nodes) : i < j /\ nodes[i] = HeadItem(h) /\ Answer(nodes[j], h)

\* What a run has read was so, and what it means to write follows from it.
Informed(r, nodes) ==
    /\ r.pc = "comments" =>
          /\ r.head \in Commits
          /\ r.nodes \in Seq(Item)
          /\ Grown(r.nodes, nodes)
          /\ \E i \in 1..Len(r.nodes) : r.nodes[i] = HeadItem(r.head)
    /\ r.pc \in {"state", "threads"} =>
          r.head \in Commits /\ (r.review = "clean" => Answered(nodes, r.head))
    /\ r.pc = "write" =>
          /\ r.todo \in Seq(Quiet \cup {AskWrite}) /\ r.todo # <<>>
          /\ \A k \in 1..Len(r.todo) :
                /\ r.todo[k].op = "approve" => Answered(nodes, r.todo[k].oid)
                /\ r.todo[k] = AskWrite => k = Len(r.todo)

\* Pushed, for any timeline, and the script's requests since then.
LastHead(nodes) == SelectLastInSeq(nodes, LAMBDA n : n.kind = "head")

ByScript(n) == n.kind = "request" /\ n.by = "script"

AskedIn(nodes) == {i \in 1..Len(nodes) : i > LastHead(nodes) /\ ByScript(nodes[i])}

\* A run that may still ask: it has read of no request since the push.
MayAsk(r) ==
    \/ r.pc = "comments" /\ \A i \in 1..Len(r.nodes) :
          i > HeadIndex(r.nodes, r.head) => r.nodes[i].kind # "request"
    \/ r.pc \in {"state", "threads"} /\ ~r.news
    \/ r.pc = "write" /\ \E k \in 1..Len(r.todo) : r.todo[k] = AskWrite

Asking == {s \in Syncs : MayAsk(sync[s])}

\* The runs that have asked and the ones that may still ask are as many runs.
Fit(asked, asking) ==
    asked # {} => Cardinality(asked) + Cardinality(asking) <= Cardinality(Syncs)

Shared == Fit(AskedIn(timeline), Asking)

AllInformed == \A s \in Syncs : Informed(sync[s], timeline)

AllAnswered == \A h \in approved : Answered(timeline, h)

LabelsInv == Shapes /\ AllInformed /\ AllAnswered /\ Shared

-----------------------------------------------------------------------------
\* Items, and the last of a kind

LEMMA ItemIs ==
    /\ \A h \in Commits : HeadItem(h) \in Item
    /\ \A by \in {"script", "user"} : RequestItem(by) \in Item
    /\ \A h \in Commits, finding \in BOOLEAN : ReviewItem(h, finding) \in Item
    /\ \A clean \in BOOLEAN, about \in Commits : CommentItem(clean, about) \in Item
    /\ \A h : HeadItem(h).kind = "head"
    /\ \A n \in Item :
          /\ n.kind \in {"head", "request", "review", "comment"}
          /\ n.kind = "request" =>
                /\ n = [kind |-> "request", reaction |-> n.reaction, by |-> n.by]
                /\ n.reaction \in {"none", "eyes", "+1"} /\ n.by \in {"script", "user"}
          /\ n.kind = "review" => n = ReviewItem(n.oid, n.finding) /\ n.finding \in BOOLEAN
          /\ n.kind = "comment" => n = CommentItem(n.clean, n.about) /\ n.clean \in BOOLEAN /\ n.about \in Commits
  <1> USE DEF Item, HeadItem, RequestItem, ReviewItem, CommentItem
  <1>1. /\ \A h \in Commits : HeadItem(h) \in Item
        /\ \A by \in {"script", "user"} : RequestItem(by) \in Item
        /\ \A h : HeadItem(h).kind = "head"
    OBVIOUS
  <1>2. \A h \in Commits, finding \in BOOLEAN : ReviewItem(h, finding) \in Item
    OBVIOUS
  <1>3. \A clean \in BOOLEAN, about \in Commits : CommentItem(clean, about) \in Item
    OBVIOUS
  <1>4. ASSUME NEW n \in Item
        PROVE  /\ n.kind \in {"head", "request", "review", "comment"}
               /\ n.kind = "request" =>
                     /\ n = [kind |-> "request", reaction |-> n.reaction, by |-> n.by]
                     /\ n.reaction \in {"none", "eyes", "+1"} /\ n.by \in {"script", "user"}
               /\ n.kind = "review" => n = ReviewItem(n.oid, n.finding) /\ n.finding \in BOOLEAN
               /\ n.kind = "comment" => n = CommentItem(n.clean, n.about) /\ n.clean \in BOOLEAN /\ n.about \in Commits
    <2>1. CASE n \in {HeadItem(h) : h \in Commits}
      BY <2>1
    <2>2. CASE n \in [kind : {"request"}, reaction : {"none", "eyes", "+1"}, by : {"script", "user"}]
      BY <2>2
    <2>3. CASE n \in [kind : {"review"}, oid : Commits, finding : BOOLEAN]
      BY <2>3
    <2>4. CASE n \in [kind : {"comment"}, clean : BOOLEAN, about : Commits]
      BY <2>4
    <2> QED
      BY <2>1, <2>2, <2>3, <2>4
  <1> QED
    BY <1>1, <1>2, <1>3, <1>4

\* The last place of a set of places, as SelectLastInSeq finds it.
LEMMA LastOf ==
    ASSUME NEW n \in Nat, NEW I, I \subseteq 1..n
    PROVE  LET k == IF I # {} THEN Max(I) ELSE 0
           IN  /\ k \in 0..n
               /\ k > 0 => k \in I
               /\ \A i \in I : i <= k
  <1>1. CASE I # {}
    <2>1. I \subseteq 0..n
      OBVIOUS
    <2>2. Max(I) \in I /\ \A y \in I : y <= Max(I)
      BY <1>1, <2>1, MaxOfBounded
    <2>3. Max(I) \in 1..n
      BY <2>2
    <2>4. Max(I) \in 0..n
      BY <2>3
    <2> QED
      BY <1>1, <2>2, <2>4, Zenon
  <1>2. CASE I = {}
    BY <1>2
  <1> QED
    BY <1>1, <1>2

LEMMA HeadIndexIs ==
    ASSUME NEW nodes, nodes \in Seq(Item), NEW h
    PROVE  /\ HeadIndex(nodes, h) \in 0..Len(nodes)
           /\ HeadIndex(nodes, h) > 0 => nodes[HeadIndex(nodes, h)] = HeadItem(h)
           /\ \A i \in 1..Len(nodes) : nodes[i] = HeadItem(h) => i <= HeadIndex(nodes, h)
  <1> DEFINE I == {i \in 1..Len(nodes) : nodes[i] = HeadItem(h)}
             k == IF I # {} THEN Max(I) ELSE 0
  <1>1. HeadIndex(nodes, h) = k
    BY DEF HeadIndex, SelectLastInSeq
  <1>2. Len(nodes) \in Nat /\ I \subseteq 1..Len(nodes)
    OBVIOUS
  <1>3. \A i : i \in I <=> i \in 1..Len(nodes) /\ nodes[i] = HeadItem(h)
    OBVIOUS
  <1> HIDE DEF I
  <1>4. k \in 0..Len(nodes) /\ (k > 0 => k \in I) /\ \A i \in I : i <= k
    BY <1>2, LastOf
  <1> HIDE DEF k
  <1> QED
    BY <1>1, <1>3, <1>4

LEMMA LastHeadIs ==
    ASSUME NEW nodes, nodes \in Seq(Item)
    PROVE  /\ LastHead(nodes) \in 0..Len(nodes)
           /\ LastHead(nodes) > 0 => nodes[LastHead(nodes)].kind = "head"
           /\ \A i \in 1..Len(nodes) : nodes[i].kind = "head" => i <= LastHead(nodes)
  <1> DEFINE I == {i \in 1..Len(nodes) : nodes[i].kind = "head"}
             k == IF I # {} THEN Max(I) ELSE 0
  <1>1. LastHead(nodes) = k
    BY DEF LastHead, SelectLastInSeq
  <1>2. Len(nodes) \in Nat /\ I \subseteq 1..Len(nodes)
    OBVIOUS
  <1>3. \A i : i \in I <=> i \in 1..Len(nodes) /\ nodes[i].kind = "head"
    OBVIOUS
  <1> HIDE DEF I
  <1>4. k \in 0..Len(nodes) /\ (k > 0 => k \in I) /\ \A i \in I : i <= k
    BY <1>2, LastOf
  <1> HIDE DEF k
  <1> QED
    BY <1>1, <1>3, <1>4

LEMMA PushedIs == Pushed = LastHead(timeline) /\ Pushed' = LastHead(timeline')
  BY DEF Pushed, LastHead, SelectLastInSeq

-----------------------------------------------------------------------------
\* What the script makes of what it read

\* A finding has a place, and not one far behind the timeline.
LEMMA PlaceIs ==
    ASSUME NEW nodes, nodes \in Seq(Item), NEW t \in Thread, NEW h
    PROVE  Place(nodes, t, h) \in 0..(3 * Len(nodes) + 3)
  <1> DEFINE later == {i \in 1..Len(nodes) : i > t.review /\ nodes[i].kind # "head"}
  <1>1. Len(nodes) \in Nat /\ t.review \in Nat
    BY DEF Thread
  <1>2. CASE t.oid = h /\ t.review <= Len(nodes)
    BY <1>1, <1>2 DEF Place
  <1>3. CASE ~(t.oid = h /\ t.review <= Len(nodes)) /\ later = {}
    <2>1. Place(nodes, t, h) = 3 * (Len(nodes) + 1) - 1
      BY <1>3 DEF Place
    <2> QED
      BY <1>1, <2>1
  <1>4. CASE ~(t.oid = h /\ t.review <= Len(nodes)) /\ later # {}
    <2>1. Place(nodes, t, h) = 3 * Min(later) - 1
      BY <1>4 DEF Place
    <2>2. later \subseteq 1..Len(nodes)
      OBVIOUS
    <2> HIDE DEF later
    <2>3. later \subseteq Nat /\ later # {}
      BY <1>4, <2>2
    <2>4. Min(later) \in later
      BY <2>3, MinIs
    <2>5. Min(later) \in 1..Len(nodes)
      BY <2>2, <2>4
    <2> QED
      BY <1>1, <2>1, <2>5
  <1> QED
    BY <1>2, <1>3, <1>4

\* A clean review state comes from a clean answer after the push of h.
LEMMA CleanIsAnswered ==
    ASSUME NEW nodes, nodes \in Seq(Item), NEW found, found \subseteq Thread, NEW h,
           ReviewState(nodes, found, h) = "clean"
    PROVE  \E i \in 1..Len(nodes) : i > HeadIndex(nodes, h) /\ Verdict(nodes[i], h) = "clean"
  <1> DEFINE since == Since(nodes, found, h)
             answers == {e \in since : e.verdict \in {"clean", "needs_work"}}
             last == CHOOSE e \in answers : \A f \in answers : e.at >= f.at
             T == {e.at : e \in answers}
             n == 3 * Len(nodes) + 3
  <1>1. n \in Nat /\ Len(nodes) \in Nat
    OBVIOUS
  <1>2. \A e \in since : e.at \in 0..n
    <2>1. ASSUME NEW e \in since PROVE e.at \in 0..n
      <3>1. CASE e \in {[at |-> 3 * i, verdict |-> Verdict(nodes[i], h), item |-> nodes[i]] : i \in 1..Len(nodes)}
        BY <1>1, <3>1
      <3>2. CASE e \in {[at |-> Place(nodes, t, h), verdict |-> "needs_work", item |-> [kind |-> "finding"]] :
                           t \in {u \in found : Concerns(u, h)}}
        BY <3>2, PlaceIs
      <3> QED
        BY <3>1, <3>2 DEF Since
    <2> QED
      BY <2>1
  <1>3. answers # {} /\ last.verdict = "clean"
    BY DEF ReviewState
  <1> HIDE DEF since, n
  <1>4. T \subseteq 0..n /\ T # {} /\ \A e \in answers : e.at \in T
    BY <1>2, <1>3
  <1>5. PICK m \in T : \A y \in T : y <= m
    <2> HIDE DEF T
    <2> QED
      BY <1>1, <1>4, MaxOfBounded
  <1>6. \E e \in answers : \A f \in answers : e.at >= f.at
    BY <1>1, <1>4, <1>5
  <1>7. last \in answers
    BY <1>6
  <1> HIDE DEF last
  <1>8. last \in since /\ last.verdict = "clean"
    BY <1>3, <1>7
  <1>9. PICK i \in 1..Len(nodes) :
            last = [at |-> 3 * i, verdict |-> Verdict(nodes[i], h), item |-> nodes[i]]
    BY <1>8 DEF since, Since
  <1>10. last.at > 3 * HeadIndex(nodes, h)
    BY <1>8 DEF since, Since
  <1>11. HeadIndex(nodes, h) \in Nat /\ i \in Nat /\ 3 * i > 3 * HeadIndex(nodes, h)
    BY <1>9, <1>10, HeadIndexIs
  <1> QED
    BY <1>8, <1>9, <1>11

\* A request after the push of h is news.
LEMMA RequestIsNews ==
    ASSUME NEW nodes, nodes \in Seq(Item), NEW found, NEW h,
           NEW i \in 1..Len(nodes), i > HeadIndex(nodes, h), nodes[i].kind = "request"
    PROVE  HasNews(nodes, found, h)
  <1> DEFINE e == [at |-> 3 * i, verdict |-> Verdict(nodes[i], h), item |-> nodes[i]]
  <1>1. 3 * i > 3 * HeadIndex(nodes, h)
    BY HeadIndexIs
  <1>2. e \in Since(nodes, found, h)
    BY <1>1 DEF Since
  <1>3. e.item.kind = "request"
    OBVIOUS
  <1> QED
    BY <1>2, <1>3 DEF HasNews

LEMMA CleanVerdict ==
    ASSUME NEW n \in Item, NEW h, Verdict(n, h) = "clean"
    PROVE  Answer(n, h)
  <1>1. CASE n.kind = "request"
    BY <1>1 DEF Verdict, Answer
  <1>2. CASE n.kind = "review"
    BY <1>2, ItemIs DEF Verdict, Answer
  <1>3. CASE n.kind = "comment"
    BY <1>3, ItemIs DEF Verdict, Answer
  <1>4. CASE n.kind = "head"
    BY <1>4 DEF Verdict
  <1> QED
    BY <1>1, <1>2, <1>3, <1>4, ItemIs

-----------------------------------------------------------------------------
\* The timeline grows

LEMMA GrownSelf == \A nodes \in Seq(Item) : Grown(nodes, nodes)
  BY DEF Grown, Became

LEMMA GrownAgain ==
    ASSUME NEW a \in Seq(Item), NEW b \in Seq(Item), NEW c \in Seq(Item), Grown(a, b), Grown(b, c)
    PROVE  Grown(a, c)
  <1>1. Len(a) \in Nat /\ Len(b) \in Nat /\ Len(c) \in Nat /\ Len(a) <= Len(b) /\ Len(b) <= Len(c)
    BY DEF Grown
  <1>2. ASSUME NEW i \in 1..Len(a) PROVE Became(a[i], c[i])
    <2>1. i \in 1..Len(b)
      BY <1>1
    <2>2. Became(a[i], b[i]) /\ Became(b[i], c[i])
      BY <2>1 DEF Grown
    <2> QED
      BY <2>2 DEF Became
  <1> QED
    BY <1>1, <1>2 DEF Grown

\* What answers, or is a head, stays.
LEMMA BecameFixed ==
    ASSUME NEW n \in Item, NEW m, Became(n, m), NEW h, n = HeadItem(h) \/ Answer(n, h)
    PROVE  m = n
  <1>1. CASE n = HeadItem(h)
    BY <1>1 DEF Became, HeadItem
  <1>2. CASE n.kind = "request" /\ n.reaction = "+1"
    BY <1>2 DEF Became
  <1>3. CASE n = ReviewItem(h, FALSE) \/ \E about \in Commits : n = CommentItem(TRUE, about)
    BY <1>3 DEF Became, CommentItem, ReviewItem
  <1> QED
    BY <1>1, <1>2, <1>3 DEF Answer

LEMMA ClearedStays ==
    ASSUME NEW a \in Seq(Item), NEW b \in Seq(Item), Grown(a, b), NEW h, Answered(a, h)
    PROVE  Answered(b, h)
  <1>1. PICK i, j \in 1..Len(a) : i < j /\ a[i] = HeadItem(h) /\ Answer(a[j], h)
    BY DEF Answered
  <1>2. Len(a) \in Nat /\ Len(b) \in Nat /\ Len(a) <= Len(b)
    BY DEF Grown
  <1>3. i \in 1..Len(b) /\ j \in 1..Len(b)
    BY <1>2
  <1>4. Became(a[i], b[i]) /\ Became(a[j], b[j]) /\ a[i] \in Item /\ a[j] \in Item
    BY DEF Grown
  <1>5. b[i] = a[i] /\ b[j] = a[j]
    BY <1>1, <1>4, BecameFixed
  <1> QED
    BY <1>1, <1>3, <1>5 DEF Answered

LEMMA InformedStays ==
    ASSUME NEW a \in Seq(Item), NEW b \in Seq(Item), Grown(a, b), NEW r, Informed(r, a)
    PROVE  Informed(r, b)
  <1>1. CASE r.pc = "comments"
    <2>1. r.nodes \in Seq(Item) /\ Grown(r.nodes, a)
      BY <1>1 DEF Informed
    <2>2. Grown(r.nodes, b)
      BY <2>1, GrownAgain
    <2> QED
      BY <1>1, <2>2 DEF Informed
  <1>2. CASE r.pc \in {"state", "threads"}
    BY <1>2, ClearedStays DEF Informed
  <1>3. CASE r.pc = "write"
    <2>1. \A k \in 1..Len(r.todo) : r.todo[k].op = "approve" => Answered(b, r.todo[k].oid)
      BY <1>3, ClearedStays DEF Informed
    <2> QED
      BY <1>3, <2>1 DEF Informed
  <1>4. CASE r.pc \notin {"comments", "state", "threads", "write"}
    BY <1>4 DEF Informed
  <1> QED
    BY <1>1, <1>2, <1>3, <1>4

LEMMA AppendGrows ==
    ASSUME NEW a \in Seq(Item), NEW n \in Item
    PROVE  Append(a, n) \in Seq(Item) /\ Grown(a, Append(a, n))
  BY DEF Grown, Became

\* The last head after an append, and the script's requests.
LEMMA AppendHead ==
    ASSUME NEW a \in Seq(Item), NEW h \in Commits
    PROVE  AskedIn(Append(a, HeadItem(h))) = {} /\ HeadIsLast(Append(a, HeadItem(h)), h)
  <1> DEFINE b == Append(a, HeadItem(h))
  <1>1. b \in Seq(Item) /\ Len(b) = Len(a) + 1 /\ Len(a) \in Nat /\ b[Len(b)] = HeadItem(h)
    BY ItemIs
  <1>2. b[Len(b)].kind = "head"
    BY <1>1, ItemIs
  <1> HIDE DEF b
  <1>3. Len(b) \in 1..Len(b)
    BY <1>1
  <1>4. Len(b) <= LastHead(b)
    BY <1>1, <1>2, <1>3, LastHeadIs
  <1>5. LastHead(b) \in 0..Len(b)
    BY <1>1, LastHeadIs
  <1>6. AskedIn(b) = {}
    BY <1>1, <1>4, <1>5 DEF AskedIn
  <1>7. HeadIsLast(b, h)
    BY <1>1, <1>3 DEF HeadIsLast
  <1> QED
    BY <1>6, <1>7 DEF b

LEMMA AppendOther ==
    ASSUME NEW a \in Seq(Item), NEW n \in Item, n.kind # "head",
           NEW h, HeadIsLast(a, h)
    PROVE  /\ HeadIsLast(Append(a, n), h)
           /\ AskedIn(Append(a, n)) = IF ByScript(n) THEN AskedIn(a) \cup {Len(a) + 1} ELSE AskedIn(a)
  <1> DEFINE b == Append(a, n)
  <1>1. /\ b \in Seq(Item) /\ Len(b) = Len(a) + 1 /\ Len(a) \in Nat
        /\ b[Len(a) + 1] = n /\ \A i \in 1..Len(a) : b[i] = a[i]
    OBVIOUS
  <1> HIDE DEF b
  <1>2. \A i : i \in 1..Len(b) <=> i \in 1..Len(a) \/ i = Len(a) + 1
    BY <1>1
  <1>3. HeadIsLast(b, h)
    <2>1. PICK i \in 1..Len(a) : a[i] = HeadItem(h) /\ \A j \in 1..Len(a) : j > i => a[j].kind # "head"
      BY DEF HeadIsLast
    <2>2. i \in 1..Len(b) /\ b[i] = HeadItem(h)
      BY <1>1, <1>2, <2>1
    <2>3. ASSUME NEW j \in 1..Len(b), j > i PROVE b[j].kind # "head"
      BY <1>1, <1>2, <2>1, <2>3
    <2> QED
      BY <2>2, <2>3 DEF HeadIsLast
  <1>4. LastHead(b) = LastHead(a)
    <2>1. LastHead(a) \in 0..Len(a) /\ LastHead(b) \in 0..Len(b)
      BY <1>1, LastHeadIs
    <2>2. LastHead(a) <= LastHead(b)
      <3>1. CASE LastHead(a) = 0
        BY <2>1, <3>1
      <3>2. CASE LastHead(a) > 0
        <4>1. LastHead(a) \in 1..Len(a) /\ a[LastHead(a)].kind = "head"
          BY <1>1, <2>1, <3>2, LastHeadIs
        <4>2. LastHead(a) \in 1..Len(b) /\ b[LastHead(a)].kind = "head"
          BY <1>1, <1>2, <4>1
        <4> QED
          BY <1>1, <4>2, LastHeadIs
      <3> QED
        BY <2>1, <3>1, <3>2
    <2>3. LastHead(b) <= LastHead(a)
      <3>1. CASE LastHead(b) = 0
        BY <2>1, <3>1
      <3>2. CASE LastHead(b) > 0
        <4>1. LastHead(b) \in 1..Len(b) /\ b[LastHead(b)].kind = "head"
          BY <1>1, <2>1, <3>2, LastHeadIs
        <4>2. LastHead(b) # Len(a) + 1
          BY <1>1, <4>1
        <4>3. LastHead(b) \in 1..Len(a) /\ a[LastHead(b)].kind = "head"
          BY <1>1, <1>2, <4>1, <4>2
        <4> QED
          BY <4>3, LastHeadIs
      <3> QED
        BY <2>1, <3>1, <3>2
    <2> QED
      BY <1>1, <2>1, <2>2, <2>3
  <1>5. LastHead(a) \in 0..Len(a)
    BY LastHeadIs
  <1>6. \A i : i \in AskedIn(b) <=> i \in AskedIn(a) \/ (i = Len(a) + 1 /\ ByScript(n))
    BY <1>1, <1>2, <1>4, <1>5 DEF AskedIn
  <1>7. AskedIn(b) = IF ByScript(n) THEN AskedIn(a) \cup {Len(a) + 1} ELSE AskedIn(a)
    BY <1>6
  <1> QED
    BY <1>3, <1>7 DEF b

\* A reaction changes no head and no request's author.
LEMMA ReactKeeps ==
    ASSUME NEW a \in Seq(Item), NEW i \in 1..Len(a), a[i].kind = "request", a[i].reaction # "+1",
           NEW reaction \in {"eyes", "+1"}, NEW h, HeadIsLast(a, h)
    PROVE  LET b == [a EXCEPT ![i].reaction = reaction]
           IN  b \in Seq(Item) /\ Grown(a, b) /\ HeadIsLast(b, h) /\ AskedIn(b) = AskedIn(a)
  <1> DEFINE n == [a[i] EXCEPT !.reaction = reaction]
             b == [a EXCEPT ![i] = n]
  <1>1. a[i] \in Item /\ a[i] = [kind |-> "request", reaction |-> a[i].reaction, by |-> a[i].by]
        /\ a[i].by \in {"script", "user"}
    BY ItemIs
  <1>2. n = [kind |-> "request", reaction |-> reaction, by |-> a[i].by]
    BY <1>1
  <1>3. n \in Item /\ n.kind = "request" /\ n.by = a[i].by
    BY <1>1, <1>2 DEF Item
  <1> HIDE DEF n
  <1>4. b \in Seq(Item) /\ Len(b) = Len(a) /\ b[i] = n /\ \A j \in 1..Len(a) : j # i => b[j] = a[j]
    BY <1>3
  <1> HIDE DEF b
  <1>5. \A j \in 1..Len(a) : /\ Became(a[j], b[j])
                             /\ (b[j].kind = "head" <=> a[j].kind = "head")
                             /\ (ByScript(b[j]) <=> ByScript(a[j]))
                             /\ (a[j].kind = "head" => b[j] = a[j])
    BY <1>3, <1>4 DEF Became, ByScript
  <1>6. Grown(a, b)
    BY <1>4, <1>5 DEF Grown
  <1>7. HeadIsLast(b, h)
    <2>1. PICK k \in 1..Len(a) : a[k] = HeadItem(h) /\ \A j \in 1..Len(a) : j > k => a[j].kind # "head"
      BY DEF HeadIsLast
    <2>2. b[k] = HeadItem(h)
      BY <1>5, <2>1, ItemIs
    <2> QED
      BY <1>4, <1>5, <2>1, <2>2 DEF HeadIsLast
  <1>8. LastHead(b) = LastHead(a)
    <2>1. {j \in 1..Len(b) : b[j].kind = "head"} = {j \in 1..Len(a) : a[j].kind = "head"}
      BY <1>4, <1>5
    <2> QED
      BY <2>1 DEF LastHead, SelectLastInSeq
  <1>9. AskedIn(b) = AskedIn(a)
    BY <1>4, <1>5, <1>8 DEF AskedIn
  <1> QED
    BY <1>4, <1>6, <1>7, <1>9 DEF b, n

-----------------------------------------------------------------------------
\* A step of a run: what it knows, and whether it may still ask

\* A run that starts knows the timeline; it may ask only if nobody has.
LEMMA TimelineStep ==
    ASSUME NEW a \in Seq(Item), NEW h \in Commits, HeadIsLast(a, h)
    PROVE  LET r == [pc |-> "comments", head |-> h, nodes |-> a]
           IN  Informed(r, a) /\ (MayAsk(r) => AskedIn(a) = {})
  <1> DEFINE r == [pc |-> "comments", head |-> h, nodes |-> a]
  <1>1. r.pc = "comments" /\ r.head = h /\ r.nodes = a
    OBVIOUS
  <1> HIDE DEF r
  <1>2. PICK i \in 1..Len(a) : a[i] = HeadItem(h) /\ \A j \in 1..Len(a) : j > i => a[j].kind # "head"
    BY DEF HeadIsLast
  <1>3. Informed(r, a)
    BY <1>1, <1>2, GrownSelf DEF Informed
  <1>4. ASSUME MayAsk(r), NEW k \in AskedIn(a) PROVE FALSE
    <2>1. k \in 1..Len(a) /\ k > LastHead(a) /\ a[k].kind = "request"
      BY <1>4 DEF AskedIn, ByScript
    <2>2. k <= HeadIndex(a, h)
      <3>1. ~(k > HeadIndex(a, h))
        BY <1>1, <1>4, <2>1 DEF MayAsk
      <3>2. HeadIndex(a, h) \in Nat
        BY HeadIndexIs
      <3> QED
        BY <2>1, <3>1, <3>2
    <2>3. HeadIndex(a, h) \in 1..Len(a) /\ a[HeadIndex(a, h)] = HeadItem(h)
      BY <2>1, <2>2, HeadIndexIs
    <2>4. HeadIndex(a, h) <= LastHead(a)
      BY <2>3, LastHeadIs, ItemIs
    <2>5. LastHead(a) \in Nat
      BY LastHeadIs
    <2> QED
      BY <2>1, <2>2, <2>3, <2>4, <2>5
  <1> QED
    BY <1>3, <1>4 DEF r

\* A clean state that a run made of what it read was an answer.
LEMMA CommentsStep ==
    ASSUME NEW a \in Seq(Item), NEW found, found \subseteq Thread,
           NEW r, r.pc = "comments", Informed(r, a)
    PROVE  LET x == [pc |-> "state", head |-> r.head,
                     review |-> ReviewState(r.nodes, found, r.head),
                     news |-> HasNews(r.nodes, found, r.head)]
           IN  Informed(x, a) /\ (MayAsk(x) => MayAsk(r))
  <1> DEFINE x == [pc |-> "state", head |-> r.head,
                   review |-> ReviewState(r.nodes, found, r.head),
                   news |-> HasNews(r.nodes, found, r.head)]
  <1>1. /\ x.pc = "state" /\ x.head = r.head
        /\ x.review = ReviewState(r.nodes, found, r.head)
        /\ x.news = HasNews(r.nodes, found, r.head)
    OBVIOUS
  <1> HIDE DEF x
  <1>2. PICK nodes : nodes = r.nodes
    OBVIOUS
  <1>3. PICK h : h = r.head
    OBVIOUS
  <1>4. h \in Commits /\ nodes \in Seq(Item) /\ Grown(nodes, a)
        /\ \E i \in 1..Len(nodes) : nodes[i] = HeadItem(h)
    BY <1>2, <1>3 DEF Informed
  <1>5. ASSUME x.review = "clean" PROVE Answered(a, h)
    <2>1. ReviewState(nodes, found, h) = "clean"
      BY <1>1, <1>2, <1>3, <1>5
    <2>2. PICK j \in 1..Len(nodes) : j > HeadIndex(nodes, h) /\ Verdict(nodes[j], h) = "clean"
      BY <1>4, <2>1, CleanIsAnswered
    <2>3. nodes[j] \in Item
      BY <1>4
    <2>4. Answer(nodes[j], h)
      BY <2>2, <2>3, CleanVerdict
    <2>5. HeadIndex(nodes, h) \in 1..Len(nodes) /\ nodes[HeadIndex(nodes, h)] = HeadItem(h)
      <3>1. HeadIndex(nodes, h) \in 0..Len(nodes)
        BY <1>4, HeadIndexIs
      <3>2. HeadIndex(nodes, h) > 0
        BY <1>4, <3>1, HeadIndexIs
      <3> QED
        BY <1>4, <3>1, <3>2, HeadIndexIs
    <2>6. Answered(nodes, h)
      BY <2>2, <2>4, <2>5 DEF Answered
    <2> QED
      BY <1>4, <2>6, ClearedStays
  <1>6. Informed(x, a)
    BY <1>1, <1>3, <1>4, <1>5 DEF Informed
  <1>7. ASSUME MayAsk(x) PROVE MayAsk(r)
    <2>1. ~HasNews(nodes, found, h)
      BY <1>1, <1>2, <1>3, <1>7 DEF MayAsk
    <2>2. \A i \in 1..Len(nodes) : i > HeadIndex(nodes, h) => nodes[i].kind # "request"
      BY <1>4, <2>1, RequestIsNews
    <2> QED
      BY <1>2, <1>3, <2>2 DEF MayAsk
  <1> QED
    BY <1>6, <1>7 DEF x

LEMMA StateStep ==
    ASSUME NEW a, NEW r, r.pc = "state", Informed(r, a), NEW has, NEW state, NEW mergeable
    PROVE  LET x == [pc |-> "threads", head |-> r.head, review |-> r.review, news |-> r.news,
                     has |-> has, checks |-> state, merge |-> mergeable]
           IN  Informed(x, a) /\ (MayAsk(x) => MayAsk(r))
  BY DEF Informed, MayAsk

LEMMA NoSyncStep == \A a : Informed(NoSync, a) /\ ~MayAsk(NoSync)
  BY DEF Informed, MayAsk, NoSync

\* After a write, what is left.
LEMMA TailStep ==
    ASSUME NEW a, NEW r, r.pc = "write", Informed(r, a)
    PROVE  LET x == Writing(Tail(r.todo))
           IN  /\ Informed(x, a)
               /\ MayAsk(x) => MayAsk(r)
               /\ Head(r.todo) = AskWrite => ~MayAsk(x) /\ MayAsk(r)
  <1> DEFINE u == Tail(r.todo)
             x == Writing(u)
             W == Quiet \cup {AskWrite}
  <1>1. PICK todo : todo = r.todo
    OBVIOUS
  <1>2. /\ todo \in Seq(W) /\ todo # <<>>
        /\ \A k \in 1..Len(todo) :
              /\ todo[k].op = "approve" => Answered(a, todo[k].oid)
              /\ todo[k] = AskWrite => k = Len(todo)
    BY <1>1 DEF Informed
  <1> HIDE DEF W
  <1>3. /\ Len(todo) \in Nat /\ Len(todo) > 0 /\ Head(todo) = todo[1]
        /\ u \in Seq(W) /\ Len(u) = Len(todo) - 1
        /\ \A k \in 1..Len(u) : k + 1 \in 1..Len(todo) /\ u[k] = todo[k + 1]
    BY <1>1, <1>2
  <1>4. ASSUME Head(todo) = AskWrite PROVE u = <<>> /\ MayAsk(r)
    <2>1. 1 \in 1..Len(todo) /\ todo[1] = AskWrite
      BY <1>3, <1>4
    <2>2. 1 = Len(todo)
      BY <1>2, <2>1
    <2>3. u = <<>>
      BY <1>3, <2>2
    <2> QED
      BY <1>1, <2>1, <2>3 DEF MayAsk
  <1>5. CASE u = <<>>
    <2>1. x = NoSync
      BY <1>5 DEF Writing
    <2> QED
      BY <1>1, <1>4, <2>1, NoSyncStep
  <1>6. CASE u # <<>>
    <2> HIDE DEF u
    <2>1. x = [pc |-> "write", todo |-> u]
      BY <1>6 DEF Writing
    <2>2. x.pc = "write" /\ x.todo = u
      BY <2>1
    <2> HIDE DEF x
    <2>3. \A k \in 1..Len(u) : /\ u[k].op = "approve" => Answered(a, u[k].oid)
                               /\ u[k] = AskWrite => k = Len(u)
      <3>1. ASSUME NEW k \in 1..Len(u) PROVE u[k].op = "approve" => Answered(a, u[k].oid)
        BY <1>2, <1>3
      <3>2. ASSUME NEW k \in 1..Len(u), u[k] = AskWrite PROVE k = Len(u)
        <4>1. k + 1 = Len(todo)
          BY <1>2, <1>3, <3>2
        <4> QED
          BY <1>3, <4>1
      <3> QED
        BY <3>1, <3>2
    <2>4. Informed(x, a)
      BY <1>3, <1>6, <2>2, <2>3 DEF Informed, W
    <2>5. ASSUME MayAsk(x) PROVE MayAsk(r)
      <3>1. PICK k \in 1..Len(u) : u[k] = AskWrite
        BY <2>2, <2>5 DEF MayAsk
      <3> QED
        BY <1>1, <1>3, <3>1 DEF MayAsk
    <2> QED
      BY <1>1, <1>4, <1>6, <2>4, <2>5 DEF x, u
  <1> QED
    BY <1>5, <1>6 DEF x, u

\* The writes that are decided on: labels, an approval, and at the end a request.
LEMMA ChangeIs ==
    ASSUME NEW label \in {"ok", "needs_work", "legacy"}, NEW wanted, NEW r
    PROVE  Change(label, wanted, r) \in Seq(LabelWrite)
  <1>1. \A op \in {"add", "remove"} : [op |-> op, label |-> label] \in LabelWrite
    BY DEF LabelWrite
  <1>2. \A w \in LabelWrite : <<w>> \in Seq(LabelWrite)
    OBVIOUS
  <1>3. << >> \in Seq(LabelWrite)
    OBVIOUS
  <1> QED
    BY <1>1, <1>2, <1>3, Zenon DEF Change

LEMMA DecideStep ==
    ASSUME NEW a, NEW p \in Seq(LabelWrite), NEW h \in Commits, NEW approve \in BOOLEAN, NEW ask \in BOOLEAN,
           approve => Answered(a, h)
    PROVE  LET x == Writing(p \o (IF approve THEN <<[op |-> "approve", oid |-> h]>> ELSE <<>>)
                              \o (IF ask THEN <<[op |-> "ask"]>> ELSE <<>>))
           IN  Informed(x, a) /\ (MayAsk(x) => ask)
  <1> DEFINE q == p \o (IF approve THEN <<[op |-> "approve", oid |-> h]>> ELSE <<>>)
             todo == q \o (IF ask THEN <<[op |-> "ask"]>> ELSE <<>>)
             x == Writing(todo)
  <1>1. q \in Seq(Quiet)
    <2>1. p \in Seq(Quiet)
      BY DEF Quiet
    <2>2. [op |-> "approve", oid |-> h] \in Quiet
      BY DEF Quiet, ApproveWrite
    <2> QED
      BY <2>1, <2>2
  <1>2. ASSUME NEW k \in 1..Len(q), q[k].op = "approve" PROVE Answered(a, q[k].oid)
    <2>1. Len(p) \in Nat /\ \A j \in 1..Len(p) : p[j] \in LabelWrite
      OBVIOUS
    <2>2. \A w \in LabelWrite : w.op # "approve"
      BY DEF LabelWrite
    <2>3. CASE k <= Len(p)
      <3>1. k \in 1..Len(p) /\ q[k] = p[k]
        BY <2>1, <2>3
      <3> QED
        BY <1>2, <2>1, <2>2, <3>1
    <2>4. CASE ~(k <= Len(p))
      <3>1. CASE approve
        <4>1. q[k] = [op |-> "approve", oid |-> h]
          BY <2>1, <2>4, <3>1
        <4> QED
          BY <3>1, <4>1
      <3>2. CASE ~approve
        BY <2>1, <2>4, <3>2
      <3> QED
        BY <3>1, <3>2
    <2> QED
      BY <2>3, <2>4
  <1>3. \A w \in Quiet : w # AskWrite
    BY DEF Quiet, LabelWrite, ApproveWrite, AskWrite
  <1>4. AskWrite.op # "approve" /\ AskWrite = [op |-> "ask"]
    BY DEF AskWrite
  <1> HIDE DEF q
  <1>5. Len(q) \in Nat /\ \A k \in 1..Len(q) : q[k] \in Quiet
    BY <1>1
  <1>6. CASE ask
    <2>1. /\ todo \in Seq(Quiet \cup {AskWrite}) /\ Len(todo) = Len(q) + 1 /\ todo[Len(q) + 1] = AskWrite
          /\ \A k \in 1..Len(q) : todo[k] = q[k]
      BY <1>1, <1>4, <1>6
    <2> HIDE DEF todo
    <2>2. todo # <<>>
      BY <1>5, <2>1
    <2>3. x = [pc |-> "write", todo |-> todo]
      BY <2>2 DEF Writing
    <2>4. ASSUME NEW k \in 1..Len(todo)
          PROVE  /\ todo[k].op = "approve" => Answered(a, todo[k].oid)
                 /\ todo[k] = AskWrite => k = Len(todo)
      <3>1. CASE k \in 1..Len(q)
        <4>1. todo[k] = q[k] /\ q[k] \in Quiet
          BY <1>5, <2>1, <3>1
        <4> QED
          BY <1>2, <1>3, <3>1, <4>1
      <3>2. CASE k = Len(q) + 1
        BY <1>4, <2>1, <3>2
      <3> QED
        BY <1>5, <2>1, <3>1, <3>2
    <2>5. x.pc = "write" /\ x.todo = todo
      BY <2>3
    <2> HIDE DEF x
    <2>6. Informed(x, a)
      BY <2>1, <2>2, <2>4, <2>5 DEF Informed
    <2> QED
      BY <1>6, <2>6 DEF x, q, todo
  <1>7. CASE ~ask
    <2>1. todo = q
      BY <1>1, <1>7
    <2> HIDE DEF todo
    <2>2. CASE q = <<>>
      <3>1. x = NoSync
        BY <2>1, <2>2 DEF Writing
      <3> QED
        BY <3>1, NoSyncStep DEF todo, q
    <2>3. CASE q # <<>>
      <3>1. x = [pc |-> "write", todo |-> q]
        BY <2>1, <2>3 DEF Writing
      <3>2. x.pc = "write" /\ x.todo = q
        BY <3>1
      <3> HIDE DEF x
      <3>3. \A k \in 1..Len(q) : q[k] # AskWrite
        BY <1>3, <1>5
      <3>4. q \in Seq(Quiet \cup {AskWrite})
        BY <1>1
      <3>5. Informed(x, a)
        BY <1>2, <2>3, <3>2, <3>3, <3>4 DEF Informed
      <3>6. ~MayAsk(x)
        BY <3>2, <3>3 DEF MayAsk
      <3> QED
        BY <3>5, <3>6 DEF x, todo, q
    <2> QED
      BY <2>2, <2>3
  <1> QED
    BY <1>6, <1>7

-----------------------------------------------------------------------------
\* The runs that have asked and may ask, counted

LEMMA AskedIsFinite == \A a \in Seq(Item) : IsFiniteSet(AskedIn(a))
  <1>1. ASSUME NEW a \in Seq(Item) PROVE IsFiniteSet(AskedIn(a))
    <2>1. Len(a) \in Int /\ 1 \in Int
      OBVIOUS
    <2>2. IsFiniteSet(1..Len(a))
      BY <2>1, FS_Interval
    <2>3. AskedIn(a) \in SUBSET (1..Len(a))
      BY DEF AskedIn
    <2> QED
      BY <2>2, <2>3, FS_Subset
  <1> QED
    BY <1>1

LEMMA FitLess ==
    ASSUME NEW A, NEW B \in SUBSET Syncs, NEW C \in SUBSET B, IsFiniteSet(A), Fit(A, B)
    PROVE  Fit(A, C)
  <1>1. IsFiniteSet(Syncs)
    BY LabelsAssumption
  <1>2. IsFiniteSet(B)
    BY <1>1, FS_Subset
  <1>3. IsFiniteSet(C) /\ Cardinality(C) <= Cardinality(B)
    BY <1>2, FS_Subset
  <1>4. Cardinality(A) \in Nat /\ Cardinality(B) \in Nat /\ Cardinality(C) \in Nat
        /\ Cardinality(Syncs) \in Nat
    BY <1>1, <1>2, <1>3, FS_CardinalityType
  <1> QED
    BY <1>3, <1>4 DEF Fit

LEMMA FitMoves ==
    ASSUME NEW A, NEW B \in SUBSET Syncs, IsFiniteSet(A), Fit(A, B), NEW s \in B, NEW x
    PROVE  Fit(A \cup {x}, B \ {s})
  <1>1. IsFiniteSet(Syncs)
    BY LabelsAssumption
  <1>2. IsFiniteSet(B) /\ Cardinality(B) <= Cardinality(Syncs)
    BY <1>1, FS_Subset
  <1>3. IsFiniteSet(B \ {s}) /\ Cardinality(B \ {s}) = Cardinality(B) - 1
    BY <1>2, FS_RemoveElement
  <1>4. Cardinality(A) \in Nat /\ Cardinality(B) \in Nat /\ Cardinality(Syncs) \in Nat
    BY <1>1, <1>2, FS_CardinalityType
  <1>5. CASE A = {}
    <2>1. A \cup {x} = {x}
      BY <1>5
    <2>2. Cardinality(A \cup {x}) = 1
      BY <2>1, FS_Singleton
    <2> QED
      BY <1>2, <1>3, <1>4, <2>2 DEF Fit
  <1>6. CASE A # {}
    <2>1. Cardinality(A) + Cardinality(B) <= Cardinality(Syncs)
      BY <1>6 DEF Fit
    <2>2. Cardinality(A \cup {x}) = Cardinality(A) \/ Cardinality(A \cup {x}) = Cardinality(A) + 1
      BY FS_AddElement
    <2> QED
      BY <1>3, <1>4, <2>1, <2>2 DEF Fit
  <1> QED
    BY <1>5, <1>6

-----------------------------------------------------------------------------
\* Every step preserves the invariant

LEMMA InitInv == Init => LabelsInv
  <1> SUFFICES ASSUME Init PROVE LabelsInv
    OBVIOUS
  <1>1. First \in Commits
    BY LabelsAssumption
  <1>2. HeadItem(First) \in Item /\ HeadItem(First).kind = "head"
    BY <1>1, ItemIs
  <1>3. timeline \in Seq(Item) /\ Len(timeline) = 1 /\ timeline[1] = HeadItem(First)
    BY <1>2 DEF Init
  <1>4. HeadIsLast(timeline, head)
    BY <1>3 DEF Init, HeadIsLast
  <1>5. Shapes
    BY <1>1, <1>3, <1>4 DEF Init, Shapes
  <1>6. ASSUME NEW s \in Syncs PROVE Informed(sync[s], timeline)
    <2>1. sync[s].pc \in {"idle", "off"}
      BY DEF Init, NoSync
    <2> QED
      BY <2>1 DEF Informed
  <1>7. AskedIn(timeline) = {}
    <2>1. PICK a : a = timeline
      OBVIOUS
    <2>2. ASSUME NEW i \in 1..Len(a) PROVE ~ByScript(a[i])
      <3>1. i = 1
        BY <1>3, <2>1
      <3>2. a[i].kind = "head"
        BY <1>2, <1>3, <2>1, <3>1
      <3> QED
        BY <3>2 DEF ByScript
    <2> QED
      BY <2>1, <2>2 DEF AskedIn
  <1>8. Shared
    BY <1>7 DEF Shared, Fit
  <1>9. AllAnswered
    BY DEF Init, AllAnswered
  <1> QED
    BY <1>5, <1>6, <1>8, <1>9 DEF LabelsInv, AllInformed

\* A step that is not the script's.
LEMMA EventInv ==
    ASSUME LabelsInv, sync' = sync, approved' = approved,
           head' \in Commits, threads' \subseteq Thread, timeline' \in Seq(Item),
           Grown(timeline, timeline'), HeadIsLast(timeline', head'),
           AskedIn(timeline') = {} \/ AskedIn(timeline') = AskedIn(timeline)
    PROVE  LabelsInv'
  <1> USE DEF LabelsInv
  <1>1. PICK a : a = timeline
    OBVIOUS
  <1>2. PICK b : b = timeline'
    OBVIOUS
  <1>3. a \in Seq(Item) /\ b \in Seq(Item) /\ Grown(a, b)
    BY <1>1, <1>2 DEF Shapes
  <1>4. Shapes'
    BY DEF Shapes
  <1>5. AllInformed'
    <2>1. ASSUME NEW s \in Syncs PROVE Informed(sync[s]', b)
      <3>1. Informed(sync[s], a)
        BY <1>1 DEF AllInformed
      <3>2. PICK r : r = sync[s]
        OBVIOUS
      <3>3. Informed(r, b)
        BY <1>3, <3>1, <3>2, InformedStays
      <3> QED
        BY <3>2, <3>3
    <2> QED
      BY <1>2, <2>1 DEF AllInformed
  <1>6. AllAnswered'
    <2>1. ASSUME NEW h \in approved PROVE Answered(b, h)
      <3>1. Answered(a, h)
        BY <1>1 DEF AllAnswered
      <3> QED
        BY <1>3, <3>1, ClearedStays
    <2> QED
      BY <1>2, <2>1 DEF AllAnswered
  <1>7. Shared'
    <2>1. Asking' = Asking
      BY DEF Asking
    <2> QED
      BY <2>1 DEF Shared, Fit
  <1> QED
    BY <1>4, <1>5, <1>6, <1>7

\* A step of a run that does not ask.
LEMMA RunInv ==
    ASSUME LabelsInv, NEW s \in Syncs, NEW x, sync' = [sync EXCEPT ![s] = x],
           head' = head, threads' = threads, timeline' = timeline,
           \A h \in approved' : Answered(timeline, h),
           Informed(x, timeline),
           MayAsk(x) => MayAsk(sync[s]) \/ AskedIn(timeline) = {}
    PROVE  LabelsInv'
  <1> USE DEF LabelsInv
  <1>1. PICK a : a = timeline
    OBVIOUS
  <1>2. a \in Seq(Item) /\ sync = [u \in Syncs |-> sync[u]]
    BY <1>1 DEF Shapes
  <1>3. sync'[s] = x /\ \A u \in Syncs : u # s => sync'[u] = sync[u]
    BY <1>2
  <1>4. Shapes'
    BY <1>2 DEF Shapes
  <1>5. AllInformed'
    BY <1>3 DEF AllInformed
  <1>6. AllAnswered'
    BY DEF AllAnswered
  <1>7. Shared'
    <2>1. CASE AskedIn(timeline) = {}
      BY <2>1 DEF Shared, Fit
    <2>2. CASE AskedIn(timeline) # {}
      <3>1. Asking' \in SUBSET Asking
        BY <1>3, <2>2 DEF Asking
      <3>2. PICK B : B = Asking
        OBVIOUS
      <3>3. PICK C : C = Asking'
        OBVIOUS
      <3>4. B \in SUBSET Syncs /\ C \in SUBSET B
        BY <3>1, <3>2, <3>3 DEF Asking
      <3>5. Fit(AskedIn(a), B)
        BY <1>1, <3>2 DEF Shared
      <3>6. Fit(AskedIn(a), C)
        BY <1>2, <3>4, <3>5, AskedIsFinite, FitLess
      <3> QED
        BY <1>1, <3>3, <3>6 DEF Shared
    <2> QED
      BY <2>1, <2>2
  <1> QED
    BY <1>4, <1>5, <1>6, <1>7

\* The step of a run that asks.
LEMMA AskInv ==
    ASSUME LabelsInv, NEW s \in Syncs, NEW x, sync' = [sync EXCEPT ![s] = x],
           head' = head, threads' = threads, approved' = approved,
           timeline' = Append(timeline, RequestItem("script")),
           Informed(x, timeline), MayAsk(sync[s]), ~MayAsk(x)
    PROVE  LabelsInv'
  <1> USE DEF LabelsInv
  <1>1. PICK a : a = timeline
    OBVIOUS
  <1>2. PICK h : h = head
    OBVIOUS
  <1>3. PICK n : n = RequestItem("script")
    OBVIOUS
  <1>4. PICK b : b = Append(a, n)
    OBVIOUS
  <1>5. a \in Seq(Item) /\ HeadIsLast(a, h) /\ sync = [u \in Syncs |-> sync[u]]
    BY <1>1, <1>2 DEF Shapes
  <1>6. n \in Item /\ n.kind # "head" /\ ByScript(n)
    BY <1>3, ItemIs DEF RequestItem, ByScript
  <1>7. b \in Seq(Item) /\ Grown(a, b)
    BY <1>4, <1>5, <1>6, AppendGrows
  <1>8. HeadIsLast(b, h) /\ AskedIn(b) = AskedIn(a) \cup {Len(a) + 1}
    BY <1>4, <1>5, <1>6, AppendOther
  <1>9. timeline' = b
    BY <1>1, <1>3, <1>4
  <1>10. sync'[s] = x /\ \A u \in Syncs : u # s => sync'[u] = sync[u]
    BY <1>5
  <1>11. Shapes'
    BY <1>2, <1>5, <1>7, <1>8, <1>9 DEF Shapes
  <1>12. AllInformed'
    <2>1. ASSUME NEW u \in Syncs PROVE Informed(sync'[u], b)
      <3>1. PICK r : r = sync'[u]
        OBVIOUS
      <3>2. Informed(r, a)
        BY <1>1, <1>10, <3>1 DEF AllInformed
      <3> QED
        BY <1>5, <1>7, <3>1, <3>2, InformedStays
    <2> QED
      BY <1>9, <2>1 DEF AllInformed
  <1>13. AllAnswered'
    <2>1. ASSUME NEW c \in approved PROVE Answered(b, c)
      <3>1. Answered(a, c)
        BY <1>1 DEF AllAnswered
      <3> QED
        BY <1>5, <1>7, <3>1, ClearedStays
    <2> QED
      BY <1>9, <2>1 DEF AllAnswered
  <1>14. Shared'
    <2>1. PICK B : B = Asking
      OBVIOUS
    <2>2. B \in SUBSET Syncs /\ s \in B
      BY <2>1 DEF Asking
    <2>3. Asking' = B \ {s}
      BY <1>10, <2>1 DEF Asking
    <2>4. Fit(AskedIn(a), B)
      BY <1>1, <2>1 DEF Shared
    <2>5. PICK A : A = AskedIn(a)
      OBVIOUS
    <2>6. PICK m : m = Len(a) + 1
      OBVIOUS
    <2>7. IsFiniteSet(A)
      BY <1>5, <2>5, AskedIsFinite
    <2>8. Fit(A \cup {m}, B \ {s})
      BY <2>2, <2>4, <2>5, <2>7, FitMoves
    <2> QED
      BY <1>8, <1>9, <2>3, <2>5, <2>6, <2>8 DEF Shared
  <1> QED
    BY <1>11, <1>12, <1>13, <1>14

LEMMA ReadsInv ==
    ASSUME LabelsInv, NEW s \in Syncs, ReadTimeline(s) \/ ReadComments(s) \/ ReadState(s) \/ Decide(s)
    PROVE  LabelsInv'
  <1>1. PICK a : a = timeline
    OBVIOUS
  <1>2. PICK h : h = head
    OBVIOUS
  <1>3. PICK r : r = sync[s]
    OBVIOUS
  <1>4. /\ a \in Seq(Item) /\ HeadIsLast(a, h) /\ h \in Commits /\ threads \subseteq Thread
        /\ Informed(r, a) /\ \A c \in approved : Answered(timeline, c)
    BY <1>1, <1>2, <1>3 DEF LabelsInv, Shapes, AllInformed, AllAnswered
  <1>5. head' = head /\ threads' = threads /\ timeline' = timeline /\ approved' = approved
    BY DEF ReadTimeline, ReadComments, ReadState, Decide, Reads, request
  <1>6. SUFFICES \E x : /\ sync' = [sync EXCEPT ![s] = x] /\ Informed(x, a)
                        /\ MayAsk(x) => MayAsk(r) \/ AskedIn(a) = {}
    <2>1. PICK x : /\ sync' = [sync EXCEPT ![s] = x] /\ Informed(x, a)
                   /\ MayAsk(x) => MayAsk(r) \/ AskedIn(a) = {}
      BY <1>6
    <2>2. \A c \in approved' : Answered(timeline, c)
      BY <1>4, <1>5
    <2> QED
      BY <1>1, <1>3, <1>5, <2>1, <2>2, RunInv
  <1>7. CASE ReadTimeline(s)
    <2>1. PICK x : x = [pc |-> "comments", head |-> h, nodes |-> a]
      OBVIOUS
    <2>2. sync' = [sync EXCEPT ![s] = x]
      BY <1>1, <1>2, <1>7, <2>1 DEF ReadTimeline, Reads
    <2>3. Informed(x, a) /\ (MayAsk(x) => AskedIn(a) = {})
      BY <1>4, <2>1, TimelineStep
    <2> QED
      BY <2>2, <2>3
  <1>8. CASE ReadComments(s)
    <2>1. PICK found : found = threads
      OBVIOUS
    <2>2. PICK x : x = [pc |-> "state", head |-> r.head,
                        review |-> ReviewState(r.nodes, found, r.head),
                        news |-> HasNews(r.nodes, found, r.head)]
      OBVIOUS
    <2>3. sync' = [sync EXCEPT ![s] = x] /\ r.pc = "comments"
      BY <1>3, <1>8, <2>1, <2>2 DEF ReadComments, Reads
    <2>4. Informed(x, a) /\ (MayAsk(x) => MayAsk(r))
      BY <1>4, <2>1, <2>2, <2>3, CommentsStep
    <2> QED
      BY <2>3, <2>4
  <1>9. CASE ReadState(s)
    <2>1. PICK has, state, mergeable : has = labels /\ state = CheckState(checks[r.head]) /\ mergeable = merge
      OBVIOUS
    <2>2. PICK x : x = [pc |-> "threads", head |-> r.head, review |-> r.review, news |-> r.news,
                        has |-> has, checks |-> state, merge |-> mergeable]
      OBVIOUS
    <2>3. sync' = [sync EXCEPT ![s] = x] /\ r.pc = "state"
      BY <1>3, <1>9, <2>1, <2>2 DEF ReadState, Reads
    <2>4. Informed(x, a) /\ (MayAsk(x) => MayAsk(r))
      BY <1>4, <2>2, <2>3, StateStep
    <2> QED
      BY <2>3, <2>4
  <1>10. CASE Decide(s)
    <2>1. PICK open, held : open = (\E t \in threads : Concerns(t, r.head)) /\ held = Held(r.head)
      OBVIOUS
    <2>2. PICK approve \in BOOLEAN : approve = (r.review = "clean" /\ ~open /\ r.merge = "clean" /\ held)
      OBVIOUS
    <2>3. PICK ask \in BOOLEAN : ask = WantsReview(r)
      BY DEF WantsReview
    <2>4. PICK p : p = Change("ok", WantsOk(r, open), r)
                       \o Change("needs_work", WantsNeedsWork(r, open), r)
                       \o Change("legacy", FALSE, r)
      OBVIOUS
    <2>5. PICK c : c = r.head
      OBVIOUS
    <2>6. PICK x : x = Writing(p \o (IF approve THEN <<[op |-> "approve", oid |-> c]>> ELSE <<>>)
                                 \o (IF ask THEN <<[op |-> "ask"]>> ELSE <<>>))
      OBVIOUS
    <2>7. sync' = [sync EXCEPT ![s] = x] /\ r.pc = "threads"
      BY <1>3, <1>10, <2>1, <2>2, <2>3, <2>4, <2>5, <2>6, Zenon DEF Decide
    <2>8. p \in Seq(LabelWrite)
      <3>1. \A u, v \in Seq(LabelWrite) : u \o v \in Seq(LabelWrite)
        OBVIOUS
      <3> QED
        BY <2>4, <3>1, ChangeIs
    <2>9. c \in Commits /\ (approve => Answered(a, c))
      BY <1>4, <2>2, <2>5, <2>7 DEF Informed
    <2>10. Informed(x, a) /\ (MayAsk(x) => ask)
      BY <2>6, <2>8, <2>9, DecideStep
    <2>11. ask => MayAsk(r)
      BY <2>3, <2>7 DEF WantsReview, MayAsk
    <2> QED
      BY <2>7, <2>10, <2>11
  <1> QED
    BY <1>7, <1>8, <1>9, <1>10

LEMMA WritesInv ==
    ASSUME LabelsInv, NEW s \in Syncs, Write(s) \/ Denied(s) \/ Fails(s)
    PROVE  LabelsInv'
  <1>1. PICK a : a = timeline
    OBVIOUS
  <1>2. PICK r : r = sync[s]
    OBVIOUS
  <1>3. Informed(r, a) /\ \A c \in approved : Answered(timeline, c)
    BY <1>1, <1>2 DEF LabelsInv, AllInformed, AllAnswered
  <1>4. head' = head /\ threads' = threads
    BY DEF Write, Denied, Fails, request
  <1>5. CASE Fails(s)
    <2>1. /\ sync' = [sync EXCEPT ![s] = NoSync] /\ timeline' = timeline
          /\ \A c \in approved' : Answered(timeline, c)
      BY <1>3, <1>5 DEF Fails, request
    <2>2. PICK x : x = NoSync
      OBVIOUS
    <2>3. Informed(x, timeline) /\ ~MayAsk(x)
      BY <2>2, NoSyncStep
    <2> QED
      BY <1>4, <2>1, <2>2, <2>3, RunInv
  <1>6. CASE Write(s) \/ Denied(s)
    <2>1. PICK x : x = Writing(Tail(r.todo))
      OBVIOUS
    <2>2. sync' = [sync EXCEPT ![s] = x] /\ r.pc = "write"
      BY <1>2, <1>6, <2>1 DEF Write, Denied, Proceed
    <2>3. /\ Informed(x, a)
          /\ MayAsk(x) => MayAsk(r)
          /\ Head(r.todo) = AskWrite => ~MayAsk(x) /\ MayAsk(r)
      BY <1>3, <2>1, <2>2, TailStep
    <2>4. CASE Denied(s)
      <3>1. timeline' = timeline /\ \A c \in approved' : Answered(timeline, c)
        BY <1>3, <2>4 DEF Denied, request
      <3> QED
        BY <1>1, <1>2, <1>4, <2>2, <2>3, <3>1, RunInv
    <2>5. CASE Write(s)
      <3>1. PICK w : w = Head(r.todo)
        OBVIOUS
      <3>2. /\ approved' = IF w.op = "approve" THEN approved \cup {w.oid} ELSE approved
            /\ timeline' = IF w.op = "ask" THEN Append(timeline, RequestItem("script")) ELSE timeline
        BY <1>2, <2>5, <3>1 DEF Write, Approved
      <3>3. /\ w \in Quiet \cup {AskWrite} /\ (w.op = "approve" => Answered(a, w.oid))
        <4>1. PICK todo : todo = r.todo
          OBVIOUS
        <4>2. /\ todo \in Seq(Quiet \cup {AskWrite}) /\ todo # <<>>
              /\ \A k \in 1..Len(todo) : todo[k].op = "approve" => Answered(a, todo[k].oid)
          BY <1>3, <2>2, <4>1 DEF Informed
        <4>3. 1 \in 1..Len(todo) /\ w = todo[1] /\ todo[1] \in Quiet \cup {AskWrite}
          BY <3>1, <4>1, <4>2
        <4> QED
          BY <4>2, <4>3
      <3>4. w = AskWrite <=> w.op = "ask"
        BY <3>3 DEF Quiet, LabelWrite, ApproveWrite, AskWrite
      <3>5. CASE w.op = "ask"
        <4>1. approved' = approved /\ timeline' = Append(timeline, RequestItem("script"))
          BY <3>2, <3>5
        <4>2. MayAsk(sync[s]) /\ ~MayAsk(x)
          BY <1>2, <2>3, <3>1, <3>4, <3>5
        <4> QED
          BY <1>1, <1>4, <2>2, <2>3, <4>1, <4>2, AskInv
      <3>6. CASE w.op # "ask"
        <4>1. timeline' = timeline
          BY <3>2, <3>6
        <4>2. \A c \in approved' : Answered(timeline, c)
          BY <1>1, <1>3, <3>2, <3>3
        <4> QED
          BY <1>1, <1>2, <1>4, <2>2, <2>3, <4>1, <4>2, RunInv
      <3> QED
        BY <3>5, <3>6
    <2> QED
      BY <1>6, <2>4, <2>5
  <1> QED
    BY <1>5, <1>6

\* An item that is no head and no request of the script's is appended.
LEMMA AppendInv ==
    ASSUME LabelsInv, NEW n \in Item, n.kind # "head", ~ByScript(n),
           timeline' = Append(timeline, n), head' = head, sync' = sync, approved' = approved,
           threads' \subseteq Thread
    PROVE  LabelsInv'
  <1>1. PICK a : a = timeline
    OBVIOUS
  <1>2. PICK h : h = head
    OBVIOUS
  <1>3. PICK b : b = Append(a, n)
    OBVIOUS
  <1>4. a \in Seq(Item) /\ HeadIsLast(a, h) /\ h \in Commits
    BY <1>1, <1>2 DEF LabelsInv, Shapes
  <1>5. b \in Seq(Item) /\ Grown(a, b)
    BY <1>3, <1>4, AppendGrows
  <1>6. HeadIsLast(b, h) /\ AskedIn(b) = AskedIn(a)
    BY <1>3, <1>4, AppendOther
  <1>7. /\ head' \in Commits /\ timeline' \in Seq(Item) /\ Grown(timeline, timeline')
        /\ HeadIsLast(timeline', head') /\ AskedIn(timeline') = AskedIn(timeline)
    BY <1>1, <1>2, <1>3, <1>4, <1>5, <1>6
  <1> QED
    BY <1>7, EventInv

\* A step that leaves the timeline alone.
LEMMA StillInv ==
    ASSUME LabelsInv, timeline' = timeline, head' = head, sync' = sync, approved' = approved,
           threads' \subseteq threads
    PROVE  LabelsInv'
  <1>1. PICK a : a = timeline
    OBVIOUS
  <1>2. a \in Seq(Item)
    BY <1>1 DEF LabelsInv, Shapes
  <1>3. Grown(timeline, timeline')
    BY <1>1, <1>2, GrownSelf
  <1>4. /\ head' \in Commits /\ timeline' \in Seq(Item) /\ threads' \subseteq Thread
        /\ HeadIsLast(timeline', head') /\ AskedIn(timeline') = AskedIn(timeline)
    BY DEF LabelsInv, Shapes
  <1> QED
    BY <1>3, <1>4, EventInv

LEMMA EventsInv ==
    ASSUME LabelsInv,
           \/ \E h \in Commits : Push(h)
           \/ Ask
           \/ \E i \in 1..Len(timeline), reaction \in {"eyes", "+1"} : React(i, reaction)
           \/ \E clean \in BOOLEAN, about \in Commits : Comment(clean, about)
           \/ \E h \in Commits, finding, thread \in BOOLEAN : Review(h, finding, thread)
           \/ \E t \in threads : Resolve(t)
           \/ \E h \in Commits, c \in Checks \cup Others, state \in {"running", "success", "failure", "unknown"} :
                 CheckMoves(h, c, state)
           \/ \E state \in {"unknown", "clean", "blocked"} : MergeMoves(state)
    PROVE  LabelsInv'
  <1>1. PICK a : a = timeline
    OBVIOUS
  <1>2. PICK c : c = head
    OBVIOUS
  <1>3. a \in Seq(Item) /\ HeadIsLast(a, c) /\ c \in Commits /\ threads \subseteq Thread
    BY <1>1, <1>2 DEF LabelsInv, Shapes
  <1>4. ASSUME NEW h \in Commits, Push(h) PROVE LabelsInv'
    <2>1. PICK b : b = Append(a, HeadItem(h))
      OBVIOUS
    <2>2. b \in Seq(Item) /\ Grown(a, b)
      BY <1>3, <2>1, AppendGrows, ItemIs
    <2>3. HeadIsLast(b, h) /\ AskedIn(b) = {}
      BY <1>3, <2>1, AppendHead
    <2>4. head' = h /\ timeline' = b /\ sync' = sync /\ approved' = approved
      BY <1>1, <1>4, <2>1 DEF Push, Happens
    <2>5. threads' \subseteq Thread
      <3>1. PICK carried \in SUBSET threads : threads' = {[t EXCEPT !.now = h] : t \in carried}
        BY <1>4 DEF Push
      <3>2. \A t \in Thread : [t EXCEPT !.now = h] \in Thread
        BY DEF Thread
      <3> QED
        BY <1>3, <3>1, <3>2
    <2> QED
      BY <1>1, <2>2, <2>3, <2>4, <2>5, EventInv
  <1>5. ASSUME Ask PROVE LabelsInv'
    <2>1. PICK n : n = RequestItem("user")
      OBVIOUS
    <2>2. n \in Item /\ n.kind # "head" /\ ~ByScript(n)
      BY <2>1, ItemIs DEF RequestItem, ByScript
    <2>3. /\ timeline' = Append(timeline, n) /\ head' = head /\ sync' = sync /\ approved' = approved
          /\ threads' \subseteq Thread
      BY <1>3, <1>5, <2>1 DEF Ask, Happens
    <2> QED
      BY <2>2, <2>3, AppendInv
  <1>6. ASSUME NEW i \in 1..Len(timeline), NEW reaction \in {"eyes", "+1"}, React(i, reaction)
        PROVE  LabelsInv'
    <2>1. PICK b : b = [a EXCEPT ![i].reaction = reaction]
      OBVIOUS
    <2>2. i \in 1..Len(a) /\ a[i].kind = "request" /\ a[i].reaction # "+1"
      BY <1>1, <1>6 DEF React
    <2>3. b \in Seq(Item) /\ Grown(a, b) /\ HeadIsLast(b, c) /\ AskedIn(b) = AskedIn(a)
      BY <1>3, <2>1, <2>2, ReactKeeps
    <2>4. head' = head /\ timeline' = b /\ sync' = sync /\ approved' = approved /\ threads' = threads
      BY <1>1, <1>6, <2>1 DEF React, Happens
    <2>5. /\ head' \in Commits /\ timeline' \in Seq(Item) /\ Grown(timeline, timeline')
          /\ HeadIsLast(timeline', head') /\ AskedIn(timeline') = AskedIn(timeline)
          /\ threads' \subseteq Thread
      BY <1>1, <1>2, <1>3, <2>3, <2>4
    <2> QED
      BY <2>4, <2>5, EventInv
  <1>7. ASSUME NEW clean \in BOOLEAN, NEW about \in Commits, Comment(clean, about) PROVE LabelsInv'
    <2>1. PICK n : n = CommentItem(clean, about)
      OBVIOUS
    <2>2. n \in Item /\ n.kind = "comment"
      BY <2>1, ItemIs DEF CommentItem
    <2>3. n.kind # "head" /\ ~ByScript(n)
      BY <2>2 DEF ByScript
    <2>4. /\ timeline' = Append(timeline, n) /\ head' = head /\ sync' = sync /\ approved' = approved
          /\ threads' \subseteq Thread
      BY <1>3, <1>7, <2>1 DEF Comment, Happens
    <2> QED
      BY <2>2, <2>3, <2>4, AppendInv
  <1>8. ASSUME NEW h \in Commits, NEW finding \in BOOLEAN, NEW thread \in BOOLEAN, Review(h, finding, thread)
        PROVE  LabelsInv'
    <2>1. PICK n : n = ReviewItem(h, finding)
      OBVIOUS
    <2>2. n \in Item /\ n.kind = "review"
      BY <2>1, ItemIs DEF ReviewItem
    <2>3. n.kind # "head" /\ ~ByScript(n)
      BY <2>2 DEF ByScript
    <2>4. timeline' = Append(timeline, n) /\ head' = head /\ sync' = sync /\ approved' = approved
      BY <1>8, <2>1 DEF Review, Happens
    <2>5. Len(timeline') \in Nat
      BY <1>1, <1>3, <2>2, <2>4
    <2>6. [review |-> Len(timeline'), oid |-> h, now |-> h] \in Thread
      BY <2>5 DEF Thread
    <2>7. threads' \subseteq Thread
      BY <1>3, <1>8, <2>6 DEF Review
    <2> QED
      BY <2>2, <2>3, <2>4, <2>7, AppendInv
  <1>9. ASSUME NEW t \in threads, Resolve(t) PROVE LabelsInv'
    BY <1>9, StillInv DEF Resolve, Happens
  <1>10. ASSUME NEW h \in Commits, NEW k \in Checks \cup Others, NEW state, CheckMoves(h, k, state) PROVE LabelsInv'
    BY <1>10, StillInv DEF CheckMoves, Happens
  <1>11. ASSUME NEW state, MergeMoves(state) PROVE LabelsInv'
    BY <1>11, StillInv DEF MergeMoves, Happens
  <1> QED
    BY <1>4, <1>5, <1>6, <1>7, <1>8, <1>9, <1>10, <1>11

LEMMA NextInv == LabelsInv /\ [Next]_vars => LabelsInv'
  <1> SUFFICES ASSUME LabelsInv, [Next]_vars PROVE LabelsInv'
    OBVIOUS
  <1>1. ASSUME NEW s \in Syncs, Step(s) \/ Denied(s) \/ Fails(s) PROVE LabelsInv'
    BY <1>1, ReadsInv, WritesInv DEF Step
  <1>2. CASE UNCHANGED vars
    BY <1>2, StillInv DEF vars
  <1> QED
    BY <1>1, <1>2, EventsInv, Zenon DEF Next

LEMMA AlwaysInv == Spec => []LabelsInv
  BY InitInv, NextInv, PTL DEF Spec

-----------------------------------------------------------------------------
\* What the script promises

\* Since a push the runs of the script ask at most once each, however many
\* overlap and wherever they fail: a run that reads the timeline after a
\* request takes it for news (has_codex_news_after_current_head) and will not
\* ask, and a run that asks has nothing left to write.
THEOREM LabelsAskBounded == Spec => []AsksAreBounded
  <1>1. LabelsInv => AsksAreBounded
    <2> SUFFICES ASSUME LabelsInv PROVE AsksAreBounded
      OBVIOUS
    <2>1. PICK a : a = timeline
      OBVIOUS
    <2>2. PICK A : A = AskedIn(a)
      OBVIOUS
    <2>3. PICK B : B = Asking
      OBVIOUS
    <2>4. a \in Seq(Item) /\ Fit(A, B) /\ B \in SUBSET Syncs
      BY <2>1, <2>2, <2>3 DEF LabelsInv, Shapes, Shared, Asking
    <2>5. IsFiniteSet(A) /\ IsFiniteSet(Syncs)
      BY <2>2, <2>4, AskedIsFinite, LabelsAssumption
    <2>6. IsFiniteSet(B)
      BY <2>4, <2>5, FS_Subset
    <2>7. Cardinality(A) \in Nat /\ Cardinality(B) \in Nat /\ Cardinality(Syncs) \in Nat
      BY <2>5, <2>6, FS_CardinalityType
    <2>8. Cardinality(A) <= Cardinality(Syncs)
      <3>1. CASE A = {}
        BY <2>7, <3>1, FS_EmptySet
      <3>2. CASE A # {}
        BY <2>4, <2>7, <3>2 DEF Fit
      <3> QED
        BY <3>1, <3>2
    <2>9. {i \in Pushed + 1 .. Len(timeline) :
              timeline[i].kind = "request" /\ timeline[i].by = "script"} = A
      <3>1. Pushed = LastHead(a)
        BY <2>1, PushedIs
      <3>2. LastHead(a) \in 0..Len(a) /\ Len(a) \in Nat
        BY <2>4, LastHeadIs
      <3>3. \A i : i \in LastHead(a) + 1 .. Len(a) <=> i \in 1..Len(a) /\ i > LastHead(a)
        BY <3>2
      <3> QED
        BY <2>1, <2>2, <3>1, <3>3 DEF AskedIn, ByScript
    <2> QED
      BY <2>8, <2>9 DEF AsksAreBounded
  <1> QED
    BY <1>1, AlwaysInv, PTL

\* Every commit whose workflow runs the script approved was cleared by Codex
\* since it was pushed, or a clean comment about another commit has come since
\* then: the approval carries the commit the run has read
\* (approve_workflow_runs), so a push in between approves nothing that was not
\* answered.
THEOREM LabelsApproveCleared == Spec => []ApprovedWasCleared
  <1>1. LabelsInv => ApprovedWasCleared
    <2> SUFFICES ASSUME LabelsInv, NEW h \in approved
                 PROVE  Cleared(timeline, h) \/ LateAnswer(timeline, h)
      BY DEF ApprovedWasCleared
    <2>1. PICK a : a = timeline
      OBVIOUS
    <2>2. PICK i, j \in 1..Len(a) : i < j /\ a[i] = HeadItem(h) /\ Answer(a[j], h)
      BY <2>1 DEF LabelsInv, AllAnswered, Answered
    <2>3. CASE \E about \in Commits \ {h} : a[j] = CommentItem(TRUE, about)
      BY <2>1, <2>2, <2>3 DEF LateAnswer
    <2>4. CASE ~\E about \in Commits \ {h} : a[j] = CommentItem(TRUE, about)
      <3>1. \/ a[j].kind = "request" /\ a[j].reaction = "+1"
            \/ a[j] \in {CommentItem(TRUE, h), ReviewItem(h, FALSE)}
        BY <2>2, <2>4 DEF Answer
      <3> QED
        BY <2>1, <2>2, <3>1 DEF Cleared
    <2> QED
      BY <2>3, <2>4
  <1> QED
    BY <1>1, AlwaysInv, PTL

=============================================================================
