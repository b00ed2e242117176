---------------------------- MODULE AgentProofs ----------------------------
(***************************************************************************)
(* What one call of solve keeps, for every checkout, every reply of the    *)
(* model and every bound on the prompt and the plan.                       *)
(***************************************************************************)
EXTENDS AgentSolve, Sums, TLAPS

NoRelease(items) == \A i \in DOMAIN items : ~IsPlannedRelease(items[i])

\* The context is that of the checkout, and so is what the prompts show of it.
Loaded ==
    pc \notin {"load", "failed", "reviewed"} =>
        /\ checkout \in Checkouts
        /\ ctx = LoadContext(checkout)
        /\ ~LoadFails(checkout)
        /\ prompt = RenderPromptContext(ctx)

\* Nothing has been planned yet.
Fresh == pc \in {"load", "philosophy", "plan"} => plan = <<>> /\ notes = {}

Planned == pc \in {"filter", "backfill", "reconcile"} => ctx.object

\* No loop lets a release back in that an earlier one has dropped.
PlanFitsTiming ==
    Timing = "suppress" =>
        /\ NoRelease(plan)
        /\ pc \in {"backfill", "reconcile"} => NoRelease(todo)
        /\ \A note \in notes : note.topic \notin {"release", "bump"}
        /\ pc = "done" => decision.bump = "none"

IInv ==
    /\ checkout \in Checkouts
    /\ TypeOK /\ Loaded /\ Fresh /\ Planned /\ PlanFitsTiming /\ BumpFromWholeHistory

-----------------------------------------------------------------------------
(* The operators.                                                          *)

LEMMA KindsAreWords == Items(PlanKinds) \subseteq Items(Words)
  BY WordsAssumption DEF Items

LEMMA NormalizedItems ==
  ASSUME NEW item \in Items(Words)
  PROVE  NormalizePlanItem(item) \in Items(PlanKinds)
<1>1. \A t \in CcTypes : PlanKindOf[t] \in PlanKinds
  BY DEF CcTypes, PlanKindOf, PlanKinds
<1>2. NormalizedKind(item.kind) \in PlanKinds
  BY <1>1 DEF NormalizedKind, PlanKinds
<1> QED
  BY <1>2 DEF NormalizePlanItem, Items

\* Naming files changes nothing that a prediction of a release is read from.
LEMMA BackfilledItem ==
  ASSUME NEW item \in Items(PlanKinds), NEW c \in Contexts, NEW done, NEW rest
  PROVE  /\ Backfilled(item, done, rest, c) \in Items(PlanKinds)
         /\ IsPlannedRelease(Backfilled(item, done, rest, c)) <=> IsPlannedRelease(item)
<1>1. \A k \in DOMAIN c.layout : c.layout[k].name \in Words
  <2>1. c.layout \in Seq(Entries)
    BY DEF Contexts
  <2>2. \A k \in DOMAIN c.layout : c.layout[k] \in Entries
    BY <2>1
  <2> QED
    BY <2>2 DEF Entries
<1> DEFINE names == {c.layout[k].name : k \in MatchingEntries(item, c)}
<1>f. IsFiniteSet(names) /\ names \subseteq Words
  <2>1. MatchingEntries(item, c) \subseteq 1 .. Len(c.layout) /\ Len(c.layout) \in Nat
    BY DEF MatchingEntries, PlainEntries, Contexts
  <2> DEFINE D == 1 .. Len(c.layout)
             M == MatchingEntries(item, c)
             f == [k \in M |-> c.layout[k].name]
  <2>2. IsFiniteSet(D)
    BY <2>1, FS_Interval
  <2>3. IsFiniteSet(M)
    <3>1. M \in SUBSET D
      BY <2>1
    <3> HIDE DEF M, D
    <3> QED
      BY <2>2, <3>1, FS_Subset
  <2>4. f \in Surjection(M, names)
    BY DEF Surjection
  <2>5. IsFiniteSet(names)
    <3> HIDE DEF M, f, names
    <3> QED
      BY <2>3, <2>4, FS_Surjection
  <2> QED
    BY <1>1, <2>5 DEF MatchingEntries, PlainEntries
<1>2. WithFiles(item, c) \in Items(PlanKinds)
  <2>1. WithFiles(item, c) = [item EXCEPT !.files = names]
    BY DEF WithFiles
  <2> HIDE DEF names
  <2> QED
    BY <1>f, <2>1 DEF Items
<1>3. WithFiles(item, c).kind = item.kind /\ WithFiles(item, c).title = item.title
  BY DEF WithFiles, Items
<1>4. IsPlannedRelease(WithFiles(item, c)) <=> IsPlannedRelease(item)
  BY <1>3 DEF IsPlannedRelease
<1> QED
  BY <1>2, <1>4 DEF Backfilled

LEMMA PlainTyped == PlainSubject \in Subjects /\ NoText \in Texts
<1>1. "" \in Words /\ "none" \in Words
  BY WordsAssumption
<1>2. PlainSubject \in Subjects
  BY <1>1 DEF PlainSubject, Subjects
<1>3. <<>> \in Seq(Refs) /\ {} \in SUBSET Words /\ NoNumber \in Nat
  BY DEF NoNumber
<1> QED
  BY <1>1, <1>2, <1>3, Zenon DEF NoText, Texts

LEMMA PrRefTyped ==
  ASSUME NEW number \in Nat
  PROVE  PrRef(number) \in Seq(Refs)
<1>1. [qualified |-> TRUE, number |-> number] \in Refs
  BY DEF Refs
<1> QED
  BY <1>1 DEF PrRef

\* An item that is turned into a review predicts no release.
LEMMA RestatingItem ==
  ASSUME NEW item \in Items(PlanKinds), NEW pr \in PullRequests
  PROVE  /\ Restating(item, pr) \in Items(PlanKinds)
         /\ ~IsPlannedRelease(Restating(item, pr))
<1>1. pr.number \in Nat
  BY DEF PullRequests
<1>2. [NoText EXCEPT !.refs = PrRef(pr.number)] \in Texts
  BY <1>1, PlainTyped, PrRefTyped DEF Texts
<1>3. item.size + ReviewSize \in Nat
  BY PlanAssumption DEF Items
<1>4. "triage" \in PlanKinds
  BY DEF PlanKinds
<1>5. Restating(item, pr) \in Items(PlanKinds)
  BY <1>1, <1>2, <1>3, <1>4 DEF Restating, Items
<1>6. Restating(item, pr).kind = "triage"
  BY DEF Restating, Items
<1> QED
  BY <1>5, <1>6 DEF IsPlannedRelease

LEMMA NoFiles == {} \in {f \in SUBSET Words : IsFiniteSet(f)}
  BY FS_EmptySet

LEMMA ReviewItemTyped ==
  ASSUME NEW pr, pr.number \in Nat, pr.title \in Texts
  PROVE  /\ ReviewItem(pr) \in Items(PlanKinds)
         /\ ~IsPlannedRelease(ReviewItem(pr))
<1>0. pr.title.refs \in Seq(Refs) /\ PrRef(pr.number) \in Seq(Refs)
  BY PrRefTyped DEF Texts
<1>1. PrRef(pr.number) \o pr.title.refs \in Seq(Refs)
  BY <1>0
<1>2. [PlainSubject EXCEPT !.word = pr.title.subject.word] \in Subjects
  BY PlainTyped DEF Texts, Subjects
<1> DEFINE title == ReviewItem(pr).title
<1>3. title \in Texts
  BY <1>1, <1>2 DEF ReviewItem, Texts
<1>4. "triage" \in PlanKinds
  BY DEF PlanKinds
<1>5. ReviewItem(pr) \in Items(PlanKinds)
  <2>1. {"queue"} \in SUBSET Words
    BY WordsAssumption
  <2> QED
    BY <1>3, <1>4, <2>1, NoFiles, PlainTyped, PlanAssumption DEF ReviewItem, Items, NoNumber
<1> QED
  BY <1>5 DEF IsPlannedRelease, ReviewItem

LEMMA StubTyped ==
  ASSUME NEW prs \in Seq(PullRequests)
  PROVE  /\ OfflinePlanStub(prs) \in Seq(Items(PlanKinds))
         /\ Len(OfflinePlanStub(prs)) <= N
         /\ NoRelease(OfflinePlanStub(prs))
<1> DEFINE items == [k \in DOMAIN prs |-> ReviewItem(prs[k])]
           nobody == [number |-> NoNumber, title |-> NoText]
           idle == [ReviewItem(nobody) EXCEPT !.title = NoText, !.theme = {}]
<1>n. N \in Nat
  BY PlanAssumption
<1>1. ASSUME NEW k \in 1 .. Len(prs)
      PROVE  ReviewItem(prs[k]) \in Items(PlanKinds) /\ ~IsPlannedRelease(ReviewItem(prs[k]))
  <2>1. prs[k] \in PullRequests
    OBVIOUS
  <2>2. prs[k].number \in Nat /\ prs[k].title \in Texts
    BY <2>1 DEF PullRequests
  <2> QED
    BY <2>2, ReviewItemTyped
<1>2. items \in Seq(Items(PlanKinds)) /\ Len(items) = Len(prs)
  <2>1. items = [k \in 1 .. Len(prs) |-> ReviewItem(prs[k])]
    OBVIOUS
  <2>2. \A k \in 1 .. Len(prs) : ReviewItem(prs[k]) \in Items(PlanKinds)
    BY <1>1
  <2> HIDE DEF items
  <2> QED
    BY <2>1, <2>2
<1>3. ReviewItem(nobody) \in Items(PlanKinds) /\ ReviewItem(nobody).kind = "triage"
  BY ReviewItemTyped, PlainTyped DEF NoNumber, ReviewItem
<1>4. idle \in Items(PlanKinds) /\ ~IsPlannedRelease(idle)
  BY <1>3, PlainTyped DEF Items, IsPlannedRelease
<1>5. CASE items = <<>>
  <2>1. OfflinePlanStub(prs) = SubSeq(<<idle>>, 1, Lesser(1, N))
    BY <1>5 DEF OfflinePlanStub
  <2> HIDE DEF idle
  <2> QED
    BY <1>4, <1>n, <2>1 DEF Lesser, NoRelease
<1>6. CASE items # <<>>
  <2>1. OfflinePlanStub(prs) = SubSeq(items, 1, Lesser(Len(items), N))
    BY <1>6 DEF OfflinePlanStub
  <2>2. \A k \in 1 .. Len(prs) : ~IsPlannedRelease(items[k])
    BY <1>1
  <2> HIDE DEF items
  <2> QED
    BY <1>2, <1>n, <2>1, <2>2 DEF Lesser, NoRelease
<1> QED
  BY <1>5, <1>6

-----------------------------------------------------------------------------
(* The folds of the plan and of the queue.                                 *)

LEMMA LargestIsMax ==
  \A s : Max(s) = Largest(s) /\ s \ {Max(s)} = Lower(s)
  BY DEF Max, Largest, Lower

\* The step of a fold over a sequence.
SizeStep(items) ==
  [iv \in (1 .. Len(items)) \X Int |-> iv[2] + ItemSize(items[iv[1]])]
QueueStep(prs) ==
  [iv \in (1 .. Len(prs)) \X Seq(PullRequests) |->
      IF prs[iv[1]].titled THEN Append(iv[2], prs[iv[1]]) ELSE iv[2]]

\* The recursions of the two folds.
AreSizes(g, items) ==
  g = [s \in SUBSET DOMAIN items |->
          IF s = {} THEN 0 ELSE LET x == Max(s) IN g[s \ {x}] + ItemSize(items[x])]
AreQueues(g, prs) ==
  g = [s \in SUBSET DOMAIN prs |->
          IF s = {} THEN <<>>
          ELSE LET x == Max(s)
               IN  IF prs[x].titled THEN Append(g[s \ {x}], prs[x]) ELSE g[s \ {x}]]

LEMMA ItemSizeTyped ==
  ASSUME NEW item \in Items(Words)
  PROVE  ItemSize(item) \in Nat
<1>1. item.size \in Nat /\ IsFiniteSet(item.files)
  BY DEF Items
<1>2. Cardinality(item.files) \in Nat
  BY <1>1, FS_CardinalityType
<1> QED
  BY <1>1, <1>2, PlanAssumption DEF ItemSize

\* The length of a plan is that of its prefixes, one item after the other.
LEMMA SizeOfPrefixes ==
  ASSUME NEW items \in Seq(Items(Words))
  PROVE  FoldsTo(PlanSize(items), Len(items), 0, SizeStep(items), Int)
<1> DEFINE n == Len(items)
           step == SizeStep(items)
           g == CHOOSE h : AreSizes(h, items)
<1>1. n \in Nat /\ DOMAIN items = 1 .. n /\ \A i \in 1 .. n : ItemSize(items[i]) \in Int
  BY ItemSizeTyped
<1>2. /\ step \in [(1 .. n) \X Int -> Int]
      /\ \A i \in 1 .. n, v \in Int : step[<<i, v>>] = v + ItemSize(items[i])
  BY <1>1 DEF SizeStep
<1> HIDE DEF n, step
<1>z. 0 \in Int
  OBVIOUS
<1>3. PICK folds : IsFold(folds, n, 0, step, Int)
  <2>1. \E folds : IsFold(folds, n, 0, step, Int)
    BY <1>1, <1>2, <1>z, FoldExists, Zenon
  <2> QED
    BY <2>1
<1>4. AreSizes(folds, items)
  <2>1. /\ folds \in [SUBSET (1 .. n) -> Int]
        /\ folds = [s \in SUBSET (1 .. n) |->
                       IF s = {} THEN 0 ELSE step[<<Largest(s), folds[Lower(s)]>>]]
    BY <1>3 DEF IsFold
  <2>2. ASSUME NEW s \in SUBSET (1 .. n), s # {}
        PROVE  step[<<Largest(s), folds[Lower(s)]>>]
                   = folds[s \ {Max(s)}] + ItemSize(items[Max(s)])
    <3>1. Largest(s) \in 1 .. n /\ Lower(s) \in SUBSET (1 .. n)
      BY <1>1, <2>2, LargestIndex
    <3> QED
      BY <1>2, <2>1, <3>1, LargestIsMax
  <2>3. \A s \in SUBSET (1 .. n) :
           (IF s = {} THEN 0 ELSE step[<<Largest(s), folds[Lower(s)]>>])
               = (IF s = {} THEN 0 ELSE folds[s \ {Max(s)}] + ItemSize(items[Max(s)]))
    BY <2>2
  <2> QED
    BY <1>1, <2>1, <2>3, Zenon DEF AreSizes
<1>5. AreSizes(g, items)
  BY <1>4
<1>6. PlanSize(items) = g[1 .. n]
  BY <1>1 DEF PlanSize, FoldLeft, MapThenFoldSet, AreSizes
<1> HIDE DEF g
<1>7. g[{}] = 0
  BY <1>5 DEF AreSizes
<1>8. ASSUME NEW s \in SUBSET (1 .. n), s # {}, g[Lower(s)] \in Int
      PROVE  g[s] = step[<<Largest(s), g[Lower(s)]>>]
  <2>1. g[s] = g[Lower(s)] + ItemSize(items[Largest(s)])
    BY <1>1, <1>5, <1>8, LargestIsMax DEF AreSizes
  <2>2. Largest(s) \in 1 .. n
    BY <1>1, <1>8, LargestIndex
  <2> QED
    BY <1>2, <1>8, <2>1, <2>2
<1>s. Recurs(g, n, 0, step, Int)
  BY <1>7, <1>8 DEF Recurs
<1>9. FoldsTo(g[1 .. n], n, 0, step, Int)
  <2>1. n \in Nat /\ step \in [(1 .. n) \X Int -> Int]
    BY <1>1, <1>2
  <2> QED
    BY <1>z, <1>s, <2>1, FoldOfPrefixes, Zenon
<1> QED
  BY <1>6, <1>9 DEF n, step

\* The queue is that of the prefixes of the list, one pull request after the other.
LEMMA QueueOfPrefixes ==
  ASSUME NEW prs \in Seq(PullRequests)
  PROVE  FoldsTo(Titled(prs), Len(prs), <<>>, QueueStep(prs), Seq(PullRequests))
<1> DEFINE n == Len(prs)
           V == Seq(PullRequests)
           step == QueueStep(prs)
           g == CHOOSE h : AreQueues(h, prs)
           Longer(i, v) == IF prs[i].titled THEN Append(v, prs[i]) ELSE v
<1>1. n \in Nat /\ DOMAIN prs = 1 .. n /\ <<>> \in V
  OBVIOUS
<1>2. /\ step \in [(1 .. n) \X V -> V]
      /\ \A i \in 1 .. n, v \in V : step[<<i, v>>] = Longer(i, v)
  BY DEF QueueStep
<1> HIDE DEF n, step, V
<1>3. PICK folds : IsFold(folds, n, <<>>, step, V)
  BY <1>1, <1>2, FoldExists
<1>4. AreQueues(folds, prs)
  <2>1. /\ folds \in [SUBSET (1 .. n) -> V]
        /\ folds = [s \in SUBSET (1 .. n) |->
                       IF s = {} THEN <<>> ELSE step[<<Largest(s), folds[Lower(s)]>>]]
    BY <1>3 DEF IsFold
  <2>2. ASSUME NEW s \in SUBSET (1 .. n), s # {}
        PROVE  step[<<Largest(s), folds[Lower(s)]>>] = Longer(Max(s), folds[s \ {Max(s)}])
    <3>1. Largest(s) \in 1 .. n /\ Lower(s) \in SUBSET (1 .. n)
      BY <1>1, <2>2, LargestIndex
    <3> HIDE DEF Longer
    <3> QED
      BY <1>2, <2>1, <3>1, LargestIsMax
  <2>3. \A s \in SUBSET (1 .. n) :
           (IF s = {} THEN <<>> ELSE step[<<Largest(s), folds[Lower(s)]>>])
               = (IF s = {} THEN <<>> ELSE Longer(Max(s), folds[s \ {Max(s)}]))
    BY <2>2
  <2> QED
    BY <1>1, <2>1, <2>3, Zenon DEF AreQueues
<1>5. AreQueues(g, prs)
  BY <1>4
<1>6. Titled(prs) = g[1 .. n]
  BY <1>1 DEF Titled, FoldLeft, MapThenFoldSet, AreQueues
<1> HIDE DEF g
<1>7. g[{}] = <<>>
  BY <1>5 DEF AreQueues
<1>8. ASSUME NEW s \in SUBSET (1 .. n), s # {}, g[Lower(s)] \in V
      PROVE  g[s] = step[<<Largest(s), g[Lower(s)]>>]
  <2>1. g[s] = Longer(Largest(s), g[Lower(s)])
    BY <1>1, <1>5, <1>8, LargestIsMax DEF AreQueues
  <2>2. Largest(s) \in 1 .. n
    BY <1>1, <1>8, LargestIndex
  <2> HIDE DEF Longer
  <2> QED
    BY <1>2, <1>8, <2>1, <2>2
<1>s. Recurs(g, n, <<>>, step, V)
  BY <1>7, <1>8 DEF Recurs
<1>9. FoldsTo(g[1 .. n], n, <<>>, step, V)
  <2>1. n \in Nat /\ <<>> \in V /\ step \in [(1 .. n) \X V -> V]
    BY <1>1, <1>2
  <2> QED
    BY <1>s, <2>1, FoldOfPrefixes, Zenon
<1> QED
  BY <1>6, <1>9 DEF n, step, V

\* The lengths of the prefixes of a plan.
AreSizesOf(sizes, items) ==
  /\ sizes \in [0 .. Len(items) -> Int]
  /\ sizes[0] = 0
  /\ \A i \in 1 .. Len(items) : sizes[i] = sizes[i - 1] + ItemSize(items[i])
  /\ sizes[Len(items)] = PlanSize(items)

LEMMA PlanSizes ==
  ASSUME NEW items \in Seq(Items(Words))
  PROVE  /\ \E sizes : AreSizesOf(sizes, items)
         /\ PlanSize(items) \in Int
<1> DEFINE n == Len(items)
<1>1. PICK sizes : /\ ArePrefixFolds(sizes, n, 0, SizeStep(items), Int)
                   /\ sizes[n] = PlanSize(items)
  BY SizeOfPrefixes DEF FoldsTo
<1>2. n \in Nat
  OBVIOUS
<1> HIDE DEF n
<1>3. ASSUME NEW i \in 1 .. n PROVE sizes[i] = sizes[i - 1] + ItemSize(items[i])
  <2>1. i - 1 \in 0 .. n
    BY <1>2
  <2>2. sizes[i - 1] \in Int /\ sizes[i] = SizeStep(items)[<<i, sizes[i - 1]>>]
    BY <1>1, <2>1 DEF ArePrefixFolds
  <2> QED
    BY <2>2 DEF SizeStep, n
<1>4. sizes \in [0 .. n -> Int] /\ sizes[0] = 0
  BY <1>1 DEF ArePrefixFolds
<1> QED
  BY <1>1, <1>2, <1>3, <1>4 DEF AreSizesOf, n

LEMMA SizeOfConcat ==
  ASSUME NEW a \in Seq(Items(Words)), NEW b \in Seq(Items(Words))
  PROVE  PlanSize(a \o b) = PlanSize(a) + PlanSize(b)
<1> DEFINE ab == a \o b
           m == Len(a)
           n == Len(b)
<1>1. /\ ab \in Seq(Items(Words)) /\ Len(ab) = m + n /\ m \in Nat /\ n \in Nat
      /\ \A i \in 1 .. m : ab[i] = a[i]
      /\ \A i \in 1 .. n : ab[m + i] = b[i]
  OBVIOUS
<1> HIDE DEF ab, m, n
<1>2. PICK p : AreSizesOf(p, a)
  BY PlanSizes
<1>3. PICK q : AreSizesOf(q, b)
  BY PlanSizes
<1>4. PICK r : AreSizesOf(r, ab)
  BY <1>1, PlanSizes
<1> USE DEF AreSizesOf
<1> DEFINE S == {i \in Nat : i <= m => r[i] = p[i]}
           T == {i \in Nat : i <= n => r[m + i] = p[m] + q[i]}
<1>5. 0 \in S
  BY <1>2, <1>4 DEF m
<1>6. ASSUME NEW i \in Nat, i \in S PROVE i + 1 \in S
  <2>1. ASSUME i + 1 <= m PROVE r[i + 1] = p[i + 1]
    <3>1. i + 1 \in 1 .. m /\ i + 1 \in 1 .. Len(ab) /\ (i + 1) - 1 = i
      BY <1>1, <2>1
    <3>2. r[i + 1] = r[i] + ItemSize(ab[i + 1]) /\ p[i + 1] = p[i] + ItemSize(a[i + 1])
      BY <1>2, <1>4, <3>1 DEF m
    <3> QED
      BY <1>1, <1>6, <2>1, <3>1, <3>2
  <2> QED
    BY <2>1
<1>7. Nat \subseteq S
  <2> HIDE DEF S
  <2> QED
    BY <1>5, <1>6, NatSetInduction
<1>8. p[m] \in Int /\ r[m] = p[m]
  BY <1>1, <1>2, <1>7 DEF m
<1>9. 0 \in T
  BY <1>1, <1>3, <1>8 DEF n
<1>10. ASSUME NEW i \in Nat, i \in T PROVE i + 1 \in T
  <2>1. ASSUME i + 1 <= n PROVE r[m + (i + 1)] = p[m] + q[i + 1]
    <3>1. /\ i + 1 \in 1 .. n /\ (i + 1) - 1 = i /\ i \in 0 .. n
          /\ m + (i + 1) \in 1 .. Len(ab) /\ (m + (i + 1)) - 1 = m + i
      BY <1>1, <2>1
    <3>2. r[m + (i + 1)] = r[m + i] + ItemSize(b[i + 1])
      <4>1. ab[m + (i + 1)] = b[i + 1]
        BY <1>1, <3>1
      <4> QED
        BY <1>4, <3>1, <4>1
    <3>3. q[i + 1] = q[i] + ItemSize(b[i + 1]) /\ q[i] \in Int
      BY <1>3, <3>1 DEF n
    <3>4. ItemSize(b[i + 1]) \in Int
      BY <3>1, ItemSizeTyped DEF n
    <3>5. r[m + i] = p[m] + q[i]
      BY <1>1, <1>10, <2>1
    <3> DEFINE x == r[m + (i + 1)]
               y == r[m + i]
               z == q[i + 1]
    <3> HIDE DEF x, y, z
    <3>6. x = y + ItemSize(b[i + 1]) /\ y = p[m] + q[i] /\ z = q[i] + ItemSize(b[i + 1])
      BY <3>2, <3>3, <3>5 DEF x, y, z
    <3>7. x = p[m] + z
      BY <1>8, <3>3, <3>4, <3>6
    <3> QED
      BY <3>7 DEF x, z
  <2> QED
    BY <2>1
<1>11. Nat \subseteq T
  <2> HIDE DEF T
  <2> QED
    BY <1>9, <1>10, NatSetInduction
<1>12. r[m + n] = p[m] + q[n]
  BY <1>1, <1>11
<1> QED
  BY <1>1, <1>2, <1>3, <1>4, <1>12 DEF m, n, ab

LEMMA SizeOfOne ==
  ASSUME NEW item \in Items(Words)
  PROVE  PlanSize(<<item>>) = ItemSize(item)
<1>1. <<item>> \in Seq(Items(Words)) /\ Len(<<item>>) = 1 /\ <<item>>[1] = item
  OBVIOUS
<1>2. PICK sizes : AreSizesOf(sizes, <<item>>)
  BY <1>1, PlanSizes
<1> DEFINE items == <<item>>
<1> HIDE DEF items
<1>3. sizes[0] = 0 /\ sizes[1] = sizes[1 - 1] + ItemSize(item) /\ sizes[1] = PlanSize(<<item>>)
  BY <1>1, <1>2 DEF AreSizesOf
<1>4. ItemSize(item) \in Nat
  BY ItemSizeTyped
<1> QED
  BY <1>3, <1>4

\* Taking an item over, as it is or another one in its place.
LEMMA SizeOfNext ==
  ASSUME NEW done \in Seq(Items(Words)), NEW item \in Items(Words),
         NEW rest \in Seq(Items(Words))
  PROVE  PlanSize(Append(done, item) \o rest)
             = PlanSize(done) + ItemSize(item) + PlanSize(rest)
<1>1. Append(done, item) = done \o <<item>> /\ <<item>> \in Seq(Items(Words))
  OBVIOUS
<1>2. PlanSize(Append(done, item)) = PlanSize(done) + ItemSize(item)
  BY <1>1, SizeOfConcat, SizeOfOne
<1>3. Append(done, item) \in Seq(Items(Words))
  OBVIOUS
<1> QED
  BY <1>2, <1>3, SizeOfConcat

\* Of two lists with the same titles, the queues are of one length.
LEMMA QueueOfSameTitles ==
  ASSUME NEW a \in Seq(PullRequests), NEW b \in Seq(PullRequests), Len(a) = Len(b),
         \A i \in 1 .. Len(a) : a[i].titled = b[i].titled
  PROVE  Len(Titled(a)) = Len(Titled(b))
<1> DEFINE n == Len(a)
           V == Seq(PullRequests)
<1>0. n \in Nat /\ n = Len(b)
  OBVIOUS
<1>1. PICK p : ArePrefixFolds(p, n, <<>>, QueueStep(a), V) /\ p[n] = Titled(a)
  BY QueueOfPrefixes DEF FoldsTo
<1>2. PICK q : ArePrefixFolds(q, n, <<>>, QueueStep(b), V) /\ q[n] = Titled(b)
  BY <1>0, QueueOfPrefixes DEF FoldsTo
<1> DEFINE S == {i \in Nat : i <= n => Len(p[i]) = Len(q[i])}
<1>3. 0 \in S
  BY <1>1, <1>2 DEF ArePrefixFolds
<1>4. ASSUME NEW i \in Nat, i \in S PROVE i + 1 \in S
  <2>1. ASSUME i + 1 <= n PROVE Len(p[i + 1]) = Len(q[i + 1])
    <3>1. i + 1 \in 1 .. n /\ (i + 1) - 1 = i /\ i \in 0 .. n
      BY <1>0, <2>1
    <3> DEFINE j == i + 1
    <3>2. /\ p[i] \in V /\ q[i] \in V
          /\ p[j] = QueueStep(a)[<<j, p[i]>>] /\ q[j] = QueueStep(b)[<<j, q[i]>>]
      BY <1>1, <1>2, <3>1 DEF ArePrefixFolds
    <3>3. /\ p[j] = IF a[j].titled THEN Append(p[i], a[j]) ELSE p[i]
          /\ q[j] = IF b[j].titled THEN Append(q[i], b[j]) ELSE q[i]
      BY <1>0, <3>1, <3>2 DEF QueueStep
    <3>4. a[j].titled = b[j].titled /\ Len(p[i]) = Len(q[i])
      BY <1>4, <2>1, <3>1
    <3> HIDE DEF j
    <3> QED
      BY <3>2, <3>3, <3>4 DEF j
  <2> QED
    BY <2>1
<1>5. n \in S
  <2> HIDE DEF S
  <2> QED
    BY <1>0, <1>3, <1>4, NatSetInduction
<1> QED
  BY <1>0, <1>1, <1>2, <1>5

LEMMA QueueTyped ==
  ASSUME NEW c \in Contexts
  PROVE  PrQueue(c) \in Seq(PullRequests)
<1>1. SafePrs(c) \in Seq(PullRequests)
  BY DEF SafePrs, Contexts
<1>2. PICK queues : /\ ArePrefixFolds(queues, Len(SafePrs(c)), <<>>, QueueStep(SafePrs(c)),
                                      Seq(PullRequests))
                    /\ queues[Len(SafePrs(c))] = Titled(SafePrs(c))
  BY <1>1, QueueOfPrefixes DEF FoldsTo
<1>3. Len(SafePrs(c)) \in 0 .. Len(SafePrs(c))
  BY <1>1
<1> QED
  BY <1>2, <1>3 DEF PrQueue, ArePrefixFolds

EvidenceStep(items) ==
  [iv \in (1 .. Len(items)) \X Seq(Nat) |->
      IF items[iv[1]] = Unknown THEN iv[2]
      ELSE Append(iv[2], Lesser(items[iv[1]], EvidenceLimit))]
AreUsable(g, items) ==
  g = [s \in SUBSET DOMAIN items |->
          IF s = {} THEN <<>>
          ELSE LET x == Max(s)
               IN  IF items[x] = Unknown THEN g[s \ {x}]
                   ELSE Append(g[s \ {x}], Lesser(items[x], EvidenceLimit))]

\* The evidence that is kept has a length, each of it and in sum.
LEMMA UsableTyped ==
  ASSUME NEW items \in Seq(Nat \cup {Unknown})
  PROVE  UsableEvidence(items) \in Seq(Nat)
<1> DEFINE n == Len(items)
           V == Seq(Nat)
           step == EvidenceStep(items)
           g == CHOOSE h : AreUsable(h, items)
           Longer(i, v) == IF items[i] = Unknown THEN v
                           ELSE Append(v, Lesser(items[i], EvidenceLimit))
<1>1. /\ n \in Nat /\ DOMAIN items = 1 .. n /\ <<>> \in V
      /\ \A i \in 1 .. n : items[i] # Unknown => Lesser(items[i], EvidenceLimit) \in Nat
  BY PromptAssumption DEF Lesser
<1>2. /\ step \in [(1 .. n) \X V -> V]
      /\ \A i \in 1 .. n, v \in V : step[<<i, v>>] = Longer(i, v)
  <2>1. ASSUME NEW i \in 1 .. n, NEW v \in V PROVE Longer(i, v) \in V
    BY <1>1
  <2>2. step = [iv \in (1 .. n) \X V |-> Longer(iv[1], iv[2])]
    BY DEF EvidenceStep
  <2> HIDE DEF step, V, n, Longer
  <2> QED
    BY <2>1, <2>2
<1> HIDE DEF n, step, V
<1>3. PICK folds : IsFold(folds, n, <<>>, step, V)
  BY <1>1, <1>2, FoldExists
<1>4. AreUsable(folds, items)
  <2>1. /\ folds \in [SUBSET (1 .. n) -> V]
        /\ folds = [s \in SUBSET (1 .. n) |->
                       IF s = {} THEN <<>> ELSE step[<<Largest(s), folds[Lower(s)]>>]]
    BY <1>3 DEF IsFold
  <2>2. ASSUME NEW s \in SUBSET (1 .. n), s # {}
        PROVE  step[<<Largest(s), folds[Lower(s)]>>] = Longer(Max(s), folds[s \ {Max(s)}])
    <3>1. Largest(s) \in 1 .. n /\ Lower(s) \in SUBSET (1 .. n)
      BY <1>1, <2>2, LargestIndex
    <3> HIDE DEF Longer
    <3> QED
      BY <1>2, <2>1, <3>1, LargestIsMax
  <2>3. \A s \in SUBSET (1 .. n) :
           (IF s = {} THEN <<>> ELSE step[<<Largest(s), folds[Lower(s)]>>])
               = (IF s = {} THEN <<>> ELSE Longer(Max(s), folds[s \ {Max(s)}]))
    BY <2>2
  <2> QED
    BY <1>1, <2>1, <2>3, Zenon DEF AreUsable
<1>5. AreUsable(g, items)
  BY <1>4
<1>6. UsableEvidence(items) = g[1 .. n]
  BY <1>1 DEF UsableEvidence, FoldLeft, MapThenFoldSet, AreUsable
<1> HIDE DEF g
<1>7. g[{}] = <<>>
  BY <1>5 DEF AreUsable
<1>8. ASSUME NEW s \in SUBSET (1 .. n), s # {}, g[Lower(s)] \in V
      PROVE  g[s] = step[<<Largest(s), g[Lower(s)]>>]
  <2>1. g[s] = Longer(Largest(s), g[Lower(s)])
    BY <1>1, <1>5, <1>8, LargestIsMax DEF AreUsable
  <2>2. Largest(s) \in 1 .. n
    BY <1>1, <1>8, LargestIndex
  <2> HIDE DEF Longer
  <2> QED
    BY <1>2, <1>8, <2>1, <2>2
<1>9. FoldsTo(g[1 .. n], n, <<>>, step, V)
  <2>1. Recurs(g, n, <<>>, step, V)
    BY <1>7, <1>8 DEF Recurs
  <2>2. n \in Nat /\ <<>> \in V /\ step \in [(1 .. n) \X V -> V]
    BY <1>1, <1>2
  <2> QED
    BY <2>1, <2>2, FoldOfPrefixes, Zenon
<1>10. n \in 0 .. n
  BY <1>1
<1> QED
  BY <1>6, <1>9, <1>10 DEF FoldsTo, ArePrefixFolds, V

LEMMA EvidenceTyped ==
  ASSUME NEW c \in Contexts
  PROVE  MemorySize(MemoryViewForAgent(c.memory)) \in Nat
<1> DEFINE view == MemoryViewForAgent(c.memory)
           first == SubSeq(c.memory.items, 1, Lesser(Len(c.memory.items), MaxMemoryItems))
<1>1. c.memory.items \in Seq(Nat \cup {Unknown})
  BY DEF Contexts
<1>2. first \in Seq(Nat \cup {Unknown})
  BY <1>1, PromptAssumption DEF Lesser
<1>3. view.items \in Seq(Nat)
  <2>1. UsableEvidence(first) \in Seq(Nat)
    BY <1>2, UsableTyped
  <2>2. view.items \in {<<>>, UsableEvidence(first)}
    BY DEF MemoryViewForAgent, NoMemory, Contexts
  <2>3. <<>> \in Seq(Nat)
    OBVIOUS
  <2> HIDE DEF view, first
  <2> QED
    BY <2>1, <2>2, <2>3
<1> HIDE DEF view
<1>4. view.items \in [1 .. Len(view.items) -> Nat] /\ IsFiniteSet(1 .. Len(view.items))
  BY <1>3, FS_Interval
<1>5. SumFunction(view.items) \in Nat
  BY <1>4, SumIsNatural
<1> QED
  BY <1>5, PromptAssumption DEF MemorySize, view

-----------------------------------------------------------------------------
(* Which pull request an item is about.                                    *)

LEMMA MinIs ==
  ASSUME NEW S, S \subseteq Nat, NEW x \in S, \A y \in S : x <= y
  PROVE  Min(S) = x
<1>1. ASSUME NEW z \in S, \A y \in S : z <= y PROVE z = x
  BY <1>1
<1> QED
  BY <1>1 DEF Min

\* The first qualified reference of two texts is that of the first text, if it has one.
LEMMA FirstQualified ==
  ASSUME NEW a \in Seq(Refs), NEW b \in Seq(Refs)
  PROVE  /\ (\E i \in DOMAIN a : a[i].qualified) =>
               /\ PrReference(a \o b) = PrReference(a)
               /\ PrReference(a).qualified
         /\ (~\E i \in DOMAIN a : a[i].qualified) /\ b # <<>> /\ b[1].qualified =>
               PrReference(a \o b) = b[1]
<1> DEFINE ab == a \o b
           m == Len(a)
           A == {i \in DOMAIN a : a[i].qualified}
           AB == {i \in DOMAIN ab : ab[i].qualified}
<1>1. /\ m \in Nat /\ DOMAIN a = 1 .. m /\ Len(b) \in Nat
      /\ DOMAIN ab = 1 .. (m + Len(b))
      /\ \A i \in 1 .. m : ab[i] = a[i]
      /\ b # <<>> => Len(b) >= 1 /\ ab[m + 1] = b[1]
  OBVIOUS
<1> HIDE DEF ab, m
<1>2. A \subseteq Nat /\ AB \subseteq Nat
  BY <1>1
<1>3. CASE A # {}
  <2>1. PICK x \in A : \A y \in A : x <= y
    BY <1>2, <1>3, LeastNatural
  <2>2. x \in AB
    BY <1>1
  <2>3. ASSUME NEW y \in AB PROVE x <= y
    <3>1. CASE y \in 1 .. m
      BY <1>1, <2>1, <3>1
    <3>2. CASE y \notin 1 .. m
      BY <1>1, <3>2
    <3> QED
      BY <3>1, <3>2
  <2>4. Min(A) = x /\ Min(AB) = x
    <3> HIDE DEF A, AB
    <3> QED
      BY <1>2, <2>1, <2>2, <2>3, MinIs
  <2>5. PrReference(a) = a[x] /\ PrReference(ab) = ab[x]
    BY <1>3, <2>2, <2>4 DEF PrReference
  <2> QED
    BY <1>1, <1>3, <2>1, <2>5 DEF ab
<1>4. CASE A = {} /\ b # <<>> /\ b[1].qualified
  <2>1. m + 1 \in AB /\ \A y \in AB : m + 1 <= y
    BY <1>1, <1>4
  <2>2. Min(AB) = m + 1
    <3> HIDE DEF AB
    <3> QED
      BY <1>2, <2>1, MinIs
  <2>3. PrReference(ab) = ab[m + 1]
    BY <2>1, <2>2 DEF PrReference
  <2> QED
    BY <1>1, <1>4, <2>3 DEF ab
<1> QED
  BY <1>3, <1>4

\* Of the pull requests with a number one is found by it.
LEMMA FoundByNumber ==
  ASSUME NEW prs \in Seq(PullRequests), NEW k \in DOMAIN prs, prs[k].number # NoNumber
  PROVE  /\ ByNumber(prs[k].number, prs) \in DOMAIN prs
         /\ prs[ByNumber(prs[k].number, prs)].number = prs[k].number
<1> DEFINE found == {j \in DOMAIN prs : prs[j].number = prs[k].number /\ prs[k].number # NoNumber}
<1>1. k \in found /\ found \in SUBSET (1 .. Len(prs)) /\ Len(prs) \in Nat
  OBVIOUS
<1>2. ByNumber(prs[k].number, prs) = Max(found)
  BY <1>1 DEF ByNumber
<1>3. Max(found) \in found
  <2> HIDE DEF found
  <2> QED
    BY <1>1, LargestIndex, LargestIsMax
<1> QED
  BY <1>2, <1>3

\* A qualified reference decides.
LEMMA MatchedByReference ==
  ASSUME NEW item, NEW prs, References(item) # <<>>, PrReference(References(item)).qualified
  PROVE  MatchedPr(item, prs) = ByNumber(PrReference(References(item)).number, prs)
  BY DEF MatchedPr

\* What is turned into a review of a pull request is read as one about its number.
LEMMA RestatingMatches ==
  ASSUME NEW item \in Items(PlanKinds), NEW prs \in Seq(PullRequests),
         NEW k \in DOMAIN prs, k = MatchedPr(item, prs), prs[k].number # NoNumber
  PROVE  LET m == MatchedPr(Restating(item, prs[k]), prs)
         IN  m \in DOMAIN prs /\ prs[m].number = prs[k].number
<1> DEFINE n == prs[k].number
           q == <<[qualified |-> TRUE, number |-> n]>>
           a == item.title.refs
           b == item.rationale.refs
           review == Restating(item, prs[k])
<1>1. a \in Seq(Refs) /\ b \in Seq(Refs)
  BY DEF Items, Texts
<1>2. n \in Nat /\ q \in Seq(Refs) /\ q # <<>> /\ q[1].qualified /\ q[1].number = n
  <2>1. prs[k] \in PullRequests
    OBVIOUS
  <2>2. n \in Nat
    BY <2>1 DEF PullRequests
  <2> HIDE DEF n
  <2>3. [qualified |-> TRUE, number |-> n] \in Refs
    BY <2>2 DEF Refs
  <2> QED
    BY <2>2, <2>3
<1>3. References(review) = a \o q
  <2>1. review.title = item.title
    BY DEF Restating, Items
  <2>2. review.rationale = [NoText EXCEPT !.refs = PrRef(n)]
    BY DEF Restating, Items
  <2>3. review.rationale.refs = q
    BY <2>2 DEF NoText, PrRef
  <2> QED
    BY <2>1, <2>3 DEF References
<1>4. ByNumber(n, prs) \in DOMAIN prs /\ prs[ByNumber(n, prs)].number = n
  BY FoundByNumber
<1>5. a \o q # <<>>
  BY <1>1, <1>2
<1> HIDE DEF n, q, a, b, review
<1>6. CASE \E i \in DOMAIN a : a[i].qualified
  <2>1. /\ PrReference(a \o q) = PrReference(a) /\ PrReference(a \o b) = PrReference(a)
        /\ PrReference(a).qualified /\ a \o b # <<>>
    BY <1>1, <1>2, <1>6, FirstQualified
  <2>2. References(item) = a \o b
    BY DEF References, a, b
  <2>3. MatchedPr(item, prs) = MatchedPr(review, prs)
    BY <1>3, <1>5, <2>1, <2>2, MatchedByReference
  <2> QED
    BY <2>3 DEF review
<1>7. CASE ~\E i \in DOMAIN a : a[i].qualified
  <2>1. PrReference(a \o q) = q[1]
    BY <1>1, <1>2, <1>7, FirstQualified
  <2>2. MatchedPr(review, prs) = ByNumber(n, prs)
    BY <1>2, <1>3, <1>5, <2>1, MatchedByReference
  <2> QED
    BY <1>4, <2>2 DEF review, n
<1> QED
  BY <1>6, <1>7

\* The review that is put in front of a plan is read as one of its pull request.
TopReview(prs) == [ReviewItem(prs[1]) EXCEPT !.restates = prs[1].number]

LEMMA TopReviewMatches ==
  ASSUME NEW prs \in Seq(PullRequests), prs # <<>>, prs[1].number # NoNumber
  PROVE  MatchedPr(TopReview(prs), prs) \in DOMAIN prs
<1> DEFINE n == prs[1].number
           q == <<[qualified |-> TRUE, number |-> n]>>
           refs == prs[1].title.refs
<1>1. 1 \in DOMAIN prs /\ prs[1] \in PullRequests
  OBVIOUS
<1>2. refs \in Seq(Refs) /\ q \in Seq(Refs) /\ n \in Nat
  BY <1>1 DEF PullRequests, Texts, Refs
<1>3. References(TopReview(prs)) = (q \o refs) \o <<>>
  <2>1. TopReview(prs).title = [prs[1].title EXCEPT
            !.refs = PrRef(n) \o @, !.quotes = @ \cup {prs[1].title.name},
            !.governed = IF n # NoNumber THEN n ELSE @,
            !.subject = [PlainSubject EXCEPT !.word = prs[1].title.subject.word],
            !.review = TRUE]
    BY DEF TopReview, ReviewItem
  <2>2. TopReview(prs).title.refs = PrRef(n) \o refs
    BY <1>1, <2>1 DEF PullRequests, Texts
  <2>3. TopReview(prs).rationale = NoText
    BY DEF TopReview, ReviewItem
  <2>4. PrRef(n) = q /\ NoText.refs = <<>>
    BY DEF PrRef, NoText
  <2> HIDE DEF q, n, refs
  <2> QED
    BY <2>2, <2>3, <2>4 DEF References
<1>4. (q \o refs) \o <<>> = q \o refs /\ q \o refs # <<>>
  BY <1>2
<1>5. q[1].qualified /\ q[1].number = n /\ q # <<>> /\ DOMAIN q = {1}
  OBVIOUS
<1>6. PrReference(q \o refs) = PrReference(q) /\ PrReference(q) = q[1]
  <2>1. <<>> \in Seq(Refs) /\ <<>> \o q = q /\ DOMAIN <<>> = {}
    BY <1>2
  <2> HIDE DEF q, refs
  <2> QED
    BY <1>2, <1>5, <2>1, FirstQualified
<1>7. MatchedPr(TopReview(prs), prs) = ByNumber(n, prs)
  <2> HIDE DEF q, refs, n
  <2> QED
    BY <1>3, <1>4, <1>5, <1>6, MatchedByReference
<1> QED
  BY <1>1, <1>7, FoundByNumber

\* What is loaded, and what is read of it: by CheckoutsAssumption.
LEMMA LoadedContext ==
  ASSUME NEW c \in Checkouts, ~LoadFails(c), LoadContext(c).object
  PROVE  /\ LoadContext(c) \in Contexts
         /\ PrQueue(LoadContext(c)) \in Seq(PullRequests)
         /\ MemorySize(MemoryViewForAgent(LoadContext(c).memory)) \in Nat
  BY CheckoutsAssumption, QueueTyped, EvidenceTyped DEF NotAnObject

LEMMA AskedItemsTyped ==
  ASSUME NEW reply \in PlanReplies, NEW prs \in Seq(PullRequests),
         NEW stub, stub = [shape |-> "list", size |-> 0, items |-> OfflinePlanStub(prs)]
  PROVE  AskedItems(ChatJson(reply, stub)) \in Seq(Items(Words))
<1>1. OfflinePlanStub(prs) \in Seq(Items(Words))
  BY StubTyped, KindsAreWords
<1>2. AskedItems(stub) \in Seq(Items(Words))
  BY <1>1 DEF AskedItems
<1> QED
  BY <1>2, PlanRepliesAssumption DEF ChatJson

LEMMA DecidedBump ==
  ASSUME NEW out
  PROVE  BumpOf(out) \in Bumps \cup {"none"}
<1>1. RecentBumpClass(ctx) \in Bumps \cup {"none"}
  BY DEF RecentBumpClass, StepClass, Bumps
<1> QED
  BY <1>1 DEF BumpOf, NormalizeVersionBump

LEMMA DecidedAction ==
  ASSUME NEW out
  PROVE  ActionOf(out) \in ValidActions
<1>1. \A a \in DOMAIN ActionSynonyms : ActionSynonyms[a] \in ValidActions
  BY DEF ActionSynonyms, ValidActions
<1>2. NormalizeAction(out.action) \in ValidActions
  BY <1>1 DEF NormalizeAction, ValidActions
<1> QED
  BY <1>2 DEF ActionOf, ValidActions

\* A review has the documented form, whatever is replied.
LEMMA ReviewTyped ==
  ASSUME NEW payload, NEW stub
  PROVE  NormalizeReview(payload, stub) \in Reviews
<1> DEFINE out == IF payload.shape = "object" THEN payload ELSE stub
<1>1. \A a \in DOMAIN ReviewSynonyms : ReviewSynonyms[a] \in ReviewActions
  BY DEF ReviewSynonyms, ReviewActions
<1>2. NormalizeReviewAction(out.action) \in ReviewActions
  BY <1>1 DEF NormalizeReviewAction, ReviewActions
<1>3. NormalizeValueLabel(out.value_label) \in ValueLabels
  BY DEF NormalizeValueLabel, ValueLabels
<1>4. \A value : NormalizeBool(value, TRUE) \in BOOLEAN
  BY DEF NormalizeBool
<1>5. \A value : NormalizeBool(value, stub.tests_present = "true") \in BOOLEAN
  BY DEF NormalizeBool
<1>6. \A value : NormalizeConcerns(value) \in {"texts", "empty"}
                 /\ NormalizeReviewText(value) \in {"blank", "text"}
  BY DEF NormalizeConcerns, NormalizeReviewText
<1> QED
  BY <1>2, <1>3, <1>4, <1>5, <1>6 DEF NormalizeReview, Reviews

\* The bump of an answer, without the rest of it.
LEMMA BumpIsRead ==
  ASSUME NEW payload, NEW out,
         out = IF payload.shape = "object" THEN payload ELSE OfflineDecision,
         offline => payload = OfflineDecision
  PROVE  /\ ReleaseTimingState(ctx) = "suppress" => BumpOf(out) = "none"
         /\ planning /\ ReleaseTimingState(ctx) # "suppress" /\ ctx.object
               /\ ReleaseVersions(ContextForAgent(ctx).releases) # {} => BumpOf(out) # "none"
         /\ offline /\ ctx.object /\ ctx \in Contexts /\ ctx.releasesTruncated
               => BumpOf(out) = "none"
<1>1. ctx.object /\ ReleaseVersions(ContextForAgent(ctx).releases) # {}
        => RecentBumpClass(ctx) # "none"
  BY DEF RecentBumpClass, StepClass
<1>2. ctx.object /\ ctx \in Contexts /\ ctx.releasesTruncated => RecentBumpClass(ctx) = "none"
  <2> SUFFICES ASSUME ctx.object, ctx \in Contexts, ctx.releasesTruncated
               PROVE  RecentBumpClass(ctx) = "none"
    OBVIOUS
  <2>1. ContextForAgent(ctx).releases = <<>>
    BY DEF ContextForAgent, Contexts
  <2>2. ReleaseVersions(<<>>) = {}
    BY DEF ReleaseVersions, Range
  <2>3. ReleaseVersions(ContextForAgent(ctx).releases) = {}
    BY <2>1, <2>2
  <2> QED
    BY <2>3, Zenon DEF RecentBumpClass
<1>3. offline => NormalizeVersionBump(out.bump) = "none"
  BY DEF OfflineDecision, NormalizeVersionBump, Bumps
<1>4. CASE ReleaseTimingState(ctx) = "suppress"
  BY <1>4 DEF BumpOf
<1>5. CASE ReleaseTimingState(ctx) # "suppress"
  <2> DEFINE bump == NormalizeVersionBump(out.bump)
  <2>1. BumpOf(out) = IF bump = "none" /\ planning THEN RecentBumpClass(ctx) ELSE bump
    BY <1>5 DEF BumpOf
  <2>2. offline => bump = "none"
    BY <1>3
  <2> HIDE DEF bump
  <2> QED
    BY <1>1, <1>2, <1>5, <2>1, <2>2
<1> QED
  BY <1>4, <1>5

-----------------------------------------------------------------------------
(* The steps.                                                              *)

LEMMA Initially == Init => IInv
  BY DEF Init, IInv, TypeOK, Loaded, Fresh, Planned, PlanFitsTiming, NoRelease,
         BumpFromWholeHistory, call

LEMMA StepKeepsInvariant ==
  ASSUME IInv, [Next]_vars
  PROVE  IInv'
<1> USE DEF IInv
<1>s. CASE UNCHANGED vars
  BY <1>s DEF vars, call, TypeOK, Loaded, Fresh, Planned, PlanFitsTiming, BumpFromWholeHistory,
              Timing, NoRelease
<1>r. ASSUME Raise, pc \notin {"backfill", "reconcile"}
      PROVE  IInv'
  BY <1>r DEF Raise, call, TypeOK, Loaded, Fresh, Planned, PlanFitsTiming, BumpFromWholeHistory,
              Timing, NoRelease
<1>c. pc \notin {"load", "failed", "reviewed"} /\ ctx.object =>
        /\ ctx \in Contexts
        /\ PrQueue(ctx) \in Seq(PullRequests)
  BY LoadedContext DEF TypeOK, Loaded
<1>1. CASE Load
  BY <1>1 DEF Load, call, TypeOK, Loaded, Fresh, Planned, PlanFitsTiming, BumpFromWholeHistory,
              Timing, NoRelease
<1>2. CASE LoadRaises
  BY <1>2, <1>r DEF LoadRaises
<1>3. ASSUME NEW reply \in PhilosophyReplies, InferPhilosophy(reply)
      PROVE  IInv'
  BY <1>3 DEF InferPhilosophy, call, TypeOK, Loaded, Fresh, Planned, PlanFitsTiming,
              BumpFromWholeHistory, Timing, NoRelease
<1>4. ASSUME NEW reply \in PlanReplies, AskPlan(reply)
      PROVE  IInv'
  <2>1. asked' \in Seq(Items(Words))
    BY <1>4, <1>c, AskedItemsTyped DEF AskPlan, PlanStub
  <2>2. TypeOK'
    BY <1>4, <2>1 DEF AskPlan, call, TypeOK
  <2>3. PlanFitsTiming'
    BY <1>4 DEF AskPlan, PlanFitsTiming, Fresh, Timing, NoRelease, PlannerNotes, Note, AsksForRelease, call
  <2> QED
    BY <1>4, <2>2, <2>3 DEF AskPlan, call, Loaded, Fresh, Planned, BumpFromWholeHistory
<1>5. CASE PlanWithoutContext
  <2>0. <<>> \in Seq(PullRequests)
    OBVIOUS
  <2>1. plan' \in Seq(Items(PlanKinds)) /\ Len(plan') <= N
    BY <1>5, <2>0, StubTyped DEF PlanWithoutContext
  <2>2. Timing' = "neutral"
    <3>1. ~ctx.object /\ ctx' = ctx
      BY <1>5 DEF PlanWithoutContext
    <3>2. Timing = "neutral"
      BY <3>1, Zenon DEF Timing, ReleaseTimingState
    <3> QED
      BY <3>1, <3>2 DEF Timing
  <2>3. TypeOK'
    BY <1>5, <2>1 DEF PlanWithoutContext, call, TypeOK
  <2> QED
    BY <1>5, <2>2, <2>3 DEF PlanWithoutContext, call, Loaded, Fresh, Planned, PlanFitsTiming,
                            BumpFromWholeHistory
<1>6. CASE FilterItem
  <2>1. Head(todo) \in Items(Words) /\ Tail(todo) \in Seq(Items(Words))
    BY <1>6 DEF FilterItem, TypeOK
  <2>2. plan' \in Seq(Items(PlanKinds))
    BY <1>6, <2>1, NormalizedItems DEF FilterItem, TypeOK
  <2>3. TypeOK'
    BY <1>6, <2>1, <2>2 DEF FilterItem, call, TypeOK
  <2>4. Timing = "suppress" => NoRelease(plan)'
    <3>1. Timing = "suppress" /\ SurvivesCalibration(NormalizePlanItem(Head(todo)), ctx)
            => ~IsPlannedRelease(NormalizePlanItem(Head(todo)))
      BY DEF SurvivesCalibration, Timing
    <3> QED
      BY <1>6, <2>1, <3>1, NormalizedItems DEF FilterItem, TypeOK, PlanFitsTiming, NoRelease
  <2> QED
    BY <1>6, <2>3, <2>4 DEF FilterItem, call, Loaded, Fresh, Planned, PlanFitsTiming,
                            BumpFromWholeHistory, Timing
<1>7. ASSUME NEW from, NEW to, NextLoop(from, to),
             <<from, to>> \in {<<"filter", "backfill">>, <<"backfill", "reconcile">>}
      PROVE  IInv'
  <2>1. TypeOK'
    BY <1>7 DEF NextLoop, call, TypeOK
  <2> QED
    BY <1>7, <2>1 DEF NextLoop, call, Loaded, Fresh, Planned, PlanFitsTiming, NoRelease,
                      BumpFromWholeHistory, Timing
<1>8. CASE BackfillItem
  <2> DEFINE item == Backfilled(Head(todo), plan, Tail(todo), ctx)
  <2>1. Head(todo) \in Items(PlanKinds) /\ Tail(todo) \in Seq(Items(PlanKinds))
    BY <1>8 DEF BackfillItem, TypeOK
  <2>2. item \in Items(PlanKinds) /\ (IsPlannedRelease(item) <=> IsPlannedRelease(Head(todo)))
    BY <1>8, <1>c, <2>1, BackfilledItem DEF BackfillItem, Planned
  <2> HIDE DEF item
  <2>3. plan' = Append(plan, item) /\ todo' = Tail(todo) /\ pc' = pc /\ pc = "backfill"
        /\ todo # <<>>
    BY <1>8 DEF BackfillItem, item
  <2>4. TypeOK'
    BY <1>8, <2>1, <2>2, <2>3 DEF BackfillItem, call, TypeOK
  <2>5. Timing = "suppress" => NoRelease(plan)' /\ NoRelease(todo)'
    BY <2>1, <2>2, <2>3 DEF TypeOK, PlanFitsTiming, NoRelease
  <2> QED
    BY <1>8, <2>4, <2>5 DEF BackfillItem, call, Loaded, Fresh, Planned, PlanFitsTiming,
                            BumpFromWholeHistory, Timing
<1>9. CASE ReconcileItem
  <2>1. Head(todo) \in Items(PlanKinds) /\ Tail(todo) \in Seq(Items(PlanKinds))
        /\ todo' = Tail(todo) /\ pc' = pc /\ pc = "reconcile" /\ todo # <<>>
    BY <1>9 DEF ReconcileItem, TypeOK
  <2>2. plan' = plan \/ \E item \in Items(PlanKinds) :
                         /\ plan' = Append(plan, item)
                         /\ IsPlannedRelease(item) => IsPlannedRelease(Head(todo))
    <3>1. PICK k \in 0 .. Len(PrQueue(ctx)) :
            \/ plan' = plan
            \/ plan' = Append(plan, Head(todo))
            \/ k # 0 /\ plan' = Append(plan, Restating(Head(todo), PrQueue(ctx)[k]))
      BY <1>9 DEF ReconcileItem
    <3>2. k # 0 => PrQueue(ctx)[k] \in PullRequests
      BY <1>9, <1>c DEF ReconcileItem, Planned
    <3> QED
      BY <2>1, <3>1, <3>2, RestatingItem
  <2>3. plan' \in Seq(Items(PlanKinds))
    BY <2>2 DEF TypeOK
  <2>4. TypeOK'
    BY <1>9, <2>1, <2>3 DEF ReconcileItem, call, TypeOK
  <2>5. Timing = "suppress" => NoRelease(plan)' /\ NoRelease(todo)'
    <3>1. Timing = "suppress" => NoRelease(plan) /\ NoRelease(todo)
      BY <1>9 DEF ReconcileItem, PlanFitsTiming
    <3>2. plan \in Seq(Items(PlanKinds)) /\ todo \in Seq(Items(PlanKinds)) /\ todo # <<>>
      BY <1>9 DEF ReconcileItem, TypeOK
    <3>3. Timing = "suppress" => NoRelease(Tail(todo)) /\ ~IsPlannedRelease(Head(todo))
      <4> SUFFICES ASSUME NoRelease(todo)
                   PROVE  NoRelease(Tail(todo)) /\ ~IsPlannedRelease(Head(todo))
        BY <3>1
      <4> QED
        BY <3>2 DEF NoRelease
    <3>4. ASSUME NoRelease(plan), NEW item \in Items(PlanKinds), ~IsPlannedRelease(item)
          PROVE  NoRelease(Append(plan, item))
      BY <3>2, <3>4 DEF NoRelease
    <3>5. todo' = Tail(todo)
      BY <1>9 DEF ReconcileItem
    <3>6. Timing = "suppress" => NoRelease(plan')
      BY <2>2, <3>1, <3>3, <3>4
    <3> QED
      BY <3>3, <3>5, <3>6 DEF NoRelease
  <2> QED
    BY <1>9, <2>4, <2>5 DEF ReconcileItem, call, Loaded, Fresh, Planned, PlanFitsTiming,
                            BumpFromWholeHistory, Timing
<1>10. CASE FinishPlan
  <2> DEFINE prs == PrQueue(ctx)
             review == IF seen = {} /\ prs # <<>>
                       THEN <<[ReviewItem(prs[1]) EXCEPT !.restates = prs[1].number]>> ELSE <<>>
  <2>1. prs # <<>> => prs[1].number \in Nat /\ prs[1].title \in Texts
    <3>1. prs # <<>> => prs[1] \in PullRequests
      BY <1>10, <1>c DEF FinishPlan, Planned
    <3> QED
      BY <3>1 DEF PullRequests
  <2>2. review \in Seq(Items(PlanKinds)) /\ NoRelease(review)
    <3>1. ASSUME prs # <<>>
          PROVE  /\ [ReviewItem(prs[1]) EXCEPT !.restates = prs[1].number] \in Items(PlanKinds)
                 /\ ~IsPlannedRelease([ReviewItem(prs[1]) EXCEPT !.restates = prs[1].number])
      BY <2>1, <3>1, ReviewItemTyped DEF Items, IsPlannedRelease
    <3> HIDE DEF prs
    <3> QED
      BY <3>1 DEF NoRelease
  <2>3. plan' = SubSeq(review \o plan, 1, Lesser(N, Len(review \o plan)))
        /\ pc' = "lens" /\ pc = "reconcile" /\ todo' = <<>>
    BY <1>10 DEF FinishPlan
  <2> HIDE DEF review
  <2>4. review \o plan \in Seq(Items(PlanKinds))
        /\ (NoRelease(plan) => NoRelease(review \o plan))
    BY <2>2 DEF TypeOK, NoRelease
  <2>5. plan' \in Seq(Items(PlanKinds)) /\ Len(plan') <= N
        /\ (NoRelease(plan) => NoRelease(plan)')
    BY <2>3, <2>4, PlanAssumption DEF Lesser, NoRelease
  <2>6. TypeOK'
    <3>1. UNCHANGED <<checkout, planning, offline, ctx>>
      BY <1>10 DEF FinishPlan, call
    <3>2. \A S : <<>> \in Seq(S)
      OBVIOUS
    <3> QED
      BY <2>3, <2>5, <3>1, <3>2 DEF TypeOK
  <2> QED
    BY <1>10, <2>5, <2>6 DEF FinishPlan, call, Loaded, Fresh, Planned, PlanFitsTiming,
                             BumpFromWholeHistory, Timing
<1>11. ASSUME NEW reply \in LensReplies, RunLens(reply)
       PROVE  IInv'
  BY <1>11 DEF RunLens, call, TypeOK, Loaded, Fresh, Planned, PlanFitsTiming,
               BumpFromWholeHistory, Timing, NoRelease
<1>12. ASSUME NEW reply \in DecisionReplies, Decide(reply)
       PROVE  IInv'
  <2> DEFINE payload == ChatJson(reply, OfflineDecision)
             out == IF payload.shape = "object" THEN payload ELSE OfflineDecision
  <2>1. offline => payload = OfflineDecision
    BY DEF ChatJson
  <2>2. decision' = [action |-> ActionOf(out), bump |-> BumpOf(out),
                     labels |-> NormalizeLabels(out.labels),
                     reviewer |-> NormalizeReviewer(out.reviewer),
                     patch |-> NormalizePatch(out.patch)]
    BY <1>12 DEF Decide
  <2> HIDE DEF payload, out
  <2>3. decision' \in Decisions
    BY <2>2, DecidedBump, DecidedAction
       DEF Decisions, NormalizeLabels, NormalizeStringList, NormalizeReviewer, NormalizePatch
  <2>4. decision'.bump = BumpOf(out)
    BY <2>2
  <2>5. /\ Timing = "suppress" => BumpOf(out) = "none"
        /\ planning /\ Timing # "suppress" /\ ctx.object
              /\ ReleaseVersions(ContextForAgent(ctx).releases) # {} => BumpOf(out) # "none"
        /\ offline /\ ctx.object /\ ctx.releasesTruncated => BumpOf(out) = "none"
    BY <1>12, <1>c, <2>1, BumpIsRead DEF out, Decide, Timing
  <2>6. BumpFromWholeHistory' /\ (Timing = "suppress" => decision'.bump = "none")
    BY <1>12, <2>4, <2>5 DEF Decide, call, BumpFromWholeHistory, Timing
  <2>7. Timing = "suppress" => \A note \in notes' : note.topic \notin {"release", "bump"}
    BY <1>12 DEF Decide, DeciderNotes, Note, PlanFitsTiming, Timing
  <2>8. TypeOK'
    BY <1>12, <2>3 DEF Decide, call, TypeOK
  <2> QED
    BY <1>12, <2>6, <2>7, <2>8 DEF Decide, call, Loaded, Fresh, Planned, PlanFitsTiming, Timing
<1>13. CASE CallRaises
  BY <1>13, <1>r DEF CallRaises
<1>14. ASSUME NEW view \in Views, NEW reply \in ReviewReplies, Review(view, reply)
       PROVE  IInv'
  <2>1. decision' \in Reviews
    BY <1>14, ReviewTyped DEF Review
  <2>2. TypeOK'
    BY <1>14, <2>1 DEF Review, call, TypeOK
  <2> QED
    BY <1>14, <2>2 DEF Review, call, Loaded, Fresh, Planned, PlanFitsTiming,
                       BumpFromWholeHistory, Timing, NoRelease
<1>15. CASE ReviewRaises
  BY <1>15, <1>r DEF ReviewRaises
<1> QED
  BY <1>s, <1>1, <1>2, <1>3, <1>4, <1>5, <1>6, <1>7, <1>8, <1>9, <1>10, <1>11, <1>12, <1>13,
     <1>14, <1>15
  DEF Next

THEOREM Invariant == Spec => []IInv
  BY Initially, StepKeepsInvariant, PTL DEF Spec

\* Whatever the model replies, plans keep to the documented kinds and the answer to the
\* documented form.
THEOREM TypeCorrectness == Spec => []TypeOK
<1>1. IInv => TypeOK
  BY DEF IInv
<1> QED
  BY <1>1, Invariant, PTL

\* Just after a cut neither the plan nor the bump of the answer forecasts a release.
THEOREM PlannerAndDeciderAgree == Spec => []ForecastsAgree
<1>1. IInv => ForecastsAgree
  BY DEF IInv, PlanFitsTiming, NoRelease, ForecastsAgree
<1> QED
  BY <1>1, Invariant, PTL

\* The bump that decide fills in comes from the whole list of releases or from nowhere.
THEOREM BumpsAreGrounded == Spec => []BumpFromWholeHistory
<1>1. IInv => BumpFromWholeHistory
  BY DEF IInv
<1> QED
  BY <1>1, Invariant, PTL

\* No repository state is so long that a prompt loses its evidence or its limit.
THEOREM EvidenceIsKept == Spec => []PromptKeepsEvidence
<1>1. ASSUME IInv
      PROVE  PromptKeepsEvidence
  <2> SUFFICES ASSUME pc \notin {"load", "failed", "reviewed"}, ctx.object, ValidMemory(ctx.memory)
               PROVE  /\ prompt.evidence =
                            Lesser(MemoryLimit, MemorySize(MemoryViewForAgent(ctx.memory)))
                      /\ prompt.state + HeaderSize + prompt.evidence <= PromptLimit
    BY DEF PromptKeepsEvidence
  <2> DEFINE view == MemoryViewForAgent(ctx.memory)
  <2>1. ctx \in Contexts /\ MemorySize(view) \in Nat /\ prompt = RenderPromptContext(ctx)
    BY <1>1, LoadedContext DEF IInv, Loaded
  <2>2. view.mode \in MemoryModes
    <3>1. ctx.memory \in [mode : Words, boundary : BOOLEAN, items : Seq(Nat \cup {Unknown})]
      BY <2>1 DEF Contexts
    <3> QED
      BY <3>1 DEF MemoryViewForAgent, ValidMemory
  <2>3. view # NoMemory
    BY <2>2 DEF NoMemory, MemoryModes
  <2>4. prompt = PromptBudget(ctx.size, MemorySize(view))
    BY <2>1, <2>3 DEF RenderPromptContext
  <2>5. ctx.size \in Nat
    BY <2>1 DEF Contexts
  <2>6. \A a, b \in Nat :
          /\ PromptBudget(a, b).evidence = Lesser(MemoryLimit, b)
          /\ PromptBudget(a, b).state + HeaderSize + PromptBudget(a, b).evidence <= PromptLimit
    BY PromptAssumption DEF PromptBudget, Lesser
  <2> QED
    BY <2>1, <2>4, <2>5, <2>6
<1> QED
  BY <1>1, Invariant, PTL
-----------------------------------------------------------------------------
(* What the loops keep, and what becomes of the queue.                     *)

Loops == {"filter", "backfill", "reconcile"}

NormAsked == {NormalizePlanItem(a) : a \in Range(asked)}

\* Until the files are named, the items are those that the model asked for.
Origins ==
    /\ pc = "filter" => /\ \A i \in DOMAIN todo : todo[i] \in Range(asked)
                        /\ \A i \in DOMAIN plan : plan[i] \in NormAsked
    /\ pc = "backfill" => \A i \in DOMAIN todo : todo[i] \in NormAsked

\* No loop adds an item.
NoLonger ==
    /\ asked \in Seq(Items(Words))
    /\ pc \in Loops => Len(plan) + Len(todo) <= Len(asked)

\* Without a queue nothing is turned into a review.
Said(items) == \A i \in DOMAIN items : \E a \in Range(asked) : items[i].restates = a.restates
SaidByTheModel ==
    /\ ctx.object /\ Queue = <<>> /\ pc \in Loops \cup {"lens", "done"} => Said(plan)
    /\ ctx.object /\ Queue = <<>> /\ pc \in Loops => Said(todo)

Matched(item) == MatchedPr(item, Queue) # 0
KeyOf(item) == PrDedupKey(Queue[MatchedPr(item, Queue)])

\* The pull requests that the items are about have been seen, each once.
Collapsed(items) ==
    /\ \A i \in DOMAIN items : Matched(items[i]) =>
          MatchedPr(items[i], Queue) \in DOMAIN Queue /\ KeyOf(items[i]) \in seen
    /\ \A i, j \in DOMAIN items : i # j /\ Matched(items[i]) /\ Matched(items[j]) =>
          KeyOf(items[i]) # KeyOf(items[j])
    /\ seen # {} => \E i \in DOMAIN items : Matched(items[i])

Once(items) ==
    \A i, j \in DOMAIN items :
        i # j /\ Matched(items[i]) => MatchedPr(items[i], Queue) # MatchedPr(items[j], Queue)

Reconciled ==
    /\ pc \notin {"reconcile", "failed", "reviewed"} => seen = {}
    /\ Numbered /\ pc = "reconcile" => Collapsed(plan)
    /\ Numbered /\ pc \in {"lens", "done"} =>
          /\ Once(plan)
          /\ N # 0 /\ Len(asked) <= N /\ Queue # <<>> => \E i \in DOMAIN plan : Matched(plan[i])

Answering ==
    /\ Origins /\ NoLonger /\ SaidByTheModel /\ Reconciled /\ BackfillWithinBudget

LEMMA AppendElements ==
  ASSUME NEW S, NEW s \in Seq(S), NEW x \in S
  PROVE  /\ Len(Append(s, x)) = Len(s) + 1
         /\ Len(s) + 1 \in DOMAIN Append(s, x) /\ Append(s, x)[Len(s) + 1] = x
         /\ \A i \in DOMAIN s : i \in DOMAIN Append(s, x) /\ Append(s, x)[i] = s[i]
         /\ \A i \in DOMAIN Append(s, x) : i \in DOMAIN s \/ i = Len(s) + 1
  OBVIOUS

LEMMA TailElements ==
  ASSUME NEW S, NEW s \in Seq(S), s # <<>>
  PROVE  /\ 1 \in DOMAIN s /\ Head(s) = s[1] /\ Head(s) \in S
         /\ Tail(s) \in Seq(S) /\ Len(Tail(s)) = Len(s) - 1 /\ Len(s) \in Nat
         /\ \A i \in DOMAIN Tail(s) : i + 1 \in DOMAIN s /\ Tail(s)[i] = s[i + 1]
  OBVIOUS

\* The types that the steps need.
LEMMA LoopTypes ==
  ASSUME IInv, pc \in Loops
  PROVE  /\ ctx.object /\ ctx \in Contexts /\ Queue = PrQueue(ctx) /\ Queue \in Seq(PullRequests)
         /\ plan \in Seq(Items(PlanKinds))
         /\ todo \in Seq(Items(Words))
         /\ pc # "filter" => todo \in Seq(Items(PlanKinds))
<1>1. ctx.object
  BY DEF IInv, Planned, Loops
<1>2. ctx \in Contexts
  BY <1>1, LoadedContext DEF IInv, Loaded, Loops
<1>3. plan \in Seq(Items(PlanKinds)) /\ todo \in Seq(Items(IF pc # "filter" THEN PlanKinds ELSE Words))
  BY DEF IInv, TypeOK, Loops
<1>4. todo \in Seq(Items(Words))
  BY <1>3, KindsAreWords
<1> QED
  BY <1>1, <1>2, <1>3, <1>4, QueueTyped DEF Queue

LEMMA FilterAnswers ==
  ASSUME IInv, Answering, FilterItem
  PROVE  Answering'
<1> DEFINE item == Head(todo)
           norm == NormalizePlanItem(item)
<1>1. /\ pc = "filter" /\ todo # <<>>
      /\ plan' = Append(plan, norm) \/ plan' = plan
      /\ todo' = Tail(todo)
      /\ UNCHANGED <<pc, ctx, asked, seen>>
  BY DEF FilterItem
<1>2. /\ plan \in Seq(Items(PlanKinds)) /\ todo \in Seq(Items(Words)) /\ ctx.object
  BY <1>1, LoopTypes DEF Loops
<1>3. item = todo[1] /\ 1 \in DOMAIN todo /\ item \in Items(Words) /\ item \in Range(asked)
  BY <1>1, <1>2, TailElements DEF Answering, Origins
<1>4. norm \in NormAsked /\ norm.restates = item.restates /\ norm \in Items(PlanKinds)
  BY <1>3, NormalizedItems DEF NormAsked, NormalizePlanItem, Items
<1> HIDE DEF norm, item
<1>5. /\ Queue' = Queue /\ NormAsked' = NormAsked /\ Numbered' = Numbered
  BY <1>1 DEF Queue, NormAsked, Numbered
<1>6. \A i \in DOMAIN plan' : plan'[i] = norm \/ \E j \in DOMAIN plan : plan'[i] = plan[j]
  BY <1>1, <1>2, <1>4, AppendElements
<1>7. \A i \in DOMAIN todo' : \E j \in DOMAIN todo : todo'[i] = todo[j]
  BY <1>1, <1>2, TailElements
<1>8. Origins'
  BY <1>1, <1>4, <1>5, <1>6, <1>7 DEF Answering, Origins
<1>9. NoLonger'
  <2>1. Len(plan') <= Len(plan) + 1 /\ Len(todo') = Len(todo) - 1
    BY <1>1, <1>2, <1>4, AppendElements, TailElements
  <2>2. Len(plan) \in Nat /\ Len(todo) \in Nat /\ Len(plan') \in Nat
    BY <1>1, <1>2, <1>4, AppendElements
  <2>3. Len(plan) + Len(todo) <= Len(asked)
    BY <1>1 DEF Answering, NoLonger, Loops
  <2>4. asked \in Seq(Items(Words)) /\ Len(asked) \in Int
    BY DEF Answering, NoLonger
  <2> QED
    BY <1>1, <2>1, <2>2, <2>3, <2>4 DEF NoLonger
<1>10. SaidByTheModel'
  <2> SUFFICES ASSUME Queue = <<>> PROVE Said(plan)' /\ Said(todo)'
    BY <1>1, <1>5 DEF SaidByTheModel
  <2>1. Said(plan) /\ Said(todo)
    BY <1>1, <1>2 DEF Answering, SaidByTheModel, Loops
  <2>2. \E a \in Range(asked) : norm.restates = a.restates
    BY <1>3, <1>4
  <2> QED
    BY <1>1, <1>6, <1>7, <2>1, <2>2 DEF Said
<1>11. Reconciled' /\ BackfillWithinBudget'
  BY <1>1 DEF Answering, Reconciled, BackfillWithinBudget
<1> QED
  BY <1>8, <1>9, <1>10, <1>11 DEF Answering

LEMMA LoopAnswers ==
  ASSUME IInv, Answering,
         \/ NextLoop("filter", "backfill")
         \/ NextLoop("backfill", "reconcile")
  PROVE  Answering'
<1>1. /\ \/ pc = "filter" /\ pc' = "backfill"
         \/ pc = "backfill" /\ pc' = "reconcile"
      /\ todo = <<>> /\ todo' = plan /\ plan' = <<>>
      /\ UNCHANGED <<ctx, asked, seen>>
  BY DEF NextLoop
<1>2. plan \in Seq(Items(PlanKinds))
  BY <1>1, LoopTypes DEF Loops
<1>3. /\ Queue' = Queue /\ NormAsked' = NormAsked
  BY <1>1 DEF Queue, NormAsked
<1>4. Origins'
  BY <1>1, <1>3 DEF Answering, Origins
<1>5. NoLonger'
  <2>1. asked \in Seq(Items(Words)) /\ Len(plan) + 0 <= Len(asked) /\ Len(plan) \in Nat
    BY <1>1, <1>2 DEF Answering, NoLonger, Loops
  <2> QED
    BY <1>1, <2>1 DEF NoLonger
<1>6. SaidByTheModel'
  BY <1>1, <1>3 DEF Answering, SaidByTheModel, Said, Loops
<1>7. Reconciled'
  BY <1>1 DEF Answering, Reconciled, Collapsed
<1>8. BackfillWithinBudget'
  BY <1>1 DEF BackfillWithinBudget
<1> QED
  BY <1>4, <1>5, <1>6, <1>7, <1>8 DEF Answering

LEMMA BackfillAnswers ==
  ASSUME IInv, Answering, BackfillItem
  PROVE  Answering'
<1> DEFINE item == Head(todo)
           rest == Tail(todo)
           new == Backfilled(item, plan, rest, ctx)
<1>1. /\ pc = "backfill" /\ todo # <<>>
      /\ plan' = Append(plan, new) /\ todo' = rest
      /\ UNCHANGED <<pc, ctx, asked, seen>>
  BY DEF BackfillItem
<1>2. /\ plan \in Seq(Items(PlanKinds)) /\ todo \in Seq(Items(PlanKinds)) /\ ctx.object
      /\ ctx \in Contexts
  BY <1>1, LoopTypes DEF Loops
<1>3. /\ item = todo[1] /\ 1 \in DOMAIN todo /\ item \in Items(PlanKinds) /\ item \in NormAsked
      /\ rest \in Seq(Items(PlanKinds))
  BY <1>1, <1>2, TailElements DEF Answering, Origins
<1>4. new \in Items(PlanKinds)
  BY <1>2, <1>3, BackfilledItem
<1>5. /\ new.restates = item.restates
      /\ \/ new = item
         \/ PlanSize(plan) + ItemSize(new) + PlanSize(rest) <= PlanBudget
  BY <1>3 DEF Backfilled, WithFiles, Items
<1>q. todo = <<item>> \o rest
  BY <1>1, <1>2
<1> HIDE DEF new, item, rest
<1>6. /\ Queue' = Queue /\ NormAsked' = NormAsked
  BY <1>1 DEF Queue, NormAsked
<1>7. \A i \in DOMAIN plan' : plan'[i] = new \/ \E j \in DOMAIN plan : plan'[i] = plan[j]
  BY <1>1, <1>2, <1>4, AppendElements
<1>8. \A i \in DOMAIN todo' : \E j \in DOMAIN todo : todo'[i] = todo[j]
  BY <1>1, <1>2, TailElements DEF rest
<1>9. Origins'
  BY <1>1, <1>6, <1>8 DEF Answering, Origins
<1>10. NoLonger'
  <2>1. Len(plan') = Len(plan) + 1 /\ Len(todo') = Len(todo) - 1
    BY <1>1, <1>2, <1>4, AppendElements, TailElements DEF rest
  <2>2. Len(plan) \in Nat /\ Len(todo) \in Nat
    BY <1>2
  <2>3. asked \in Seq(Items(Words)) /\ Len(plan) + Len(todo) <= Len(asked)
    BY <1>1 DEF Answering, NoLonger, Loops
  <2> QED
    BY <1>1, <2>1, <2>2, <2>3 DEF NoLonger
<1>11. SaidByTheModel'
  <2> SUFFICES ASSUME Queue = <<>> PROVE Said(plan)' /\ Said(todo)'
    BY <1>1, <1>6 DEF SaidByTheModel
  <2>1. Said(plan) /\ Said(todo)
    BY <1>1, <1>2 DEF Answering, SaidByTheModel, Loops
  <2>2. \E a \in Range(asked) : new.restates = a.restates
    BY <1>3, <1>5, <2>1 DEF Said
  <2> QED
    BY <1>1, <1>7, <1>8, <2>1, <2>2 DEF Said
<1>12. Reconciled'
  BY <1>1 DEF Answering, Reconciled
<1>13. BackfillWithinBudget'
  <2> SUFFICES ASSUME \E i \in DOMAIN plan' : plan'[i] \notin NormAsked
               PROVE  PlanSize(plan' \o todo') <= PlanBudget
    BY <1>1, <1>6 DEF BackfillWithinBudget, NormAsked
  <2>t. /\ plan \in Seq(Items(Words)) /\ rest \in Seq(Items(Words))
        /\ item \in Items(Words) /\ new \in Items(Words)
    BY <1>2, <1>3, <1>4, KindsAreWords
  <2>1. PlanSize(Append(plan, new) \o rest) = PlanSize(plan) + ItemSize(new) + PlanSize(rest)
    BY <2>t, SizeOfNext
  <2>2. CASE new # item
    BY <1>1, <1>5, <2>1, <2>2
  <2>3. CASE new = item
    <3>1. \E i \in DOMAIN plan : plan[i] \notin NormAsked
      BY <1>3, <1>7, <2>3
    <3>2. PlanSize(plan \o todo) <= PlanBudget
      BY <1>1, <3>1 DEF Answering, BackfillWithinBudget, NormAsked
    <3>3. plan \o todo = Append(plan, item) \o rest
      BY <1>q, <2>t
    <3> QED
      BY <1>1, <2>3, <3>2, <3>3
  <2> QED
    BY <2>2, <2>3
<1> QED
  BY <1>9, <1>10, <1>11, <1>12, <1>13 DEF Answering

LEMMA ReconcileAnswers ==
  ASSUME IInv, Answering, ReconcileItem
  PROVE  Answering'
<1> DEFINE item == Head(todo)
           rest == Tail(todo)
<1>0. PICK k \in 0 .. Len(PrQueue(ctx)) :
        /\ k = MatchedPr(item, PrQueue(ctx))
        /\ \/ k = 0 /\ plan' = Append(plan, item) /\ UNCHANGED seen
           \/ k # 0 /\ PrDedupKey(PrQueue(ctx)[k]) \in seen /\ UNCHANGED <<plan, seen>>
           \/ /\ k # 0 /\ PrDedupKey(PrQueue(ctx)[k]) \notin seen
              /\ plan' = Append(plan, IF IsReviewItem(item) THEN item
                                      ELSE Restating(item, PrQueue(ctx)[k]))
              /\ seen' = seen \cup {PrDedupKey(PrQueue(ctx)[k])}
  BY DEF ReconcileItem
<1>1. pc = "reconcile" /\ todo # <<>> /\ todo' = rest /\ UNCHANGED <<pc, ctx, asked>>
  BY DEF ReconcileItem
<1>2. /\ plan \in Seq(Items(PlanKinds)) /\ todo \in Seq(Items(PlanKinds)) /\ ctx.object
      /\ Queue = PrQueue(ctx) /\ Queue \in Seq(PullRequests)
  BY <1>1, LoopTypes DEF Loops
<1>3. item = todo[1] /\ 1 \in DOMAIN todo /\ item \in Items(PlanKinds)
  BY <1>1, <1>2, TailElements
<1> DEFINE new == IF k = 0 \/ IsReviewItem(item) THEN item ELSE Restating(item, Queue[k])
<1>4. new \in Items(PlanKinds)
  <2>1. k # 0 => Queue[k] \in PullRequests
    BY <1>0, <1>2
  <2> QED
    BY <1>3, <2>1, RestatingItem
<1>5. /\ plan' = Append(plan, new) \/ plan' = plan
      /\ k = MatchedPr(item, Queue)
      /\ k = 0 => new = item
  BY <1>0, <1>2
<1>6. /\ Queue' = Queue /\ Numbered' = Numbered
  BY <1>1 DEF Queue, Numbered
<1>7. \A i \in DOMAIN todo' : \E j \in DOMAIN todo : todo'[i] = todo[j]
  BY <1>1, <1>2, TailElements
<1>8. Origins' /\ BackfillWithinBudget'
  BY <1>1 DEF Origins, BackfillWithinBudget
<1> HIDE DEF new, item
<1>9. \A i \in DOMAIN plan' : plan'[i] = new \/ \E j \in DOMAIN plan : plan'[i] = plan[j]
  <2>1. CASE plan' = Append(plan, new)
    BY <1>2, <1>4, <2>1, AppendElements
  <2>2. CASE plan' = plan
    BY <2>2
  <2> QED
    BY <1>5, <2>1, <2>2
<1>10. NoLonger'
  <2>1. Len(plan') <= Len(plan) + 1 /\ Len(plan') \in Nat /\ Len(todo') = Len(todo) - 1
    BY <1>1, <1>2, <1>4, <1>5, AppendElements, TailElements
  <2>2. Len(plan) \in Nat /\ Len(todo) \in Nat
    BY <1>2
  <2>3. asked \in Seq(Items(Words)) /\ Len(plan) + Len(todo) <= Len(asked) /\ Len(asked) \in Nat
    BY <1>1 DEF Answering, NoLonger, Loops
  <2> QED
    BY <1>1, <2>1, <2>2, <2>3 DEF NoLonger
<1>11. SaidByTheModel'
  <2> SUFFICES ASSUME Queue = <<>> PROVE Said(plan)' /\ Said(todo)'
    BY <1>1, <1>6 DEF SaidByTheModel
  <2>1. Said(plan) /\ Said(todo)
    BY <1>1, <1>2 DEF Answering, SaidByTheModel, Loops
  <2>2. k = 0 /\ new = item
    BY <1>0, <1>2, <1>5
  <2>3. \E a \in Range(asked) : new.restates = a.restates
    BY <1>3, <2>1, <2>2 DEF Said
  <2> QED
    BY <1>1, <1>7, <1>9, <2>1, <2>3 DEF Said
<1>12. Reconciled'
  <2> SUFFICES ASSUME Numbered PROVE Collapsed(plan)'
    BY <1>1, <1>6 DEF Reconciled
  <2>1. Collapsed(plan)
    BY <1>1 DEF Answering, Reconciled
  <2>m. \A x : (Matched(x)' <=> Matched(x)) /\ KeyOf(x)' = KeyOf(x)
    BY <1>6 DEF Matched, KeyOf
  <2>2. CASE k = 0
    <3>1. plan' = Append(plan, new) /\ seen' = seen /\ ~Matched(new)
      BY <1>0, <1>5, <2>2 DEF Matched, new
    <3>2. \A i \in DOMAIN plan' : Matched(plan'[i]) => i \in DOMAIN plan /\ plan'[i] = plan[i]
      BY <1>2, <1>4, <3>1, AppendElements
    <3>3. \A i \in DOMAIN plan : i \in DOMAIN plan' /\ plan'[i] = plan[i]
      BY <1>2, <1>4, <3>1, AppendElements
    <3> QED
      BY <1>6, <2>1, <2>m, <3>1, <3>2, <3>3 DEF Collapsed
  <2>3. CASE k # 0 /\ PrDedupKey(PrQueue(ctx)[k]) \in seen
    <3>1. UNCHANGED <<plan, seen>>
      BY <1>0, <2>3
    <3> QED
      BY <1>6, <2>1, <2>m, <3>1 DEF Collapsed
  <2>4. CASE k # 0 /\ PrDedupKey(PrQueue(ctx)[k]) \notin seen
    <3> DEFINE key == PrDedupKey(Queue[k])
    <3>1. plan' = Append(plan, new) /\ seen' = seen \cup {key} /\ key \notin seen
      BY <1>0, <1>2, <2>4 DEF new
    <3>2. k \in DOMAIN Queue /\ Queue[k].number # NoNumber
      BY <1>0, <1>2, <2>4 DEF Numbered
    <3>3. MatchedPr(new, Queue) \in DOMAIN Queue /\ Queue[MatchedPr(new, Queue)].number = Queue[k].number
      <4>1. CASE IsReviewItem(item)
        BY <1>5, <3>2, <4>1 DEF new
      <4>2. CASE ~IsReviewItem(item)
        BY <1>2, <1>3, <1>5, <2>4, <3>2, <4>2, RestatingMatches DEF new
      <4> QED
        BY <4>1, <4>2
    <3>4. Matched(new) /\ KeyOf(new) = key
      <4>1. MatchedPr(new, Queue) # 0
        BY <1>2, <3>3
      <4>2. PrDedupKey(Queue[MatchedPr(new, Queue)]) = PrDedupKey(Queue[k])
        BY <3>2, <3>3 DEF PrDedupKey
      <4> QED
        BY <4>1, <4>2 DEF Matched, KeyOf
    <3> HIDE DEF key
    <3>5. /\ Len(plan) + 1 \in DOMAIN plan' /\ plan'[Len(plan) + 1] = new
          /\ \A i \in DOMAIN plan' :
                \/ i \in DOMAIN plan /\ plan'[i] = plan[i]
                \/ i = Len(plan) + 1 /\ plan'[i] = new
      BY <1>2, <1>4, <3>1, AppendElements
    <3>6. ASSUME NEW i \in DOMAIN plan', Matched(plan'[i])
          PROVE  MatchedPr(plan'[i], Queue) \in DOMAIN Queue /\ KeyOf(plan'[i]) \in seen'
      BY <2>1, <3>1, <3>3, <3>4, <3>5, <3>6 DEF Collapsed
    <3>7. ASSUME NEW i \in DOMAIN plan', NEW j \in DOMAIN plan', i # j,
                 Matched(plan'[i]), Matched(plan'[j])
          PROVE  KeyOf(plan'[i]) # KeyOf(plan'[j])
      <4>1. CASE i \in DOMAIN plan /\ plan'[i] = plan[i] /\ j \in DOMAIN plan /\ plan'[j] = plan[j]
        BY <2>1, <3>7, <4>1 DEF Collapsed
      <4>2. CASE i \in DOMAIN plan /\ plan'[i] = plan[i] /\ plan'[j] = new
        BY <2>1, <3>1, <3>4, <3>7, <4>2 DEF Collapsed
      <4>3. CASE j \in DOMAIN plan /\ plan'[j] = plan[j] /\ plan'[i] = new
        BY <2>1, <3>1, <3>4, <3>7, <4>3 DEF Collapsed
      <4> QED
        BY <3>5, <3>7, <4>1, <4>2, <4>3
    <3>8. \E i \in DOMAIN plan' : Matched(plan'[i])
      BY <3>4, <3>5
    <3> QED
      BY <1>6, <2>m, <3>6, <3>7, <3>8 DEF Collapsed
  <2> QED
    BY <2>2, <2>3, <2>4
<1> QED
  BY <1>8, <1>10, <1>11, <1>12 DEF Answering

LEMMA FinishAnswers ==
  ASSUME IInv, Answering, FinishPlan
  PROVE  Answering'
<1> DEFINE prs == PrQueue(ctx)
           review == IF seen = {} /\ prs # <<>> THEN <<TopReview(prs)>> ELSE <<>>
           all == review \o plan
           kept == Lesser(N, Len(all))
<1>1. /\ pc = "reconcile" /\ todo = <<>> /\ pc' = "lens" /\ seen' = {}
      /\ plan' = SubSeq(all, 1, kept)
      /\ UNCHANGED <<ctx, asked, todo>>
  BY DEF FinishPlan, TopReview
<1>2. /\ plan \in Seq(Items(PlanKinds)) /\ ctx.object
      /\ Queue = prs /\ prs \in Seq(PullRequests)
  BY <1>1, LoopTypes DEF Loops
<1>3. review \in Seq(Items(PlanKinds)) /\ Len(review) \in {0, 1}
  <2>1. prs # <<>> => prs[1] \in PullRequests
    BY <1>2
  <2>2. prs # <<>> => ReviewItem(prs[1]) \in Items(PlanKinds) /\ prs[1].number \in Nat
    BY <2>1, ReviewItemTyped DEF PullRequests
  <2>3. prs # <<>> => TopReview(prs) \in Items(PlanKinds)
    BY <2>2 DEF TopReview, Items
  <2> HIDE DEF prs
  <2> QED
    BY <2>3
<1>4. /\ Queue' = Queue /\ Numbered' = Numbered
      /\ \A x : Matched(x)' <=> Matched(x)
  BY <1>1 DEF Queue, Numbered, Matched
<1> DEFINE n == Len(review)
<1>5. /\ all \in Seq(Items(PlanKinds)) /\ Len(all) = n + Len(plan)
      /\ n \in Nat /\ Len(plan) \in Nat
      /\ DOMAIN plan = 1 .. Len(plan)
      /\ \A i \in 1 .. n : all[i] = review[i]
      /\ \A i \in 1 .. Len(plan) : all[n + i] = plan[i]
  BY <1>2, <1>3
<1>r. /\ n = 0 \/ (n = 1 /\ review[1] = TopReview(prs) /\ seen = {} /\ prs # <<>>)
      /\ seen = {} /\ prs # <<>> => n = 1
  OBVIOUS
<1> HIDE DEF all, review, n
<1>6. kept \in Nat /\ kept <= N /\ kept <= Len(all) /\ (kept = N \/ kept = Len(all))
  BY <1>5, PlanAssumption DEF Lesser
<1> HIDE DEF kept
<1>7. DOMAIN plan' = 1 .. kept /\ \A i \in 1 .. kept : plan'[i] = all[i]
  BY <1>1, <1>5, <1>6
<1>8. \A i \in 1 .. kept : i \in 1 .. n \/ (i - n \in DOMAIN plan /\ all[i] = plan[i - n])
  <2>1. ASSUME NEW i \in 1 .. kept, i \notin 1 .. n
        PROVE  i - n \in 1 .. Len(plan) /\ all[n + (i - n)] = plan[i - n] /\ n + (i - n) = i
    BY <1>5, <1>6, <2>1
  <2> QED
    BY <1>5, <2>1
<1>9. Origins' /\ BackfillWithinBudget'
  BY <1>1 DEF Origins, BackfillWithinBudget
<1>10. NoLonger'
  BY <1>1 DEF Answering, NoLonger, Loops
<1>11. SaidByTheModel'
  <2> SUFFICES ASSUME Queue = <<>> PROVE Said(plan)'
    BY <1>1, <1>4 DEF SaidByTheModel, Loops
  <2>1. Said(plan)
    BY <1>1, <1>2 DEF Answering, SaidByTheModel, Loops
  <2>2. n = 0
    BY <1>2, <1>r
  <2>3. \A i \in DOMAIN plan' : \E j \in DOMAIN plan : plan'[i] = plan[j]
    BY <1>7, <1>8, <2>2
  <2>4. \A i \in DOMAIN plan' : \E a \in Range(asked) : plan'[i].restates = a.restates
    <3> TAKE i \in DOMAIN plan'
    <3>1. PICK j \in DOMAIN plan : plan'[i] = plan[j]
      BY <2>3
    <3> QED
      BY <2>1, <3>1 DEF Said
  <2>5. Range(asked)' = Range(asked)
    BY <1>1
  <2> QED
    BY <2>4, <2>5 DEF Said
<1>12. Reconciled'
  <2> SUFFICES ASSUME Numbered
               PROVE  /\ Once(plan)'
                      /\ N # 0 /\ Len(asked) <= N /\ Queue # <<>> =>
                            \E i \in DOMAIN plan' : Matched(plan'[i])
    BY <1>1, <1>4 DEF Reconciled
  <2>1. Collapsed(plan)
    BY <1>1 DEF Answering, Reconciled
  <2>2. seen = {} => \A i \in DOMAIN plan : ~Matched(plan[i])
    BY <2>1 DEF Collapsed
  <2>3. ASSUME NEW i \in DOMAIN plan', NEW j \in DOMAIN plan', i # j, Matched(plan'[i])
        PROVE  MatchedPr(plan'[i], Queue) # MatchedPr(plan'[j], Queue)
    <3>0. i \in 1 .. kept /\ j \in 1 .. kept /\ plan'[i] = all[i] /\ plan'[j] = all[j]
      BY <1>7
    <3>1. CASE n = 0
      <4>1. /\ i \in DOMAIN plan /\ plan'[i] = plan[i] /\ j \in DOMAIN plan /\ plan'[j] = plan[j]
        BY <1>8, <3>0, <3>1
      <4>2. Matched(plan[j]) => KeyOf(plan[i]) # KeyOf(plan[j])
        BY <2>1, <2>3, <4>1 DEF Collapsed
      <4> QED
        BY <2>3, <4>1, <4>2 DEF Matched, KeyOf
    <3>2. CASE n = 1
      <4>1. \A l \in DOMAIN plan : ~Matched(plan[l])
        BY <1>r, <2>2, <3>2
      <4>2. i = 1
        BY <1>8, <2>3, <3>0, <3>2, <4>1
      <4>3. ~Matched(plan'[j])
        BY <1>8, <2>3, <3>0, <3>2, <4>1, <4>2
      <4> QED
        BY <2>3, <4>3 DEF Matched
    <3> QED
      BY <1>r, <3>1, <3>2
  <2>4. ASSUME N # 0, Len(asked) <= N, Queue # <<>>
        PROVE  \E i \in DOMAIN plan' : Matched(plan'[i])
    <3>1. CASE n = 1
      <4>1. prs[1].number # NoNumber /\ prs # <<>>
        BY <1>2, <2>4 DEF Numbered
      <4>2. MatchedPr(TopReview(prs), prs) \in DOMAIN prs
        BY <1>2, <4>1, TopReviewMatches
      <4>3. Matched(TopReview(prs))
        BY <1>2, <4>2 DEF Matched
      <4>4. 1 \in 1 .. kept /\ plan'[1] = review[1]
        BY <1>5, <1>6, <1>7, <2>4, <3>1, PlanAssumption
      <4> QED
        BY <1>7, <1>r, <3>1, <4>3, <4>4
    <3>2. CASE n = 0
      <4>1. PICK i \in DOMAIN plan : Matched(plan[i])
        BY <1>2, <1>r, <2>1, <2>4, <3>2 DEF Collapsed
      <4>2. asked \in Seq(Items(Words)) /\ Len(plan) + 0 <= Len(asked)
        BY <1>1 DEF Answering, NoLonger, Loops
      <4>3. kept = Len(plan)
        BY <1>5, <1>6, <2>4, <3>2, <4>2, PlanAssumption
      <4>4. i \in 1 .. kept /\ all[i] = plan[i]
        BY <1>5, <3>2, <4>3
      <4> QED
        BY <1>7, <4>1, <4>4
    <3> QED
      BY <1>r, <3>1, <3>2
  <2>5. Once(plan)'
    BY <1>4, <2>3 DEF Once
  <2> QED
    BY <2>4, <2>5
<1> QED
  BY <1>9, <1>10, <1>11, <1>12 DEF Answering

LEMMA AskAnswers ==
  ASSUME IInv, Answering, NEW reply \in PlanReplies, AskPlan(reply)
  PROVE  Answering'
<1>1. /\ pc = "plan" /\ pc' = "filter" /\ ctx.object /\ todo' = asked'
      /\ asked' = AskedItems(ChatJson(reply, PlanStub))
      /\ UNCHANGED <<ctx, plan, seen>>
  BY DEF AskPlan
<1>2. plan = <<>> /\ ctx \in Contexts
  BY <1>1, LoadedContext DEF IInv, Fresh, Loaded
<1>3. asked' \in Seq(Items(Words))
  BY <1>1, <1>2, QueueTyped, AskedItemsTyped DEF PlanStub
<1>4. \A i \in DOMAIN todo' : todo'[i] \in Range(asked')
  BY <1>1 DEF Range
<1>5. Origins'
  BY <1>1, <1>2, <1>4 DEF Origins
<1>6. NoLonger'
  BY <1>1, <1>2, <1>3 DEF NoLonger
<1>7. SaidByTheModel'
  BY <1>1, <1>2, <1>4 DEF SaidByTheModel, Said
<1>8. Reconciled' /\ BackfillWithinBudget'
  BY <1>1 DEF Answering, Reconciled, BackfillWithinBudget
<1> QED
  BY <1>5, <1>6, <1>7, <1>8 DEF Answering

LEMMA IdleAnswers ==
  ASSUME IInv, Answering, PlanWithoutContext
  PROVE  Answering'
<1>1. /\ pc = "plan" /\ pc' = "lens" /\ ~ctx.object
      /\ plan' = OfflinePlanStub(<<>>)
      /\ UNCHANGED <<ctx, asked, todo, seen>>
  BY DEF PlanWithoutContext
<1>2. DOMAIN plan' \subseteq {1}
  <2> DEFINE idle == [ReviewItem([number |-> NoNumber, title |-> NoText]) EXCEPT !.title = NoText, !.theme = {}]
  <2>1. [k \in DOMAIN <<>> |-> ReviewItem(<<>>[k])] = <<>>
    OBVIOUS
  <2>2. plan' = SubSeq(<<idle>>, 1, Lesser(1, N))
    BY <1>1, <2>1 DEF OfflinePlanStub
  <2> HIDE DEF idle
  <2> QED
    BY <2>2, PlanAssumption DEF Lesser
<1>3. Reconciled'
  <2>1. Queue' = <<>> /\ seen' = {}
    BY <1>1 DEF Queue, Answering, Reconciled
  <2> QED
    BY <1>1, <1>2, <2>1 DEF Reconciled, Once
<1>4. Origins' /\ NoLonger' /\ SaidByTheModel' /\ BackfillWithinBudget'
  BY <1>1 DEF Origins, NoLonger, Answering, SaidByTheModel, BackfillWithinBudget, Loops
<1> QED
  BY <1>3, <1>4 DEF Answering

\* The steps outside the loops change nothing that the queue is about.
LEMMA OtherAnswers ==
  ASSUME Answering,
         \/ /\ UNCHANGED <<asked, todo, plan, seen>>
            /\ \/ pc' \in {"failed", "reviewed"}
               \/ pc = "load" /\ pc' = "philosophy"
               \/ pc = "philosophy" /\ pc' = "plan" /\ ctx' = ctx
               \/ pc = "lens" /\ pc' \in {"lens", "done"} /\ ctx' = ctx
         \/ UNCHANGED vars
  PROVE  Answering'
<1>1. CASE UNCHANGED vars
  BY <1>1 DEF vars, Answering, Origins, NormAsked, NoLonger, SaidByTheModel, Said, Reconciled,
              Numbered, Queue, Collapsed, Once, Matched, KeyOf, BackfillWithinBudget
<1>2. CASE pc' \in {"failed", "reviewed"} /\ UNCHANGED <<asked, todo, plan, seen>>
  BY <1>2 DEF Answering, Origins, NoLonger, SaidByTheModel, Reconciled,
              BackfillWithinBudget, Loops
<1>3. CASE /\ UNCHANGED <<asked, todo, plan, seen>>
           /\ \/ pc = "load" /\ pc' = "philosophy"
              \/ pc = "philosophy" /\ pc' = "plan"
  BY <1>3 DEF Answering, Origins, NoLonger, SaidByTheModel, Reconciled,
              BackfillWithinBudget, Loops
<1>4. CASE /\ UNCHANGED <<asked, todo, plan, seen>>
           /\ pc = "lens" /\ pc' \in {"lens", "done"} /\ ctx' = ctx
  <2>1. Queue' = Queue /\ Numbered' = Numbered /\ \A x : Matched(x)' <=> Matched(x)
    BY <1>4 DEF Queue, Numbered, Matched
  <2>2. Reconciled'
    BY <1>4, <2>1 DEF Answering, Reconciled, Once
  <2>3. SaidByTheModel'
    BY <1>4, <2>1 DEF Answering, SaidByTheModel, Said, Loops
  <2>4. Origins' /\ NoLonger' /\ BackfillWithinBudget'
    BY <1>4 DEF Answering, Origins, NoLonger, BackfillWithinBudget, Loops
  <2> QED
    BY <2>2, <2>3, <2>4 DEF Answering
<1> QED
  BY <1>1, <1>2, <1>3, <1>4

LEMMA StepAnswers ==
  ASSUME IInv, Answering, [Next]_vars
  PROVE  Answering'
<1>1. CASE Load
  BY <1>1, OtherAnswers DEF Load
<1>2. CASE LoadRaises \/ CallRaises \/ ReviewRaises
  BY <1>2, OtherAnswers DEF LoadRaises, CallRaises, ReviewRaises, Raise
<1>3. ASSUME NEW reply \in PhilosophyReplies, InferPhilosophy(reply) PROVE Answering'
  BY <1>3, OtherAnswers DEF InferPhilosophy
<1>4. ASSUME NEW reply \in LensReplies, RunLens(reply) PROVE Answering'
  BY <1>4, OtherAnswers DEF RunLens
<1>5. ASSUME NEW reply \in DecisionReplies, Decide(reply) PROVE Answering'
  BY <1>5, OtherAnswers DEF Decide
<1>6. ASSUME NEW view \in Views, NEW reply \in ReviewReplies, Review(view, reply)
      PROVE  Answering'
  BY <1>6, OtherAnswers DEF Review
<1> QED
  BY <1>1, <1>2, <1>3, <1>4, <1>5, <1>6, AskAnswers, IdleAnswers, FilterAnswers, LoopAnswers,
     BackfillAnswers, ReconcileAnswers, FinishAnswers, OtherAnswers DEF Next

LEMMA Answers == Spec => [](IInv /\ Answering)
<1>1. Init => IInv /\ Answering
  <2>1. Init => Answering
    BY DEF Init, Answering, Origins, NoLonger, SaidByTheModel, Reconciled,
           BackfillWithinBudget, Loops
  <2> QED
    BY <2>1, Initially
<1>2. IInv /\ Answering /\ [Next]_vars => (IInv /\ Answering)'
  BY StepKeepsInvariant, StepAnswers
<1> QED
  BY <1>1, <1>2, PTL DEF Spec

\* The plan, read again as the planner reads a plan, is about no pull request
\* twice (reconcile_plan_with_queue), however its items refer to them.
THEOREM OncePerPullRequest == Spec => []OneItemPerPullRequest
<1>1. Answering => OneItemPerPullRequest
  BY DEF Answering, Reconciled, Once, Matched, OneItemPerPullRequest
<1> QED
  BY <1>1, Answers, PTL

\* open PRs are never silently ignored when reconciliation runs
\* (specs/007-agent-planner/plan.md): a plan of at most n items addresses the
\* queue, if it may have any item, and a partial backlog is never used.
THEOREM QueueIsAnswered == ASSUME N # 0 PROVE Spec => []QueueAnswered
<1>1. ASSUME IInv, Answering PROVE QueueAnswered
  <2>1. Len(asked) <= N => QueueNeverIgnored
    BY <1>1 DEF Answering, Reconciled, Matched, QueueNeverIgnored
  <2>2. ASSUME pc = "done", ctx.object, Queue = <<>>
        PROVE  \A i \in DOMAIN plan : \E a \in Range(asked) : plan[i].restates = a.restates
    BY <1>1, <2>2 DEF Answering, SaidByTheModel, Said
  <2>3. ASSUME pc = "done", ctx.object
        PROVE  Len(Titled(ContextForAgent(ctx).prs)) = Len(Queue)
    <3>1. ctx \in Contexts
      BY <1>1, <2>3, LoadedContext DEF IInv, Loaded
    <3>2. ctx.prs \in Seq(PullRequests)
      BY <3>1 DEF Contexts
    <3>3. Queue = Titled(SafePrs(ctx))
      BY <2>3 DEF Queue, PrQueue
    <3>4. CASE ctx.issuesTruncated
      <4>1. ContextForAgent(ctx).prs = <<>>
        BY <3>1, <3>4 DEF ContextForAgent, Contexts
      <4> QED
        BY <3>3, <3>4, <4>1 DEF SafePrs
    <3>5. CASE ~ctx.issuesTruncated
      <4> DEFINE labelled == WithLabelsOfT(ctx.prs)
      <4>1. ContextForAgent(ctx).prs = labelled
        BY <3>1, <3>5 DEF ContextForAgent, Contexts
      <4>2. ASSUME NEW i \in 1 .. Len(ctx.prs)
        PROVE  labelled[i] \in PullRequests /\ labelled[i].titled = ctx.prs[i].titled
        <5>1. ctx.prs[i] \in PullRequests /\ i \in DOMAIN ctx.prs
          BY <3>2
        <5>2. \/ labelled[i] = ctx.prs[i]
              \/ labelled[i] = [ctx.prs[i] EXCEPT !.labels = "omitted"]
          BY <5>1 DEF WithLabelsOfT
        <5> HIDE DEF labelled
        <5> QED
          BY <5>1, <5>2, WordsAssumption DEF PullRequests
      <4>3. labelled \in Seq(PullRequests) /\ Len(labelled) = Len(ctx.prs)
        <5>1. DOMAIN labelled = 1 .. Len(ctx.prs) /\ labelled = [i \in DOMAIN labelled |-> labelled[i]]
          BY <3>2 DEF WithLabelsOfT
        <5> HIDE DEF labelled
        <5> QED
          BY <3>2, <4>2, <5>1
      <4> HIDE DEF labelled
      <4>4. Len(Titled(labelled)) = Len(Titled(ctx.prs))
        BY <3>2, <4>2, <4>3, QueueOfSameTitles
      <4> QED
        BY <3>3, <3>5, <4>1, <4>4 DEF SafePrs
    <3> QED
      BY <3>4, <3>5
  <2> QED
    BY <2>1, <2>2, <2>3 DEF QueueAnswered
<1> QED
  BY <1>1, Answers, PTL

\* Naming files never makes a plan longer than the judge is shown
\* (_backfill_files_from_layout), whatever the names weigh.
THEOREM FilesFitTheBudget == Spec => []BackfillWithinBudget
<1>1. Answering => BackfillWithinBudget
  BY DEF Answering
<1> QED
  BY <1>1, Answers, PTL
=============================================================================
