------------------------- MODULE ImportQueueProofs --------------------------
(***************************************************************************)
(* What ImportQueue keeps for all jobs, archives, limits and sessions.     *)
(***************************************************************************)
EXTENDS ImportQueue, FiniteSetTheorems, SequenceTheorems, WellFoundedInduction, TLAPS

Loading == {"load", "submit", "drain", "tail", "post"}

\* The worker has a task while it is busy, the window holds files of it, and a
\* file is submitted or posted only where there is one.
WorkerInv ==
    /\ w.pc \in {"idle", "exited"} <=> w.task = NoTask
    /\ w.pc \in Loading => JobOf[w.task].kind = "files"
    /\ w.pc = "walk" => JobOf[w.task].kind = "archive"
    /\ w.pc \in Loading => \A k \in DOMAIN w.window : w.window[k] \in DOMAIN FilesOf(w.task)
    /\ w.pc = "submit" \/ (w.pc \in {"drain", "post"} /\ w.after = "load") =>
          w.i \in DOMAIN FilesOf(w.task)
    /\ w.pc = "post" => w.next \in DOMAIN FilesOf(w.task)

\* n is the sum of what the frames hold.
SumsTo(fs, n) ==
    \E g \in [0 .. Len(fs) -> Nat] :
        /\ g[0] = 0 /\ g[Len(fs)] = n
        /\ \A j \in 1 .. Len(fs) : g[j] = g[j - 1] + Held(fs[j])

\* The walk is within its limits, its live total is exact, and no reader is kept
\* for an archive it left.
Bounded(k) ==
    /\ SumsTo(k.frames, k.live)
    /\ \A j \in DOMAIN k.frames : k.frames[j].depth = j - 1
    /\ Len(k.frames) <= MaxDepth + 1 /\ k.seen <= MaxNested /\ k.live <= MaxLive
    /\ k.readers \subseteq OnPath(k)

WalkInv == Bounded(walk)

\* Every row is another task's; the running one is the worker's.
RowsInv ==
    /\ \A i, j \in DOMAIN rows : rows[i].id = rows[j].id => i = j
    /\ main = "run" => \A j \in DOMAIN rows : rows[j].state = "Running" => rows[j].id = w.task
    /\ main = "run" /\ w.task # NoTask =>
          \E j \in DOMAIN rows : rows[j].id = w.task /\ rows[j].state = "Running"
    /\ main # "run" => \A j \in DOMAIN rows : Finished(rows[j])

\* Who may still be at work at each point of a session.
MainInv ==
    /\ main = "run" => ~stop /\ w.pc # "exited" /\ (batchEnded => Idle(rows, records))
    /\ main = "join" => stop
    /\ main \in {"attach", "closed"} => w.pc = "exited" /\ save = "none"
    /\ save \in {"running", "ok"} => ~saveFailed

\* Whatever names a task names one that was enqueued.
UsedInv ==
    /\ \A j \in DOMAIN rows : rows[j].id \in used
    /\ w.task \in used \cup {NoTask}
    /\ \A j \in DOMAIN records : records[j].task \in used
    /\ \A j \in DOMAIN tree : tree[j].task \in used
    /\ \A t \in Task : pending[t] > 0 => t \in used

\* A reviewed task is over: nothing of it is left to be collected.
ReviewInv ==
    \A t \in reviewed :
        /\ t \in used /\ t # w.task /\ pending[t] = 0
        /\ \A j \in DOMAIN records : records[j].task # t
        /\ \A j \in DOMAIN rows : rows[j].id = t => Finished(rows[j])

\* The media of t among the elements of s.
MediaIn(s, t) == {i \in DOMAIN s : s[i].kind = "media" /\ s[i].task = t}

\* The files of t come in their order, and of the first m only.
Ordered(s, t) ==
    \A i, j \in MediaIn(s, t) : i < j =>
        \E a, b \in DOMAIN FilesOf(t) :
            a < b /\ FilesOf(t)[a].name = s[i].name /\ FilesOf(t)[b].name = s[j].name

Before(s, t, m) ==
    \A i \in MediaIn(s, t) :
        \E a \in DOMAIN FilesOf(t) : a < m /\ FilesOf(t)[a].name = s[i].name

OrderInv ==
    /\ \A t \in used : JobOf[t].kind = "files" => Ordered(tree \o records, t)
    /\ w.task # NoTask /\ JobOf[w.task].kind = "files" =>
          Before(tree \o records, w.task, w.next)
    /\ \A j \in DOMAIN rows : rows[j].state = "Queued" =>
          MediaIn(tree \o records, rows[j].id) = {}

Inv == /\ TypeOK /\ WorkerInv /\ WalkInv /\ RowsInv /\ MainInv /\ UsedInv
       /\ NothingLeftBehind /\ ReviewInv /\ ImportedCountsAttachments /\ OrderInv

-----------------------------------------------------------------------------
(* Picking elements of a sequence by their positions keeps their order. *)

\* The k-th position of I.
At(I, k) == CHOOSE j \in I : Cardinality({i \in I : i <= j}) = k

\* A position is counted by how many there are up to it: the k-th exists, is one
\* of I, every position is some k-th, and they come in order.
LEMMA Positions ==
    ASSUME NEW n \in Nat, NEW I \in SUBSET (1 .. n)
    PROVE  /\ IsFiniteSet(I) /\ Cardinality(I) \in Nat
           /\ \A k \in 1 .. Cardinality(I) : At(I, k) \in I
           /\ \A j \in I : \E k \in 1 .. Cardinality(I) : At(I, k) = j
           /\ \A k, l \in 1 .. Cardinality(I) : k < l => At(I, k) < At(I, l)
<1> DEFINE Upto(j) == {i \in I : i <= j}
           rank == [j \in I |-> Cardinality(Upto(j))]
<1>1. IsFiniteSet(I) /\ Cardinality(I) \in Nat
  <2>1. IsFiniteSet(1 .. n)
    BY FS_Interval
  <2> QED BY <2>1, FS_Subset, FS_CardinalityType
<1>2. ASSUME NEW j \in I
      PROVE  IsFiniteSet(Upto(j)) /\ Cardinality(Upto(j)) \in 1 .. Cardinality(I)
  <2>1. Upto(j) \in SUBSET I /\ j \in Upto(j)
    OBVIOUS
  <2>2. /\ IsFiniteSet(Upto(j)) /\ Cardinality(Upto(j)) \in Nat
        /\ Cardinality(Upto(j)) <= Cardinality(I)
    <3> HIDE DEF Upto
    <3> QED BY <1>1, <2>1, FS_Subset, FS_CardinalityType
  <2>3. Cardinality(Upto(j)) # 0
    <3> HIDE DEF Upto
    <3> QED BY <2>1, <2>2, FS_EmptySet
  <2> QED BY <1>1, <2>2, <2>3
<1>3. ASSUME NEW j \in I, NEW k \in I, j < k
      PROVE  Cardinality(Upto(j)) < Cardinality(Upto(k))
  <2>1. Upto(j) \in SUBSET Upto(k) /\ Upto(j) # Upto(k)
    <3>1. k \in Upto(k) /\ k \notin Upto(j)
      BY <1>3
    <3>2. \A i \in Upto(j) : i \in Upto(k)
      BY <1>3
    <3> QED BY <3>1, <3>2
  <2>2. /\ IsFiniteSet(Upto(k)) /\ Cardinality(Upto(k)) \in Nat
        /\ Cardinality(Upto(j)) \in Nat
    BY <1>1, <1>2
  <2> HIDE DEF Upto
  <2> QED BY <2>1, <2>2, FS_Subset
<1>4. \A j, k \in I : Cardinality(Upto(j)) = Cardinality(Upto(k)) => j = k
  <2> SUFFICES ASSUME NEW j \in I, NEW k \in I, Cardinality(Upto(j)) = Cardinality(Upto(k)), j # k
               PROVE  FALSE
    OBVIOUS
  <2>1. j < k \/ k < j
    OBVIOUS
  <2>2. Cardinality(Upto(j)) \in Nat /\ Cardinality(Upto(k)) \in Nat
    BY <1>1, <1>2
  <2> HIDE DEF Upto
  <2> QED BY <2>1, <2>2, <1>3
<1>5. rank \in [I -> 1 .. Cardinality(I)]
  <2> HIDE DEF Upto
  <2> QED BY <1>2
<1>6. rank \in Injection(I, 1 .. Cardinality(I))
  <2>1. \A j, k \in I : rank[j] = rank[k] => j = k
    <3> HIDE DEF Upto
    <3> QED BY <1>4
  <2> HIDE DEF rank
  <2> QED BY <1>5, <2>1 DEF Injection, IsInjective
<1>7. \A k \in 1 .. Cardinality(I) : \E j \in I : rank[j] = k
  <2>1. /\ IsFiniteSet(1 .. Cardinality(I))
        /\ Cardinality(1 .. Cardinality(I)) = Cardinality(I)
    BY <1>1, FS_Interval
  <2>2. rank \in Surjection(I, 1 .. Cardinality(I))
    <3> HIDE DEF rank
    <3> QED BY <1>6, <2>1, FS_Injection
  <2> HIDE DEF rank
  <2> QED BY <2>2 DEF Surjection
<1>8. \A k \in 1 .. Cardinality(I) : At(I, k) \in I /\ Cardinality(Upto(At(I, k))) = k
  <2> SUFFICES ASSUME NEW k \in 1 .. Cardinality(I)
               PROVE  At(I, k) \in I /\ Cardinality(Upto(At(I, k))) = k
    OBVIOUS
  <2>1. \E j \in I : Cardinality(Upto(j)) = k
    BY <1>7
  <2> QED BY <2>1 DEF At
<1>9. \A j \in I : At(I, Cardinality(Upto(j))) = j
  <2> SUFFICES ASSUME NEW j \in I PROVE At(I, Cardinality(Upto(j))) = j
    OBVIOUS
  <2> DEFINE k == Cardinality(Upto(j))
  <2>1. k \in 1 .. Cardinality(I)
    BY <1>2
  <2>2. At(I, k) \in I /\ Cardinality(Upto(At(I, k))) = k
    <3> HIDE DEF k, Upto
    <3> QED BY <2>1, <1>8
  <2> HIDE DEF Upto
  <2> QED BY <2>2, <1>4
<1>10. \A k, l \in 1 .. Cardinality(I) : k < l => At(I, k) < At(I, l)
  <2> SUFFICES ASSUME NEW k \in 1 .. Cardinality(I), NEW l \in 1 .. Cardinality(I), k < l,
                      ~(At(I, k) < At(I, l))
               PROVE  FALSE
    OBVIOUS
  <2> DEFINE a == At(I, k)
             b == At(I, l)
  <2>1. /\ a \in I /\ Cardinality(Upto(a)) = k
        /\ b \in I /\ Cardinality(Upto(b)) = l
    <3> HIDE DEF Upto
    <3> QED BY <1>8
  <2>2. b < a \/ b = a
    <3>1. a \in I /\ b \in I /\ ~(a < b)
      <4> HIDE DEF Upto
      <4> QED BY <2>1
    <3> HIDE DEF a, b
    <3> QED BY <3>1
  <2> HIDE DEF a, b, Upto
  <2> QED BY <2>1, <2>2, <1>1, <1>3
<1> QED
  <2>1. ASSUME NEW j \in I PROVE \E k \in 1 .. Cardinality(I) : At(I, k) = j
    <3>1. Cardinality(Upto(j)) \in 1 .. Cardinality(I) /\ At(I, Cardinality(Upto(j))) = j
      BY <1>2, <1>9
    <3> HIDE DEF Upto
    <3> QED BY <3>1
  <2> QED BY <1>1, <1>8, <1>10, <2>1

\* What Picked returns.
LEMMA PickedElements ==
    ASSUME NEW S, NEW s \in Seq(S), NEW I \in SUBSET (1 .. Len(s))
    PROVE  /\ Picked(s, I) \in Seq(S) /\ Len(Picked(s, I)) = Cardinality(I)
           /\ Cardinality(I) \in Nat
           /\ \A k \in 1 .. Cardinality(I) : Picked(s, I)[k] = s[At(I, k)] /\ At(I, k) \in I
<1>0. Len(s) \in Nat /\ DOMAIN s = 1 .. Len(s)
  OBVIOUS
<1>1. Cardinality(I) \in Nat /\ \A k \in 1 .. Cardinality(I) : At(I, k) \in I
  BY <1>0, Positions
<1>2. Picked(s, I) = [k \in 1 .. Cardinality(I) |-> s[At(I, k)]]
  BY Zenon DEF Picked, At
<1>3. \A k \in 1 .. Cardinality(I) : s[At(I, k)] \in S
  <2> SUFFICES ASSUME NEW k \in 1 .. Cardinality(I) PROVE s[At(I, k)] \in S
    OBVIOUS
  <2>1. At(I, k) \in 1 .. Len(s)
    BY <1>1
  <2> QED BY <1>0, <2>1
<1> QED BY <1>1, <1>2, <1>3

-----------------------------------------------------------------------------
(* The walk keeps its type and its limits. *)

\* The plans of an archive consist of its entries.
LEMMA Plans ==
    ASSUME NEW a \in Archive
    PROVE  /\ Placements(a) \in Seq(Entry) /\ Nested(a) \in Seq(Entry) /\ Unsupported(a) \in Nat
           /\ Bytes[a] \in Nat
<1>1. /\ Contents[a] \in Seq(Entry) /\ Len(Contents[a]) \in Nat
      /\ DOMAIN Contents[a] = 1 .. Len(Contents[a])
  BY WalkAssumption
<1>2. \A what : Those(a, what) \in SUBSET (1 .. Len(Contents[a]))
  BY <1>1 DEF Those
<1>3. \A what : Picked(Contents[a], Those(a, what)) \in Seq(Entry)
                /\ Cardinality(Those(a, what)) \in Nat
  BY <1>1, <1>2, PickedElements
<1>4. Placements(a) = Picked(Contents[a], Those(a, "media"))
  BY DEF Placements, MediaPlan
<1>5. Nested(a) = IF Kind[a] \in {"cbz", "folder"} THEN << >>
                  ELSE Picked(Contents[a], Those(a, "archive"))
  BY DEF Nested, NestedPlan
<1>6. << >> \in Seq(Entry) /\ Bytes[a] \in Nat
  BY WalkAssumption
<1>7. Unsupported(a) \in Nat
  BY <1>3 DEF Unsupported
<1> QED BY <1>3, <1>4, <1>5, <1>6, <1>7

LEMMA TopFrame ==
    ASSUME NEW k \in Walk, k.frames # << >>
    PROVE  /\ Len(k.frames) \in Nat \ {0} /\ Len(k.frames) \in DOMAIN k.frames
           /\ Top(k) = k.frames[Len(k.frames)] /\ Top(k) \in Frame
BY DEF Walk, Top, Last

LEMMA HeldNat ==
    ASSUME NEW f \in Frame
    PROVE  Held(f) \in Nat
BY WalkAssumption DEF Held, Frame

\* The sum depends on the archives and depths of the frames alone.
LEMMA SameSum ==
    ASSUME NEW fs, NEW gs, NEW n, SumsTo(fs, n), Len(gs) = Len(fs), Len(fs) \in Nat,
           \A j \in 1 .. Len(fs) : gs[j].archive = fs[j].archive /\ gs[j].depth = fs[j].depth
    PROVE  SumsTo(gs, n)
<1>1. \A j \in 1 .. Len(fs) : Held(gs[j]) = Held(fs[j])
  BY DEF Held
<1> QED BY <1>1 DEF SumsTo

LEMMA EmptySum == SumsTo(<< >>, 0)
<1> DEFINE g == [j \in 0 .. 0 |-> 0]
<1>1. g \in [0 .. Len(<< >>) -> Nat] /\ g[0] = 0 /\ g[Len(<< >>)] = 0
  OBVIOUS
<1>2. \A j \in 1 .. Len(<< >>) : g[j] = g[j - 1] + Held(<< >>[j])
  OBVIOUS
<1> HIDE DEF g
<1> QED BY <1>1, <1>2 DEF SumsTo

\* One frame more.
LEMMA LongerSum ==
    ASSUME NEW fs \in Seq(Frame), NEW gs \in Seq(Frame), NEW n, SumsTo(fs, n),
           Len(gs) = Len(fs) + 1, \A j \in 1 .. Len(fs) : gs[j] = fs[j]
    PROVE  SumsTo(gs, n + Held(gs[Len(gs)]))
<1> DEFINE m == Len(fs)
<1>1. m \in Nat /\ Len(gs) = m + 1 /\ Held(gs[m + 1]) \in Nat
  <2>1. m \in Nat /\ gs[m + 1] \in Frame
    OBVIOUS
  <2> QED BY <2>1, HeldNat
<1>2. PICK g \in [0 .. m -> Nat] :
         /\ g[0] = 0 /\ g[m] = n /\ \A j \in 1 .. m : g[j] = g[j - 1] + Held(fs[j])
  BY DEF SumsTo
<1> DEFINE h == [j \in 0 .. m + 1 |-> IF j = m + 1 THEN n + Held(gs[m + 1]) ELSE g[j]]
<1>3. n \in Nat
  BY <1>1, <1>2
<1>4. h \in [0 .. m + 1 -> Nat] /\ h[0] = 0 /\ h[m + 1] = n + Held(gs[m + 1])
  BY <1>1, <1>2, <1>3
<1>5. \A j \in 1 .. m + 1 : h[j] = h[j - 1] + Held(gs[j])
  BY <1>1, <1>2, <1>3
<1> HIDE DEF h, m
<1> QED BY <1>1, <1>4, <1>5 DEF SumsTo

\* One frame less: the sum holds what it held.
LEMMA ShorterSum ==
    ASSUME NEW fs \in Seq(Frame), NEW gs \in Seq(Frame), NEW n, SumsTo(fs, n), fs # << >>,
           Len(gs) = Len(fs) - 1,
           \A j \in 1 .. Len(gs) : gs[j].archive = fs[j].archive /\ gs[j].depth = fs[j].depth
    PROVE  /\ n \in Nat /\ Held(fs[Len(fs)]) \in Nat /\ Held(fs[Len(fs)]) <= n
           /\ SumsTo(gs, n - Held(fs[Len(fs)]))
<1> DEFINE m == Len(fs)
<1>1. m \in Nat \ {0} /\ Len(gs) = m - 1 /\ Held(fs[m]) \in Nat
  <2>1. m \in Nat \ {0} /\ fs[m] \in Frame
    OBVIOUS
  <2> QED BY <2>1, HeldNat
<1>2. PICK g \in [0 .. m -> Nat] :
         /\ g[0] = 0 /\ g[m] = n /\ \A j \in 1 .. m : g[j] = g[j - 1] + Held(fs[j])
  BY DEF SumsTo
<1>3. n = g[m - 1] + Held(fs[m]) /\ g[m - 1] \in Nat /\ n \in Nat
  <2>1. m \in 1 .. m /\ m - 1 \in 0 .. m
    BY <1>1
  <2> HIDE DEF m
  <2> QED BY <1>1, <1>2, <2>1
<1> DEFINE h == [j \in 0 .. m - 1 |-> g[j]]
<1>4. h \in [0 .. m - 1 -> Nat] /\ h[0] = 0 /\ h[m - 1] = n - Held(fs[m])
  <2>1. 0 \in 0 .. m - 1 /\ m - 1 \in 0 .. m - 1 /\ 0 .. m - 1 \subseteq 0 .. m
    BY <1>1
  <2>2. g[m - 1] = n - Held(fs[m])
    BY <1>1, <1>3
  <2> HIDE DEF m
  <2> QED BY <1>2, <2>1, <2>2
<1>5. \A j \in 1 .. m - 1 : h[j] = h[j - 1] + Held(gs[j])
  <2>1. \A j \in 1 .. m - 1 : Held(gs[j]) = Held(fs[j])
    BY <1>1 DEF Held
  <2> QED BY <1>1, <1>2, <2>1
<1>6. SumsTo(gs, n - Held(fs[m]))
  <2> HIDE DEF h, m
  <2> QED BY <1>1, <1>4, <1>5 DEF SumsTo
<1> QED BY <1>1, <1>3, <1>6

LEMMA LeastNatural ==
    ASSUME NEW S \in SUBSET Nat, S # {}
    PROVE  \E m \in S : \A i \in S : m <= i
<1> DEFINE R == {ss \in Nat \X Nat : ss[1] < ss[2]}
<1>1. IsWellFoundedOn(R, Nat)
  BY NatLessThanWellFounded, Zenon DEF OpToRel
<1>2. PICK m \in S : \A i \in S : ~ (<< i, m >> \in R)
  <2> HIDE DEF R
  <2> QED BY <1>1, WFMin, Zenon
<1>3. ASSUME NEW i \in S PROVE m <= i
  <2>1. i \in Nat /\ m \in Nat /\ ~ (<< i, m >> \in R)
    BY <1>2
  <2>2. ~ (i < m)
    BY <2>1
  <2> QED BY <2>1, <2>2
<1> QED BY <1>3

\* The sum is what the recursion computes: two functions that satisfy its
\* equation differ nowhere, as they would differ at a least place.
LEMMA SumIsLive ==
    ASSUME NEW k \in Walk, NEW n, SumsTo(k.frames, n)
    PROVE  n = LiveOnPath(k)
<1> DEFINE m == Len(k.frames)
           Step(g) == [j \in 0 .. m |-> IF j = 0 THEN 0 ELSE g[j - 1] + Held(k.frames[j])]
           Upto == CHOOSE g : g = Step(g)
<1>1. m \in Nat
  BY DEF Walk
<1>2. PICK g \in [0 .. m -> Nat] :
         /\ g[0] = 0 /\ g[m] = n
         /\ \A j \in 1 .. m : g[j] = g[j - 1] + Held(k.frames[j])
  BY DEF SumsTo
<1>3. g = Step(g)
  BY <1>1, <1>2
<1>4. Upto = Step(Upto)
  <2> HIDE DEF Step
  <2> QED BY <1>3
<1>5. \A j \in 0 .. m : Upto[j] = g[j]
  <2> DEFINE Bad == {j \in 0 .. m : Upto[j] # g[j]}
  <2>1. ASSUME Bad # {} PROVE FALSE
    <3>1. Bad \in SUBSET Nat
      OBVIOUS
    <3>2. PICK j \in Bad : \A i \in Bad : j <= i
      <4> HIDE DEF Bad
      <4> QED BY <2>1, <3>1, LeastNatural
    <3>3. j \in 0 .. m /\ Upto[j] # g[j]
      BY <3>2
    <3>4. Upto[j] = (IF j = 0 THEN 0 ELSE Upto[j - 1] + Held(k.frames[j]))
      <4> HIDE DEF Upto
      <4> QED BY <1>4, <3>3
    <3>5. g[j] = IF j = 0 THEN 0 ELSE g[j - 1] + Held(k.frames[j])
      BY <1>1, <1>2, <3>3
    <3>6. j # 0
      BY <3>3, <3>4, <3>5
    <3>7. j - 1 \in 0 .. m /\ j - 1 < j
      BY <1>1, <3>3, <3>6
    <3>8. Upto[j - 1] = g[j - 1]
      <4> HIDE DEF Upto
      <4> QED BY <3>2, <3>7, <1>1, <3>3
    <3> HIDE DEF Upto
    <3> QED BY <3>3, <3>4, <3>5, <3>8
  <2> QED BY <2>1
<1>6. LiveOnPath(k) = Upto[m]
  BY DEF LiveOnPath
<1> HIDE DEF Upto
<1> QED BY <1>1, <1>2, <1>5, <1>6

\* A record of the walk with other counters.
LEMMA CountersOnly ==
    ASSUME NEW k \in Walk, Bounded(k), NEW j \in Walk, j.frames = k.frames, j.live = k.live,
           j.seen = k.seen, j.readers = k.readers
    PROVE  Bounded(j)
BY DEF Bounded, OnPath

\* Another phase or position of the top frame.
LEMMA TopMoved ==
    ASSUME NEW k \in Walk, Bounded(k), k.frames # << >>, NEW j \in Walk, j.live = k.live,
           j.seen = k.seen, j.readers = k.readers, NEW f \in Frame,
           f.archive = Top(k).archive, f.depth = Top(k).depth,
           j.frames = [k.frames EXCEPT ![Len(k.frames)] = f]
    PROVE  Bounded(j)
<1>1. /\ Len(k.frames) \in DOMAIN k.frames /\ Top(k) = k.frames[Len(k.frames)]
      /\ k.frames \in Seq(Frame)
  BY TopFrame DEF Walk
<1>2. DOMAIN j.frames = DOMAIN k.frames /\ Len(j.frames) = Len(k.frames)
  BY <1>1
<1>3. \A i \in DOMAIN k.frames : /\ j.frames[i].archive = k.frames[i].archive
                                 /\ j.frames[i].depth = k.frames[i].depth
  BY <1>1
<1>4. OnPath(j) = OnPath(k)
  BY <1>2, <1>3 DEF OnPath
<1>5. SumsTo(j.frames, j.live)
  <2>1. SumsTo(k.frames, k.live) /\ Len(k.frames) \in Nat /\ DOMAIN k.frames = 1 .. Len(k.frames)
    BY <1>1 DEF Bounded
  <2> QED BY <1>2, <1>3, <2>1, SameSum
<1> QED BY <1>2, <1>3, <1>4, <1>5 DEF Bounded

\* A frame of the walk with its phase and position replaced.
Moved(g, phase, i) == [g EXCEPT !.phase = phase, !.i = i]

LEMMA FrameMoved ==
    ASSUME NEW g \in Frame, NEW phase \in {"list", "gallery", "tags", "media", "nested"},
           NEW i \in Nat \ {0}
    PROVE  /\ Moved(g, phase, i) \in Frame
           /\ Moved(g, phase, i).archive = g.archive
           /\ Moved(g, phase, i).depth = g.depth
BY DEF Frame, Moved

LEMMA ToOK ==
    ASSUME NEW k \in Walk, Bounded(k), k.frames # << >>,
           NEW phase \in {"list", "gallery", "tags", "media", "nested"}
    PROVE  To(k, phase) \in Walk /\ Bounded(To(k, phase)) /\ To(k, phase).frames # << >>
<1> DEFINE f == Moved(Top(k), phase, 1)
           n == Len(k.frames)
<1>1. /\ n \in DOMAIN k.frames /\ Top(k) = k.frames[n] /\ Top(k) \in Frame
      /\ k.frames \in Seq(Frame)
  BY TopFrame DEF Walk
<1>2. f \in Frame /\ f.archive = Top(k).archive /\ f.depth = Top(k).depth
  <2>1. 1 \in Nat \ {0} /\ Top(k) \in Frame
    BY <1>1
  <2> QED BY <2>1, FrameMoved
<1>3. To(k, phase) = [k EXCEPT !.frames = [k.frames EXCEPT ![n] = f]]
  BY <1>1 DEF To, Walk, Frame, Moved
<1>4. [k.frames EXCEPT ![n] = f] \in Seq(Frame) /\ [k.frames EXCEPT ![n] = f] # << >>
  <2> HIDE DEF f
  <2> QED BY <1>1, <1>2
<1>5. To(k, phase) \in Walk /\ To(k, phase).frames = [k.frames EXCEPT ![n] = f]
      /\ To(k, phase).live = k.live /\ To(k, phase).seen = k.seen
      /\ To(k, phase).readers = k.readers
  <2> HIDE DEF f, n
  <2> QED BY <1>3, <1>4 DEF Walk
<1> HIDE DEF f
<1> QED BY <1>2, <1>4, <1>5, TopMoved

LEMMA NextOK ==
    ASSUME NEW k \in Walk, Bounded(k), k.frames # << >>
    PROVE  LET j == [k EXCEPT !.frames[Len(k.frames)].i = @ + 1] IN
           /\ j \in Walk /\ Bounded(j) /\ Skip(k) \in Walk /\ Bounded(Skip(k))
           /\ Skip(k).frames = j.frames /\ j.frames # << >>
<1> DEFINE n == Len(k.frames)
           f == Moved(Top(k), Top(k).phase, Top(k).i + 1)
           fs == [k.frames EXCEPT ![n] = f]
           j == [k EXCEPT !.frames[n].i = @ + 1]
<1>1. /\ n \in DOMAIN k.frames /\ Top(k) = k.frames[n] /\ Top(k) \in Frame
      /\ k.frames \in Seq(Frame)
  BY TopFrame DEF Walk
<1>2. f \in Frame /\ f.archive = Top(k).archive /\ f.depth = Top(k).depth
  <2>1. /\ Top(k).i + 1 \in Nat \ {0} /\ Top(k) \in Frame
        /\ Top(k).phase \in {"list", "gallery", "tags", "media", "nested"}
    BY <1>1 DEF Frame
  <2> QED BY <2>1, FrameMoved
<1>3. j = [k EXCEPT !.frames = fs] /\ Skip(k) = [k EXCEPT !.frames = fs, !.skipped = @ + 1]
  BY <1>1 DEF Skip, Walk, Frame, Moved
<1>4. fs \in Seq(Frame) /\ fs # << >>
  <2> HIDE DEF f
  <2> QED BY <1>1, <1>2
<1>5. /\ j \in Walk /\ j.frames = fs /\ j.live = k.live /\ j.seen = k.seen
      /\ j.readers = k.readers
  <2> HIDE DEF fs, j
  <2> QED BY <1>3, <1>4 DEF Walk
<1>6. /\ Skip(k) \in Walk /\ Skip(k).frames = fs /\ Skip(k).live = k.live
      /\ Skip(k).seen = k.seen /\ Skip(k).readers = k.readers
  <2>1. k.skipped + 1 \in Nat
    BY DEF Walk
  <2>2. Skip(k) = [k EXCEPT !.frames = fs, !.skipped = k.skipped + 1]
    BY <1>3
  <2> HIDE DEF fs, j
  <2> QED BY <1>4, <2>1, <2>2 DEF Walk
<1>7. Bounded(j) /\ Bounded(Skip(k))
  <2> HIDE DEF f, j
  <2> QED BY <1>2, <1>4, <1>5, <1>6, TopMoved
<1> QED BY <1>4, <1>5, <1>6, <1>7

\* Leaving an archive gives its bytes back and no more than there are.
LEMMA LeaveLess ==
    ASSUME NEW a \in Nat, NEW b \in Nat
    PROVE  /\ Leave(a, b) \in Nat /\ Leave(a, b) <= a
           /\ b <= a => Leave(a, b) = a - b
<1>1. \E x \in {a, b} : \A y \in {a, b} : x <= y
  OBVIOUS
<1>2. Min({a, b}) \in {a, b} /\ \A y \in {a, b} : Min({a, b}) <= y
  BY <1>1 DEF Min
<1> QED BY <1>2 DEF Leave

LEMMA PopOK ==
    ASSUME NEW k \in Walk, Bounded(k), k.frames # << >>
    PROVE  Pop(k) \in Walk /\ Bounded(Pop(k))
<1> DEFINE n == Len(k.frames)
           f == Top(k)
           below == Front(k.frames)
           fs == IF below = << >> THEN << >> ELSE [below EXCEPT ![Len(below)].i = @ + 1]
           left == IF f.depth = 0 THEN k.live ELSE Leave(k.live, Bytes[f.archive])
           j == Pop(k)
<1>1. /\ n \in DOMAIN k.frames /\ f = k.frames[n] /\ f \in Frame /\ n \in Nat \ {0}
      /\ k.frames \in Seq(Frame) /\ DOMAIN k.frames = 1 .. n
  BY TopFrame DEF Walk
<1>2. below = [i \in 1 .. n - 1 |-> k.frames[i]]
  BY DEF Front
<1>3. /\ below \in Seq(Frame) /\ Len(below) = n - 1
      /\ \A i \in 1 .. n - 1 : below[i] = k.frames[i] /\ k.frames[i] \in Frame
  <2> HIDE DEF below
  <2> QED BY <1>1, <1>2
<1>4. /\ fs \in Seq(Frame) /\ Len(fs) = n - 1
      /\ \A i \in 1 .. n - 1 : /\ fs[i].archive = k.frames[i].archive
                               /\ fs[i].depth = k.frames[i].depth
  <2>1. CASE below = << >>
    <3>1. n = 1
      BY <1>1, <1>3, <2>1
    <3>2. fs = << >>
      BY <2>1
    <3> HIDE DEF fs
    <3> QED BY <3>1, <3>2
  <2>2. CASE below # << >>
    <3> DEFINE g == Moved(k.frames[n - 1], k.frames[n - 1].phase, k.frames[n - 1].i + 1)
    <3>1. n - 1 \in 1 .. n - 1 /\ below[n - 1] = k.frames[n - 1] /\ k.frames[n - 1] \in Frame
      BY <1>1, <1>3, <2>2
    <3>2. g \in Frame /\ g.archive = k.frames[n - 1].archive /\ g.depth = k.frames[n - 1].depth
      <4>1. /\ k.frames[n - 1].i + 1 \in Nat \ {0}
            /\ k.frames[n - 1].phase \in {"list", "gallery", "tags", "media", "nested"}
        BY <3>1 DEF Frame
      <4> QED BY <3>1, <4>1, FrameMoved
    <3>3. fs = [below EXCEPT ![n - 1] = g]
      <4>1. Len(below) = n - 1
        BY <1>3
      <4>2. [below[n - 1] EXCEPT !.i = below[n - 1].i + 1] = g
        BY <3>1 DEF Frame, Moved
      <4>3. fs = [below EXCEPT ![n - 1].i = @ + 1]
        BY <2>2, <4>1
      <4> HIDE DEF below, fs, g
      <4> QED BY <1>3, <3>1, <4>2, <4>3
    <3> HIDE DEF fs, g, below
    <3> QED BY <1>1, <1>3, <3>1, <3>2, <3>3
  <2> QED BY <2>1, <2>2
<1>5. left \in Nat /\ left <= k.live
  <2>1. k.live \in Nat /\ Bytes[f.archive] \in Nat
    BY <1>1, WalkAssumption DEF Walk, Frame
  <2>2. /\ Leave(k.live, Bytes[f.archive]) \in Nat
        /\ Leave(k.live, Bytes[f.archive]) <= k.live
    BY <2>1, LeaveLess, Zenon
  <2> HIDE DEF f
  <2> QED BY <2>1, <2>2
<1>6. j = [k EXCEPT !.frames = fs, !.live = left, !.readers = k.readers \ {f.archive}]
  BY DEF Pop, DropReader, Walk
<1>7. /\ j \in Walk /\ j.frames = fs /\ j.live = left /\ j.seen = k.seen
      /\ j.readers = k.readers \ {f.archive}
  <2> HIDE DEF fs, left, f, j
  <2> QED BY <1>4, <1>5, <1>6 DEF Walk
<1>8. j.readers \subseteq OnPath(j)
  <2> SUFFICES ASSUME NEW a \in j.readers PROVE a \in OnPath(j)
    OBVIOUS
  <2>1. a \in OnPath(k) /\ a # f.archive
    BY <1>7 DEF Bounded
  <2>2. PICK i \in 1 .. n : a = k.frames[i].archive
    BY <1>1, <2>1 DEF OnPath
  <2>3. i \in 1 .. n - 1
    BY <1>1, <2>1, <2>2
  <2>4. i \in DOMAIN fs /\ fs[i].archive = a
    <3> HIDE DEF fs
    <3> QED BY <1>1, <1>4, <2>2, <2>3
  <2> HIDE DEF fs, j
  <2> QED BY <2>4, <1>7 DEF OnPath
<1>9. Bounded(j)
  <2>1. \A i \in 1 .. n : k.frames[i].depth = i - 1
    BY <1>1 DEF Bounded
  <2>2. n <= MaxDepth + 1 /\ k.seen <= MaxNested /\ k.live <= MaxLive /\ MaxLive \in Nat
        /\ MaxDepth \in Nat /\ k.live \in Nat
    BY WalkAssumption DEF Bounded, Walk
  <2>3. DOMAIN j.frames = 1 .. n - 1 /\ \A i \in 1 .. n - 1 : j.frames[i].depth = i - 1
    <3> HIDE DEF fs, j
    <3> QED BY <1>1, <1>4, <1>7, <2>1
  <2>4. Len(j.frames) <= MaxDepth + 1 /\ j.seen <= MaxNested /\ j.live <= MaxLive
    <3> HIDE DEF fs, j, left, f
    <3> QED BY <1>1, <1>4, <1>5, <1>7, <2>2
  <2>5. SumsTo(j.frames, j.live)
    <3>1. /\ Held(k.frames[n]) \in Nat /\ Held(k.frames[n]) <= k.live
          /\ SumsTo(fs, k.live - Held(k.frames[n]))
      <4>1. SumsTo(k.frames, k.live) /\ k.frames \in Seq(Frame)
        BY <1>1 DEF Bounded
      <4>2. \A i \in 1 .. Len(fs) : /\ fs[i].archive = k.frames[i].archive
                                    /\ fs[i].depth = k.frames[i].depth
        <5> HIDE DEF fs
        <5> QED BY <1>4
      <4> HIDE DEF fs
      <4> QED BY <1>4, <4>1, <4>2, ShorterSum
    <3>2. left = k.live - Held(k.frames[n])
      <4>1. CASE f.depth = 0
        BY <1>1, <2>2, <4>1 DEF Held
      <4>2. CASE f.depth # 0
        <5>1. Held(k.frames[n]) = Bytes[f.archive] /\ left = Leave(k.live, Bytes[f.archive])
          BY <1>1, <4>2 DEF Held
        <5> HIDE DEF left, f
        <5> QED BY <2>2, <3>1, <5>1, LeaveLess
      <4> QED BY <4>1, <4>2
    <3> HIDE DEF fs, j, left
    <3> QED BY <1>7, <3>1, <3>2
  <2> HIDE DEF j
  <2> QED BY <1>8, <2>3, <2>4, <2>5 DEF Bounded
<1> QED BY <1>7, <1>9

\* Counters and flags.
LEMMA FlagsOK ==
    ASSUME NEW k \in Walk, Bounded(k), NEW n \in Nat, NEW a \in BOOLEAN, NEW b \in BOOLEAN
    PROVE  LET j == [k EXCEPT !.skipped = n, !.rootUnreadable = a, !.rootError = b] IN
           /\ j \in Walk /\ Bounded(j) /\ j.frames = k.frames
<1> DEFINE j == [k EXCEPT !.skipped = n, !.rootUnreadable = a, !.rootError = b]
<1>1. /\ j \in Walk /\ j.frames = k.frames /\ j.live = k.live /\ j.seen = k.seen
      /\ j.readers = k.readers
  BY DEF Walk
<1>2. Bounded(j)
  <2> HIDE DEF j
  <2> QED BY <1>1, CountersOnly
<1> QED BY <1>1, <1>2

LEMMA NoteOK ==
    ASSUME NEW k \in Walk, Bounded(k), NEW e \in Entry
    PROVE  LET j == NoteExpanded(k, e) IN
           /\ j \in Walk /\ Bounded(j) /\ j.frames = k.frames /\ j.live = k.live /\ j.seen = k.seen
<1> DEFINE more == IF e.sub = NoArchive THEN 1 ELSE Bytes[e.sub]
           j == NoteExpanded(k, e)
<1>1. k.expanded + more \in Nat
  <2>1. e.sub \in Archive \cup {NoArchive} /\ k.expanded \in Nat
    BY DEF Entry, Walk
  <2> QED BY <2>1, WalkAssumption
<1>2. j = [k EXCEPT !.expanded = k.expanded + more]
  BY DEF NoteExpanded, Walk
<1>3. /\ j \in Walk /\ j.frames = k.frames /\ j.live = k.live /\ j.seen = k.seen
      /\ j.readers = k.readers
  <2> HIDE DEF more, j
  <2> QED BY <1>1, <1>2 DEF Walk
<1>4. Bounded(j)
  <2> HIDE DEF j
  <2> QED BY <1>3, CountersOnly
<1> QED BY <1>3, <1>4

LEMMA UnextractedOK ==
    ASSUME NEW k \in Walk, Bounded(k), k.frames # << >>
    PROVE  Unextracted(k) \in Walk /\ Bounded(Unextracted(k))
<1> DEFINE j == Skip(k)
           b == j.rootError \/ Captures(k)
           r == [j EXCEPT !.skipped = j.skipped, !.rootUnreadable = j.rootUnreadable,
                          !.rootError = b]
<1>1. j \in Walk /\ Bounded(j)
  BY NextOK
<1>2. j.skipped \in Nat /\ j.rootUnreadable \in BOOLEAN /\ b \in BOOLEAN
  <2>1. b \in BOOLEAN
    OBVIOUS
  <2> QED BY <1>1, <2>1 DEF Walk
<1>3. Unextracted(k) = r
  <2> HIDE DEF j
  <2>1. Unextracted(k) = [j EXCEPT !.rootError = b]
    BY DEF Unextracted, j
  <2> HIDE DEF b
  <2> QED BY <1>1, <2>1 DEF Walk
<1>4. r \in Walk /\ Bounded(r)
  <2> HIDE DEF j, b
  <2> QED BY <1>1, <1>2, FlagsOK, Zenon
<1> QED BY <1>3, <1>4

LEMMA CountUnsupportedOK ==
    ASSUME NEW k \in Walk, Bounded(k), k.frames # << >>, NEW folder \in BOOLEAN
    PROVE  LET j == CountUnsupported(k, folder) IN
           j \in Walk /\ Bounded(j) /\ j.frames = k.frames
<1> DEFINE n == k.skipped + Unsupported(Top(k).archive)
           r == [k EXCEPT !.skipped = n, !.rootUnreadable = k.rootUnreadable,
                          !.rootError = k.rootError]
<1>1. n \in Nat /\ k.rootUnreadable \in BOOLEAN /\ k.rootError \in BOOLEAN
  <2>1. Top(k).archive \in Archive
    BY TopFrame DEF Frame
  <2> QED BY <2>1, Plans DEF Walk
<1>2. r \in Walk /\ Bounded(r) /\ r.frames = k.frames
  <2>1. r.frames = k.frames
    BY DEF Walk
  <2>2. r \in Walk /\ Bounded(r)
    <3> HIDE DEF n
    <3> QED BY <1>1, FlagsOK, Zenon
  <2> QED BY <2>1, <2>2
<1>3. CountUnsupported(k, folder) = r \/ CountUnsupported(k, folder) = k
  <2>1. [k EXCEPT !.skipped = @ + Unsupported(Top(k).archive)] = r
    BY DEF Walk
  <2> QED BY <2>1 DEF CountUnsupported
<1> HIDE DEF r
<1> QED BY <1>2, <1>3

\* Entering a nested archive that may_descend has let through.
LEMMA EnterOK ==
    ASSUME NEW k \in Walk, Bounded(k), k.frames # << >>,
           NEW sub \in Archive, sub = Nested(Top(k).archive)[Top(k).i].sub, MayDescend(k, sub)
    PROVE  Enter(k) \in Walk /\ Bounded(Enter(k))
<1> DEFINE n == Len(k.frames)
           f == Top(k)
           g == FrameOf(sub, f.depth + 1)
           fs == Append(k.frames, g)
           j == Enter(k)
<1>1. /\ n \in DOMAIN k.frames /\ f = k.frames[n] /\ f \in Frame /\ n \in Nat \ {0}
      /\ k.frames \in Seq(Frame) /\ DOMAIN k.frames = 1 .. n
  BY TopFrame DEF Walk
<1>2. /\ g \in Frame /\ g.depth = f.depth + 1 /\ f.depth = n - 1
  <2>1. f.depth \in Nat
    BY <1>1 DEF Frame
  <2>2. g \in Frame /\ g.depth = f.depth + 1
    BY <2>1 DEF FrameOf, Frame
  <2>3. f.depth = n - 1
    BY <1>1 DEF Bounded
  <2> QED BY <2>2, <2>3
<1>3. /\ fs \in Seq(Frame) /\ Len(fs) = n + 1 /\ fs[n + 1] = g /\ DOMAIN fs = 1 .. n + 1
      /\ \A i \in 1 .. n : fs[i] = k.frames[i]
  <2> HIDE DEF g
  <2> QED BY <1>1, <1>2
<1>4. Bytes[sub] \in Nat /\ k.live \in Nat /\ k.seen \in Nat /\ k.entered \in SUBSET Archive
  BY WalkAssumption DEF Walk
<1>5. j = [k EXCEPT !.frames = fs, !.live = k.live + Bytes[sub], !.seen = k.seen + 1,
                    !.entered = k.entered \cup {sub}]
  BY DEF Enter, Walk
<1>6. /\ j \in Walk /\ j.frames = fs /\ j.live = k.live + Bytes[sub] /\ j.seen = k.seen + 1
      /\ j.readers = k.readers
  <2>1. /\ k.live + Bytes[sub] \in Nat /\ k.seen + 1 \in Nat
        /\ k.entered \cup {sub} \in SUBSET Archive
    BY <1>4
  <2> HIDE DEF fs, j, n, f, g
  <2> QED BY <1>3, <1>5, <2>1 DEF Walk
<1>7. j.live <= MaxLive /\ j.seen <= MaxNested /\ Len(j.frames) <= MaxDepth + 1
  <2>1. f.depth < MaxDepth /\ k.seen < MaxNested /\ k.live + Bytes[sub] <= MaxLive
    BY DEF MayDescend
  <2>2. {MaxDepth, MaxNested, MaxLive} \subseteq Nat
    BY WalkAssumption
  <2> HIDE DEF f, fs, j
  <2> QED BY <1>1, <1>2, <1>3, <1>4, <1>6, <2>1, <2>2
<1>8. \A i \in DOMAIN j.frames : j.frames[i].depth = i - 1
  <2>1. \A i \in 1 .. n : k.frames[i].depth = i - 1
    BY <1>1 DEF Bounded
  <2> HIDE DEF f, fs, j, g
  <2> QED BY <1>1, <1>2, <1>3, <1>6, <2>1
<1>9. j.readers \subseteq OnPath(j)
  <2>1. OnPath(k) \subseteq OnPath(j)
    <3> HIDE DEF fs, j, n
    <3> SUFFICES ASSUME NEW x \in OnPath(k) PROVE x \in OnPath(j)
      OBVIOUS
    <3>1. PICK i \in 1 .. n : x = k.frames[i].archive
      BY <1>1 DEF OnPath
    <3>2. i \in 1 .. n + 1 /\ fs[i] = k.frames[i]
      BY <1>1, <1>3, <3>1
    <3>3. i \in DOMAIN j.frames /\ j.frames[i] = k.frames[i]
      BY <1>3, <1>6, <3>2, Zenon
    <3> QED BY <3>1, <3>3 DEF OnPath
  <2> HIDE DEF j
  <2> QED BY <1>6, <2>1 DEF Bounded
<1>10. SumsTo(j.frames, j.live)
  <2>1. SumsTo(k.frames, k.live)
    BY DEF Bounded
  <2>2. Held(g) = Bytes[sub]
    <3>1. g.depth # 0 /\ g.archive = sub
      <4>1. g.archive = sub
        BY DEF FrameOf
      <4> HIDE DEF g, f
      <4> QED BY <1>1, <1>2, <4>1
    <3> QED BY <3>1 DEF Held
  <2>3. SumsTo(fs, k.live + Held(fs[Len(fs)]))
    <3> HIDE DEF fs, g, f
    <3> QED BY <1>1, <1>3, <2>1, LongerSum
  <2> HIDE DEF fs, j, g, f
  <2> QED BY <1>3, <1>6, <2>2, <2>3
<1>11. Bounded(j)
  <2> HIDE DEF j
  <2> QED BY <1>7, <1>8, <1>9, <1>10 DEF Bounded
<1> QED BY <1>6, <1>11

LEMMA ListEntriesOK ==
    ASSUME NEW k \in Walk, Bounded(k), k.frames # << >>
    PROVE  ListEntries(k) \in Walk /\ Bounded(ListEntries(k))
<1> DEFINE f == Top(k)
           opened == IF Kind[f.archive] = "arc" THEN [k EXCEPT !.readers = @ \cup {f.archive}] ELSE k
           n == k.skipped + 1
           a == k.rootUnreadable \/ f.depth = 0
           b == k.rootError \/ Captures(k)
           r == [k EXCEPT !.skipped = n, !.rootUnreadable = a, !.rootError = b]
<1>1. /\ Len(k.frames) \in DOMAIN k.frames /\ f = k.frames[Len(k.frames)] /\ f \in Frame
  BY TopFrame
<1>2. opened \in Walk /\ Bounded(opened) /\ opened.frames # << >>
  <2> DEFINE o == [k EXCEPT !.readers = k.readers \cup {f.archive}]
  <2>1. f.archive \in Archive /\ k.readers \cup {f.archive} \in SUBSET Archive
    BY <1>1 DEF Frame, Walk
  <2>2. /\ o \in Walk /\ o.frames = k.frames /\ o.seen = k.seen /\ o.live = k.live
        /\ o.readers = k.readers \cup {f.archive}
    <3> HIDE DEF f
    <3> QED BY <2>1 DEF Walk
  <2>3. o.readers \subseteq OnPath(k) /\ OnPath(o) = OnPath(k)
    <3>1. f.archive \in OnPath(k)
      BY <1>1 DEF OnPath
    <3>2. OnPath(o) = OnPath(k)
      <4> HIDE DEF o
      <4> QED BY <2>2 DEF OnPath
    <3> HIDE DEF o
    <3> QED BY <2>2, <3>1, <3>2 DEF Bounded
  <2>4. Bounded(o)
    <3> HIDE DEF o
    <3> QED BY <2>2, <2>3 DEF Bounded
  <2>5. opened = o \/ opened = k
    BY DEF Walk
  <2> HIDE DEF o, opened
  <2> QED BY <2>2, <2>4, <2>5
<1>3. To(opened, "gallery") \in Walk /\ Bounded(To(opened, "gallery"))
  <2> HIDE DEF opened
  <2> QED BY <1>2, ToOK
<1>4. n \in Nat /\ a \in BOOLEAN /\ b \in BOOLEAN
  BY DEF Walk
<1>5. r \in Walk /\ Bounded(r) /\ r.frames # << >>
  <2>1. r \in Walk /\ Bounded(r)
    <3> HIDE DEF n, a, b
    <3> QED BY <1>4, FlagsOK, Zenon
  <2>2. r.frames = k.frames
    BY DEF Walk
  <2> QED BY <2>1, <2>2
<1>6. Pop(r) \in Walk /\ Bounded(Pop(r))
  <2> HIDE DEF r
  <2> QED BY <1>5, PopOK
<1>7. ListEntries(k) = IF f.archive \in Readable THEN To(opened, "gallery") ELSE Pop(r)
  <2>1. [k EXCEPT !.skipped = @ + 1, !.rootUnreadable = @ \/ f.depth = 0,
                  !.rootError = @ \/ Captures(k)] = r
    BY Zenon
  <2> QED BY <2>1, Zenon DEF ListEntries
<1> HIDE DEF r, opened
<1> QED BY <1>3, <1>6, <1>7

\* An entry the top frame is at.
LEMMA EntryAt ==
    ASSUME NEW k \in Walk, k.frames # << >>
    PROVE  /\ Top(k).i <= Len(Placements(Top(k).archive)) =>
                Placements(Top(k).archive)[Top(k).i] \in Entry
           /\ Top(k).i <= Len(Nested(Top(k).archive)) =>
                Nested(Top(k).archive)[Top(k).i] \in Entry
<1>1. Top(k).archive \in Archive /\ Top(k).i \in Nat \ {0}
  BY TopFrame DEF Frame
<1>2. /\ Placements(Top(k).archive) \in Seq(Entry)
      /\ Nested(Top(k).archive) \in Seq(Entry)
  BY <1>1, Plans
<1> QED BY <1>1, <1>2

LEMMA AdvanceMediaOK ==
    ASSUME NEW k \in Walk, Bounded(k), k.frames # << >>, NEW c
    PROVE  AdvanceMedia(k, c) \in Walk /\ Bounded(AdvanceMedia(k, c))
<1> DEFINE f == Top(k)
           e == Placements(f.archive)[f.i]
<1>1. CASE f.i > Len(Placements(f.archive))
  BY <1>1, ToOK DEF AdvanceMedia
<1>2. CASE ~(f.i > Len(Placements(f.archive))) /\ Cancelled(k, c)
  BY <1>2, PopOK DEF AdvanceMedia
<1>3. CASE ~(f.i > Len(Placements(f.archive))) /\ ~Cancelled(k, c) /\ ~e.extracts
  BY <1>3, UnextractedOK DEF AdvanceMedia
<1>4. CASE ~(f.i > Len(Placements(f.archive))) /\ ~Cancelled(k, c) /\ e.extracts
  <2>1. f.i <= Len(Placements(f.archive))
    <3>1. f.archive \in Archive /\ f.i \in Nat
      BY TopFrame DEF Frame
    <3>2. Placements(f.archive) \in Seq(Entry)
      BY <3>1, Plans
    <3> HIDE DEF f
    <3> QED BY <1>4, <3>1, <3>2
  <2>2. e \in Entry
    BY <2>1, EntryAt
  <2>3. /\ NoteExpanded(k, e) \in Walk /\ Bounded(NoteExpanded(k, e))
        /\ NoteExpanded(k, e).frames # << >>
    <3> HIDE DEF e
    <3> QED BY <2>2, NoteOK
  <2>4. Skip(NoteExpanded(k, e)) \in Walk /\ Bounded(Skip(NoteExpanded(k, e)))
    <3> HIDE DEF e
    <3> QED BY <2>3, NextOK
  <2> QED BY <1>4, <2>4, Zenon DEF AdvanceMedia
<1> QED BY <1>1, <1>2, <1>3, <1>4

LEMMA AdvanceNestedOK ==
    ASSUME NEW k \in Walk, Bounded(k), k.frames # << >>, NEW c
    PROVE  AdvanceNested(k, c) \in Walk /\ Bounded(AdvanceNested(k, c))
<1> DEFINE f == Top(k)
           e == Nested(f.archive)[f.i]
           over == f.i > Len(Nested(f.archive)) \/ Cancelled(k, c)
<1>1. CASE over
  <2>1. /\ CountUnsupported(k, TRUE) \in Walk /\ Bounded(CountUnsupported(k, TRUE))
        /\ CountUnsupported(k, TRUE).frames # << >>
    BY CountUnsupportedOK
  <2>2. Pop(CountUnsupported(k, TRUE)) \in Walk /\ Bounded(Pop(CountUnsupported(k, TRUE)))
    BY <2>1, PopOK
  <2> QED BY <1>1, <2>2, Zenon DEF AdvanceNested
<1>2. CASE ~over /\ ~e.extracts
  BY <1>2, UnextractedOK DEF AdvanceNested
<1>3. CASE ~over /\ e.extracts
  <2>1. f.i <= Len(Nested(f.archive))
    <3>1. f.archive \in Archive /\ f.i \in Nat
      BY TopFrame DEF Frame
    <3>2. Nested(f.archive) \in Seq(Entry)
      BY <3>1, Plans
    <3>3. ~(f.i > Len(Nested(f.archive)))
      BY <1>3
    <3> HIDE DEF f
    <3> QED BY <3>1, <3>2, <3>3
  <2>2. e \in Entry
    BY <2>1, EntryAt
  <2>3. /\ NoteExpanded(k, e) \in Walk /\ Bounded(NoteExpanded(k, e))
        /\ NoteExpanded(k, e).frames # << >>
    <3> HIDE DEF e
    <3> QED BY <2>2, NoteOK
  <2>4. Skip(NoteExpanded(k, e)) \in Walk /\ Bounded(Skip(NoteExpanded(k, e)))
    <3> HIDE DEF e
    <3> QED BY <2>3, NextOK
  <2> QED BY <1>3, <2>4, Zenon DEF AdvanceNested
<1> QED BY <1>1, <1>2, <1>3

\* A step of the walk without the sink.
LEMMA AdvancedOK ==
    ASSUME NEW k \in Walk, Bounded(k), k.frames # << >>, NEW c
    PROVE  Advanced(k, c) \in Walk /\ Bounded(Advanced(k, c))
<1> DEFINE f == Top(k)
<1>1. CASE f.phase = "list"
  BY <1>1, ListEntriesOK DEF Advanced
<1>2. CASE f.phase = "gallery"
  BY <1>2, ToOK DEF Advanced
<1>3. CASE f.phase = "tags"
  <2> DEFINE j == CountUnsupported(k, FALSE)
             b == j.rootError \/ (Captures(k) /\ Meta(f.archive) # {})
             r == [j EXCEPT !.skipped = j.skipped, !.rootUnreadable = j.rootUnreadable,
                            !.rootError = b]
  <2>1. j \in Walk /\ Bounded(j) /\ j.frames # << >>
    BY CountUnsupportedOK
  <2>2. j.skipped \in Nat /\ j.rootUnreadable \in BOOLEAN /\ b \in BOOLEAN
    <3>1. b \in BOOLEAN
      OBVIOUS
    <3> QED BY <2>1, <3>1 DEF Walk
  <2>3. r \in Walk /\ Bounded(r) /\ r.frames # << >>
    <3> HIDE DEF j, b
    <3>1. r \in Walk /\ Bounded(r)
      BY <2>1, <2>2, FlagsOK, Zenon
    <3>2. r.frames = j.frames
      BY <2>1 DEF Walk
    <3> QED BY <2>1, <3>1, <3>2
  <2>4. [j EXCEPT !.rootError = @ \/ (Captures(k) /\ Meta(f.archive) # {})] = r
    <3>1. [j EXCEPT !.rootError = @ \/ (Captures(k) /\ Meta(f.archive) # {})]
             = [j EXCEPT !.rootError = b]
      BY Zenon
    <3> HIDE DEF j, b
    <3> QED BY <2>1, <3>1 DEF Walk
  <2>5. Advanced(k, c) = To(r, "media")
    BY <1>3, <2>4 DEF Advanced
  <2>6. To(r, "media") \in Walk /\ Bounded(To(r, "media"))
    <3> HIDE DEF r
    <3> QED BY <2>3, ToOK
  <2> QED BY <2>5, <2>6
<1>4. CASE f.phase = "media"
  BY <1>4, AdvanceMediaOK DEF Advanced
<1>5. CASE f.phase = "nested"
  BY <1>5, AdvanceNestedOK DEF Advanced
<1>6. f.phase \in {"list", "gallery", "tags", "media", "nested"}
  BY TopFrame DEF Frame
<1> QED BY <1>1, <1>2, <1>3, <1>4, <1>5, <1>6

\* What the walk wants is there: by the phase of the top frame.
LEMMA WantsWhat ==
    ASSUME NEW k \in Walk, k.frames # << >>, NEW c, Wants(k, c) # "nothing"
    PROVE  \/ Top(k).phase = "gallery" /\ Wants(k, c) = "gallery"
           \/ Top(k).phase = "tags" /\ Wants(k, c) = "tag"
           \/ /\ Top(k).phase = "media" /\ Wants(k, c) = "media"
              /\ Placements(Top(k).archive)[Top(k).i] \in Entry
           \/ /\ Top(k).phase = "nested" /\ Wants(k, c) = "gallery"
              /\ Nested(Top(k).archive)[Top(k).i] \in Entry
              /\ Nested(Top(k).archive)[Top(k).i].sub \in Archive
              /\ MayDescend(NoteExpanded(k, Nested(Top(k).archive)[Top(k).i]),
                            Nested(Top(k).archive)[Top(k).i].sub)
<1> DEFINE f == Top(k)
           d == Nested(f.archive)[f.i]
           A == f.phase = "gallery" /\ PlansGallery(f.archive)
           B == f.phase = "tags" /\ HasTags(f.archive)
           C == f.phase = "media" /\ f.i <= Len(Placements(f.archive)) /\ ~Cancelled(k, c)
                  /\ Placements(f.archive)[f.i].extracts /\ Placements(f.archive)[f.i].stages
           D == f.phase = "nested" /\ f.i <= Len(Nested(f.archive)) /\ ~Cancelled(k, c)
                  /\ d.extracts /\ d.sub # NoArchive /\ MayDescend(NoteExpanded(k, d), d.sub)
<1>1. Wants(k, c) = CASE A -> "gallery" [] B -> "tag" [] C -> "media" [] D -> "gallery"
                      [] OTHER -> "nothing"
  BY Zenon DEF Wants
<1>2. A \/ B \/ C \/ D
  <2>1. ASSUME ~A, ~B, ~C, ~D PROVE FALSE
    <3> HIDE DEF A, B, C, D
    <3> QED BY <1>1, <2>1
  <2> QED BY <2>1
<1>3. /\ A => ~B /\ ~C /\ ~D
      /\ B => ~C /\ ~D /\ ~A
      /\ C => ~D /\ ~A /\ ~B
      /\ D => ~A /\ ~B /\ ~C
  OBVIOUS
<1>4. /\ A => Wants(k, c) = "gallery"
      /\ B => Wants(k, c) = "tag"
      /\ C => Wants(k, c) = "media"
      /\ D => Wants(k, c) = "gallery"
  <2> HIDE DEF A, B, C, D
  <2> QED BY <1>1, <1>3
<1>5. C => Placements(f.archive)[f.i] \in Entry
  BY EntryAt
<1>6. D => d \in Entry /\ d.sub \in Archive
  <2>1. D => d \in Entry /\ d.sub # NoArchive
    BY EntryAt
  <2> HIDE DEF d, D
  <2> QED BY <2>1 DEF Entry
<1> QED BY <1>2, <1>4, <1>5, <1>6

\* The name in a record.
LEMMA NamesOK ==
    ASSUME NEW k \in Walk, k.frames # << >>, NEW c, Wants(k, c) # "nothing"
    PROVE  /\ Wants(k, c) \in {"gallery", "media", "tag"}
           /\ (IF Wants(k, c) = "media" THEN MediaName(k) ELSE GalleryOf(k)) \in STRING \cup Archive
<1>1. Top(k).archive \in Archive
  BY TopFrame DEF Frame
<1>2. \A e \in Entry : e.name \in STRING
  BY DEF Entry
<1> QED BY <1>1, <1>2, WantsWhat DEF MediaName, GalleryOf

\* A step of the walk with the sink's answer.
LEMMA AnsweredOK ==
    ASSUME NEW k \in Walk, Bounded(k), k.frames # << >>, NEW c, Wants(k, c) # "nothing",
           NEW ok \in BOOLEAN
    PROVE  Answered(k, ok) \in Walk /\ Bounded(Answered(k, ok))
<1> DEFINE f == Top(k)
           next(j) == [j EXCEPT !.frames[Len(k.frames)].i = @ + 1]
<1>1. CASE f.phase = "gallery"
  <2> DEFINE b == k.rootError \/ (f.depth = 0 /\ Kind[f.archive] = "cbz")
             r == [k EXCEPT !.skipped = k.skipped, !.rootUnreadable = k.rootUnreadable,
                            !.rootError = b]
  <2>1. k.skipped \in Nat /\ k.rootUnreadable \in BOOLEAN /\ b \in BOOLEAN
    BY DEF Walk
  <2>2. r \in Walk /\ Bounded(r)
    <3> HIDE DEF b
    <3> QED BY <2>1, FlagsOK, Zenon
  <2>3. r.frames # << >>
    BY DEF Walk
  <2>4. Pop(r) \in Walk /\ Bounded(Pop(r))
    <3> HIDE DEF r
    <3> QED BY <2>2, <2>3, PopOK
  <2>5. [k EXCEPT !.rootError = @ \/ (f.depth = 0 /\ Kind[f.archive] = "cbz")] = r
    <3>1. [k EXCEPT !.rootError = @ \/ (f.depth = 0 /\ Kind[f.archive] = "cbz")]
             = [k EXCEPT !.rootError = b]
      BY Zenon
    <3> HIDE DEF b
    <3> QED BY <3>1 DEF Walk
  <2>6. Answered(k, ok) = To(k, "tags") \/ Answered(k, ok) = Pop(r)
    BY <1>1, <2>5 DEF Answered
  <2> HIDE DEF r
  <2> QED BY <2>4, <2>6, ToOK
<1>2. CASE f.phase = "tags"
  <2>1. /\ CountUnsupported(k, FALSE) \in Walk /\ Bounded(CountUnsupported(k, FALSE))
        /\ CountUnsupported(k, FALSE).frames # << >>
    BY CountUnsupportedOK
  <2>2. Answered(k, ok) = To(CountUnsupported(k, FALSE), "media")
    BY <1>2 DEF Answered
  <2> QED BY <2>1, <2>2, ToOK
<1>3. CASE f.phase = "media"
  <2> DEFINE e == Placements(f.archive)[f.i]
             p == NoteExpanded(k, e)
  <2>1. e \in Entry
    BY <1>3, WantsWhat
  <2>2. p \in Walk /\ Bounded(p) /\ p.frames = k.frames
    <3> HIDE DEF e
    <3> QED BY <2>1, NoteOK
  <2>3. Answered(k, ok) = next(p) \/ Answered(k, ok) = Skip(p)
    BY <1>3 DEF Answered
  <2>4. next(p) \in Walk /\ Bounded(next(p)) /\ Skip(p) \in Walk /\ Bounded(Skip(p))
    <3> HIDE DEF p
    <3>1. Len(k.frames) = Len(p.frames) /\ p.frames # << >>
      BY <2>2
    <3> QED BY <2>2, <3>1, NextOK
  <2> HIDE DEF p, next
  <2> QED BY <2>3, <2>4
<1>4. CASE f.phase = "nested"
  <2> DEFINE d == Nested(f.archive)[f.i]
             p == NoteExpanded(k, d)
  <2>1. d \in Entry /\ d.sub \in Archive /\ MayDescend(p, d.sub)
    BY <1>4, WantsWhat
  <2>2. p \in Walk /\ Bounded(p) /\ p.frames = k.frames
    <3> HIDE DEF d
    <3> QED BY <2>1, NoteOK
  <2>3. Answered(k, ok) = Enter(p) \/ Answered(k, ok) = next(p)
    BY <1>4 DEF Answered
  <2>4. next(p) \in Walk /\ Bounded(next(p))
    <3> HIDE DEF p
    <3>1. Len(k.frames) = Len(p.frames) /\ p.frames # << >>
      BY <2>2
    <3> QED BY <2>2, <3>1, NextOK
  <2>5. Top(p) = f
    <3> HIDE DEF p
    <3> QED BY <2>2 DEF Top
  <2>6. Enter(p) \in Walk /\ Bounded(Enter(p))
    <3>1. d.sub = Nested(Top(p).archive)[Top(p).i].sub
      BY <2>5
    <3> HIDE DEF p, d, f
    <3> QED BY <2>1, <2>2, <3>1, EnterOK
  <2> HIDE DEF p, next
  <2> QED BY <2>3, <2>4, <2>6
<1>5. f.phase # "list"
  BY WantsWhat
<1>6. f.phase \in {"list", "gallery", "tags", "media", "nested"}
  BY TopFrame DEF Frame
<1> QED BY <1>1, <1>2, <1>3, <1>4, <1>5, <1>6

-----------------------------------------------------------------------------
(* The steps of the worker, by what they do. *)

\* A task is a list of files or an archive.
LEMMA JobKinds ==
    ASSUME NEW t \in Task
    PROVE  /\ JobOf[t].kind \in {"files", "archive"} /\ t # NoTask
           /\ JobOf[t].kind = "files" =>
                /\ FilesOf(t) \in Seq(File) /\ Len(FilesOf(t)) \in Nat
                /\ DOMAIN FilesOf(t) = 1 .. Len(FilesOf(t))
           /\ JobOf[t].kind = "archive" => JobOf[t].root \in Archive
<1>1. JobOf[t] \in Job /\ t # NoTask
  BY QueueAssumption DEF NoTask
<1>2. JobOf[t] \in [kind : {"files"}, files : Seq(File)]
        \/ JobOf[t] \in [kind : {"archive"}, root : Archive]
  BY <1>1 DEF Job
<1>3. CASE JobOf[t] \in [kind : {"files"}, files : Seq(File)]
  <2>1. JobOf[t].kind = "files" /\ JobOf[t].files \in Seq(File)
    BY <1>3
  <2> QED BY <1>1, <2>1 DEF FilesOf
<1>4. CASE JobOf[t] \in [kind : {"archive"}, root : Archive]
  <2>1. JobOf[t].kind = "archive" /\ JobOf[t].root \in Archive
    BY <1>4
  <2> QED BY <1>1, <2>1
<1> QED BY <1>2, <1>3, <1>4

LEMMA WorkerTypes ==
    ASSUME w \in Worker
    PROVE  /\ w.task \in Task \cup {NoTask} /\ w.i \in Nat \ {0} /\ w.window \in Seq(Nat)
           /\ w.next \in Nat \ {0} /\ w.bytes \in Nat /\ w.skipped \in Nat
BY DEF Worker

\* What the main thread and the save worker see of the worker's own steps: nothing.
Unseen == UNCHANGED <<rows, cancel, records, exclusive, stop, aborted, batchEnded, saved, save,
                      saveFailed, laneFailed, sessions, controls, tree, files, pending, reviewed,
                      used, main>>

\* What is left to show of a step of the look-ahead window.
LEMMA StillLoading ==
    ASSUME w \in Worker, w.task \in Task, JobOf[w.task].kind = "files",
           w'.task = w.task, w'.pc \in Loading \cup {"finish"},
           \A k \in DOMAIN w'.window : w'.window[k] \in DOMAIN FilesOf(w.task),
           w'.pc = "submit" \/ (w'.pc \in {"drain", "post"} /\ w'.after = "load") =>
              w'.i \in DOMAIN FilesOf(w.task),
           w'.pc = "post" => w'.next \in DOMAIN FilesOf(w.task)
    PROVE  WorkerInv'
<1>1. w.task # NoTask
  BY JobKinds
<1>2. w'.pc \notin {"idle", "exited", "walk"}
  BY DEF Loading
<1> QED BY <1>1, <1>2 DEF WorkerInv, FilesOf

\* The look-ahead window: the worker stays with its task, goes on to later files
\* and holds files of the task only.
LEMMA LoadingStep ==
    ASSUME TypeOK, WorkerInv, LoadNext \/ SubmitFile \/ DrainFiles \/ DrainTail
    PROVE  /\ w' \in Worker /\ WorkerInv' /\ Unseen /\ UNCHANGED <<walk, entered, faults>>
           /\ w'.task = w.task /\ w.task \in Task /\ w'.next >= w.next
           /\ w.pc \in Loading /\ w'.pc \in Loading \cup {"finish"}
<1> DEFINE F == FilesOf(w.task)
<1>1. /\ w \in Worker /\ w.pc \in Loading /\ w.task \in Task /\ JobOf[w.task].kind = "files"
      /\ \A k \in DOMAIN w.window : w.window[k] \in DOMAIN F
  BY WorkerTypes
     DEF TypeOK, WorkerInv, Loading, LoadNext, SubmitFile, DrainFiles, DrainTail
<1>2. Len(F) \in Nat /\ DOMAIN F = 1 .. Len(F) /\ w.task # NoTask
  BY <1>1, JobKinds
<1>3. Unseen /\ UNCHANGED <<walk, entered, faults>>
  BY DEF LoadNext, SubmitFile, DrainFiles, DrainTail, Local, WorkerOnly, queueVars, saveVars,
         boundVars, Unseen
<1>4. /\ w.i \in Nat \ {0} /\ w.window \in Seq(Nat) /\ w.next \in Nat \ {0} /\ w.bytes \in Nat
      /\ w.skipped \in Nat
  BY <1>1, WorkerTypes
<1> HIDE DEF F
<1>5. CASE LoadNext
  <2>1. \/ w' = [w EXCEPT !.pc = "tail"]
        \/ w' = [w EXCEPT !.pc = "drain", !.after = "load", !.moved = FALSE]
           /\ w.i \in DOMAIN F
        \/ w' = [w EXCEPT !.pc = "submit"] /\ w.i \in DOMAIN F
    <3>1. w.i > Len(F) \/ w.i \in DOMAIN F
      BY <1>2, <1>4
    <3> QED BY <1>5, <3>1 DEF LoadNext, Local, F
  <2>2. /\ w' \in Worker /\ w'.pc \in {"tail", "drain", "submit"} /\ w'.task = w.task
        /\ w'.i = w.i /\ w'.window = w.window /\ w'.next = w.next
        /\ w'.pc # "tail" => w.i \in DOMAIN F
    BY <1>1, <2>1, ZenonT(40) DEF Worker
  <2>3. WorkerInv'
    BY <1>1, <2>2, StillLoading DEF F, Loading
  <2> QED BY <1>1, <1>3, <1>4, <2>2, <2>3 DEF Loading
<1>6. CASE DrainTail
  <2>1. \/ w' = [w EXCEPT !.pc = "finish"]
        \/ w' = [w EXCEPT !.pc = "drain", !.after = "tail", !.moved = FALSE]
    BY <1>6 DEF DrainTail, Local
  <2>2. /\ w' \in Worker /\ w'.task = w.task /\ w'.window = w.window /\ w'.next = w.next
        /\ w'.pc = "finish" \/ (w'.pc = "drain" /\ w'.after = "tail")
    BY <1>1, <2>1 DEF Worker
  <2>3. WorkerInv'
    BY <1>1, <2>2, StillLoading DEF F, Loading
  <2> QED BY <1>1, <1>3, <1>4, <2>2, <2>3 DEF Loading
<1>7. CASE SubmitFile
  <2>1. w.pc = "submit" /\ w.i \in DOMAIN F
    BY <1>7 DEF SubmitFile, WorkerInv, F
  <2>2. \/ w' = [w EXCEPT !.pc = "load", !.i = w.i + 1, !.skipped = w.skipped + 1]
        \/ w' = [w EXCEPT !.pc = "load", !.i = w.i + 1, !.window = Append(w.window, w.i)]
    BY <1>7 DEF SubmitFile, Local
  <2>3. /\ Append(w.window, w.i) \in Seq(Nat)
        /\ \A k \in DOMAIN Append(w.window, w.i) : Append(w.window, w.i)[k] \in DOMAIN F
    BY <1>1, <1>4, <2>1 DEF F
  <2>4. w.i + 1 \in Nat \ {0} /\ w.skipped + 1 \in Nat
    BY <1>4
  <2>5. /\ w' \in Worker /\ w'.task = w.task /\ w'.pc = "load" /\ w'.next = w.next
        /\ w'.window \in {w.window, Append(w.window, w.i)}
    BY <1>1, <2>2, <2>3, <2>4 DEF Worker
  <2>6. WorkerInv'
    BY <1>1, <2>3, <2>5, StillLoading DEF F, Loading
  <2> QED BY <1>1, <1>3, <1>4, <2>5, <2>6 DEF Loading
<1>8. CASE DrainFiles
  <2> DEFINE T == TakeReady
  <2>1. w.pc = "drain"
    BY <1>8 DEF DrainFiles
  <2>2. ASSUME NextReady
        PROVE  /\ w.next \in DOMAIN F
               /\ T = [w EXCEPT !.window = Tail(w.window), !.bytes = (w.bytes - 1) % ByteRange,
                                !.moved = TRUE]
               /\ Tail(w.window) \in Seq(Nat) /\ (w.bytes - 1) % ByteRange \in Nat
               /\ \A k \in DOMAIN Tail(w.window) : Tail(w.window)[k] \in DOMAIN F
    <3>1. /\ w.window \in Seq(Nat) /\ w.window # << >> /\ Head(w.window) = w.next
          /\ \A k \in DOMAIN w.window : w.window[k] \in DOMAIN F
      BY <1>1, <1>4, <2>2 DEF NextReady, F
    <3>2. w.next \in DOMAIN F
      BY <3>1
    <3>3. /\ Tail(w.window) \in Seq(Nat)
          /\ \A k \in DOMAIN Tail(w.window) : Tail(w.window)[k] \in DOMAIN F
      BY <3>1
    <3>4. (w.bytes - 1) % ByteRange \in Nat
      <4>1. ByteRange \in Nat /\ ByteRange > 0
        BY QueueAssumption
      <4> QED BY <1>4, <4>1
    <3> QED BY <3>2, <3>3, <3>4 DEF TakeReady
  <2>3. \/ \E p \in {"tail", "submit", "load", "finish"} :
              /\ w' = [w EXCEPT !.pc = p]
              /\ p = "tail" => w.after = "tail"
              /\ p = "submit" => w.after # "tail"
        \/ /\ NextReady
           /\ \E p \in {"tail", "submit", "load", "finish"} :
              /\ w' = [T EXCEPT !.pc = p]
              /\ p = "submit" => w.after # "tail"
        \/ NextReady /\ w' = [T EXCEPT !.pc = "post"]
        \/ NextReady /\ w' = [T EXCEPT !.next = T.next + 1]
    <3>1. w' = IF ~NextReady \/ IsCancelled
               THEN LET back == IF NextReady THEN T ELSE w IN
                    [back EXCEPT !.pc = IF w.after = "tail" THEN "tail"
                                        ELSE IF ~back.moved THEN "submit"
                                        ELSE IF IsCancelled THEN "finish" ELSE "load"]
               ELSE IF F[w.next].read = "good" THEN [T EXCEPT !.pc = "post"]
               ELSE [T EXCEPT !.next = T.next + 1]
      BY <1>8, Zenon DEF DrainFiles, Local, F
    <3> HIDE DEF T
    <3>2. CASE ~NextReady
      <4> DEFINE p == IF w.after = "tail" THEN "tail" ELSE IF ~w.moved THEN "submit"
                      ELSE IF IsCancelled THEN "finish" ELSE "load"
      <4>1. w' = [w EXCEPT !.pc = p]
        BY <3>1, <3>2
      <4>2. /\ p \in {"tail", "submit", "load", "finish"}
            /\ p = "tail" => w.after = "tail"
            /\ p = "submit" => w.after # "tail"
        OBVIOUS
      <4> HIDE DEF p
      <4> QED BY <4>1, <4>2
    <3>3. CASE NextReady /\ IsCancelled
      <4> DEFINE p == IF w.after = "tail" THEN "tail" ELSE IF ~T.moved THEN "submit"
                      ELSE IF IsCancelled THEN "finish" ELSE "load"
      <4>1. w' = [T EXCEPT !.pc = p]
        BY <3>1, <3>3
      <4>2. /\ p \in {"tail", "submit", "load", "finish"}
            /\ p = "submit" => w.after # "tail"
        OBVIOUS
      <4> HIDE DEF p
      <4> QED BY <3>3, <4>1, <4>2
    <3> QED BY <3>1, <3>2, <3>3
  <2>4. w.after \in {"load", "tail"} /\ (w.after = "load" => w.i \in DOMAIN F)
    BY <1>1, <2>1 DEF Worker, WorkerInv, F
  <2>5. CASE \E p \in {"tail", "submit", "load", "finish"} :
               /\ w' = [w EXCEPT !.pc = p]
               /\ p = "tail" => w.after = "tail"
               /\ p = "submit" => w.after # "tail"
    <3>1. /\ w' \in Worker /\ w'.task = w.task /\ w'.window = w.window /\ w'.next = w.next
          /\ w'.pc \in {"tail", "submit", "load", "finish"} /\ w'.i = w.i
          /\ w'.pc = "submit" => w.i \in DOMAIN F
      BY <1>1, <2>4, <2>5 DEF Worker
    <3>2. WorkerInv'
      BY <1>1, <3>1, StillLoading DEF F, Loading
    <3> QED BY <1>1, <1>3, <1>4, <3>1, <3>2 DEF Loading
  <2>6. CASE /\ NextReady
             /\ \E p \in {"tail", "submit", "load", "finish"} :
                  w' = [T EXCEPT !.pc = p] /\ (p = "submit" => w.after # "tail")
    <3>1. PICK p \in {"tail", "submit", "load", "finish"} :
             w' = [T EXCEPT !.pc = p] /\ (p = "submit" => w.after # "tail")
      BY <2>6
    <3>2. /\ w' \in Worker /\ w'.task = w.task /\ w'.window = Tail(w.window) /\ w'.next = w.next
          /\ w'.pc = p /\ w'.i = w.i
      <4> HIDE DEF T
      <4> QED BY <1>1, <2>2, <2>6, <3>1, ZenonT(40) DEF Worker
    <3>3. w'.pc = "submit" => w.i \in DOMAIN F
      BY <2>4, <3>1, <3>2
    <3>4. WorkerInv'
      BY <1>1, <2>2, <2>6, <3>2, <3>3, StillLoading DEF F, Loading
    <3> QED BY <1>1, <1>3, <1>4, <3>2, <3>4 DEF Loading
  <2>7. CASE NextReady /\ w' = [T EXCEPT !.pc = "post"]
    <3>1. /\ w' \in Worker /\ w'.task = w.task /\ w'.window = Tail(w.window) /\ w'.next = w.next
          /\ w'.pc = "post" /\ w'.i = w.i /\ w'.after = w.after
      <4> HIDE DEF T
      <4> QED BY <1>1, <2>2, <2>7 DEF Worker
    <3>2. WorkerInv'
      BY <1>1, <2>2, <2>4, <2>7, <3>1, StillLoading DEF F, Loading
    <3> QED BY <1>1, <1>3, <1>4, <3>1, <3>2 DEF Loading
  <2>8. CASE NextReady /\ w' = [T EXCEPT !.next = T.next + 1]
    <3>1. /\ w' \in Worker /\ w'.task = w.task /\ w'.window = Tail(w.window)
          /\ w'.pc = "drain" /\ w'.i = w.i /\ w'.after = w.after /\ w'.next = w.next + 1
      <4>1. w.next + 1 \in Nat \ {0}
        BY <1>4
      <4> HIDE DEF T
      <4>2. T.next = w.next
        BY <1>1, <2>2, <2>8 DEF Worker
      <4> QED BY <1>1, <2>1, <2>2, <2>8, <4>1, <4>2 DEF Worker
    <3>2. WorkerInv'
      BY <1>1, <2>2, <2>4, <2>8, <3>1, StillLoading DEF F, Loading
    <3> QED BY <1>1, <1>3, <1>4, <3>1, <3>2 DEF Loading
  <2> HIDE DEF T
  <2> QED BY <2>3, <2>5, <2>6, <2>7, <2>8
<1> QED BY <1>5, <1>6, <1>7, <1>8

LEMMA NoWalkOK == NoWalk \in Walk /\ Bounded(NoWalk)
<1>1. NoWalk \in Walk
  BY DEF NoWalk, Walk
<1>2. /\ NoWalk.frames = << >> /\ NoWalk.readers = {} /\ NoWalk.live = 0 /\ NoWalk.seen = 0
  BY DEF NoWalk
<1>3. MaxDepth \in Nat /\ MaxNested \in Nat /\ MaxLive \in Nat
  BY WalkAssumption
<1> QED BY <1>1, <1>2, <1>3, EmptySum DEF Bounded

LEMMA WalkOfOK ==
    ASSUME NEW a \in Archive
    PROVE  WalkOf(a) \in Walk /\ Bounded(WalkOf(a))
<1>1. FrameOf(a, 0) \in Frame /\ FrameOf(a, 0).depth = 0
  BY DEF FrameOf, Frame
<1>2. << FrameOf(a, 0) >> \in Seq(Frame)
  BY <1>1
<1>3. /\ WalkOf(a) \in Walk /\ WalkOf(a).frames = << FrameOf(a, 0) >> /\ WalkOf(a).readers = {}
      /\ WalkOf(a).live = 0 /\ WalkOf(a).seen = 0
  BY <1>2 DEF WalkOf, NoWalk, Walk
<1>4. MaxDepth \in Nat /\ MaxNested \in Nat /\ MaxLive \in Nat
  BY WalkAssumption
<1>5. \A j \in DOMAIN WalkOf(a).frames : WalkOf(a).frames[j].depth = j - 1
  BY <1>1, <1>3
<1>6. Len(WalkOf(a).frames) = 1
  BY <1>3
<1>7. SumsTo(WalkOf(a).frames, WalkOf(a).live)
  <2> DEFINE fs == << FrameOf(a, 0) >>
  <2>1. fs \in Seq(Frame) /\ Len(fs) = 1 /\ Held(fs[1]) = 0
    BY <1>1, <1>2 DEF Held
  <2>2. PICK es \in Seq(Frame) : es = << >>
    <3>1. << >> \in Seq(Frame)
      BY EmptySeq
    <3> QED BY <3>1
  <2>3. SumsTo(es, 0) /\ Len(fs) = Len(es) + 1 /\ \A j \in 1 .. Len(es) : fs[j] = es[j]
    <3>1. Len(es) = 0
      BY <2>2
    <3> HIDE DEF fs
    <3> QED BY <2>1, <2>2, <3>1, EmptySum
  <2>4. SumsTo(fs, 0 + Held(fs[Len(fs)]))
    <3> HIDE DEF fs
    <3> QED BY <2>1, <2>3, LongerSum
  <2>5. WalkOf(a).frames = fs /\ WalkOf(a).live = 0
    BY <1>3
  <2> HIDE DEF fs
  <2> QED BY <2>1, <2>4, <2>5
<1> QED BY <1>3, <1>4, <1>5, <1>6, <1>7 DEF Bounded

\* A worker that has finished a task keeps it until the row is marked.
LEMMA NowFinishing ==
    ASSUME TypeOK, w.task \in Task, NEW n \in Nat, NEW b \in BOOLEAN,
           w' = [w EXCEPT !.pc = "finish", !.skipped = n, !.failed = b]
    PROVE  w' \in Worker /\ w'.task = w.task /\ w'.next >= w.next /\ w'.pc = "finish" /\ WorkerInv'
<1>1. w \in Worker /\ w.next \in Nat
  BY DEF TypeOK, Worker
<1>2. /\ w' \in Worker /\ w'.task = w.task /\ w'.next = w.next /\ w'.pc = "finish"
  BY <1>1 DEF Worker
<1>3. w.task # NoTask
  BY JobKinds
<1> QED BY <1>1, <1>2, <1>3 DEF WorkerInv, Loading

\* The walk's own steps, and an exception: the worker stays with its task.
LEMMA WalkingStep ==
    ASSUME TypeOK, WorkerInv, WalkInv, WalkAdvances \/ WalkEnds \/ TaskThrows
    PROVE  /\ w' \in Worker /\ WorkerInv' /\ Unseen
           /\ walk' \in Walk /\ WalkInv' /\ entered' \in [Task -> SUBSET Archive]
           /\ faults' \in 0 .. MaxFaults
           /\ w'.task = w.task /\ w.task \in Task /\ w'.next >= w.next
           /\ w.pc \notin {"idle", "exited"} /\ w'.pc \notin {"idle", "exited"}
<1>1. /\ w \in Worker /\ w.pc \in {"submit", "walk"} /\ w.task \in Task /\ w.next \in Nat
      /\ walk \in Walk /\ entered \in [Task -> SUBSET Archive] /\ faults \in 0 .. MaxFaults
      /\ Bounded(walk) /\ w.skipped \in Nat /\ w.failed \in BOOLEAN
  <2>1. w \in Worker /\ w.pc \in {"submit", "walk"} /\ w.task # NoTask
    BY DEF TypeOK, WorkerInv, WalkAdvances, WalkEnds, TaskThrows
  <2> QED BY <2>1 DEF TypeOK, WalkInv, Worker
<1>2. Unseen
  BY DEF WalkAdvances, WalkEnds, TaskThrows, WorkerOnly, queueVars, saveVars, boundVars, Unseen
<1>3. CASE WalkAdvances
  <2>1. w' = w /\ entered' = entered /\ faults' = faults /\ walk.frames # << >>
        /\ walk' = Advanced(walk, IsCancelled)
    BY <1>3 DEF WalkAdvances, WorkerOnly, boundVars
  <2>2. walk' \in Walk /\ Bounded(walk')
    BY <1>1, <2>1, AdvancedOK
  <2>3. WorkerInv' /\ WalkInv'
    BY <2>1, <2>2 DEF WorkerInv, WalkInv, FilesOf
  <2> QED BY <1>1, <1>2, <2>1, <2>2, <2>3
<1>4. CASE WalkEnds
  <2> DEFINE b == walk.rootError \/ walk.rootUnreadable
  <2>1. /\ w' = [w EXCEPT !.pc = "finish", !.skipped = walk.skipped, !.failed = b]
        /\ entered' = [entered EXCEPT ![w.task] = walk.entered]
        /\ walk' = NoWalk /\ faults' = faults
    BY <1>4 DEF WalkEnds, WorkerOnly, boundVars
  <2>2. walk.skipped \in Nat /\ b \in BOOLEAN /\ walk.entered \in SUBSET Archive
    BY <1>1 DEF Walk
  <2>3. /\ w' \in Worker /\ w'.task = w.task /\ w'.next >= w.next /\ w'.pc = "finish"
        /\ WorkerInv'
    <3> HIDE DEF b
    <3> QED BY <1>1, <2>1, <2>2, NowFinishing
  <2>4. walk' \in Walk /\ WalkInv' /\ entered' \in [Task -> SUBSET Archive]
    BY <1>1, <2>1, <2>2, NoWalkOK DEF WalkInv
  <2> QED BY <1>1, <1>2, <2>1, <2>3, <2>4
<1>5. CASE TaskThrows
  <2>1. /\ w' = [w EXCEPT !.pc = "finish", !.skipped = w.skipped, !.failed = TRUE]
        /\ entered' = entered /\ walk' = NoWalk /\ faults' = faults + 1 /\ faults < MaxFaults
    BY <1>1, <1>5 DEF TaskThrows, Worker
  <2>2. /\ w' \in Worker /\ w'.task = w.task /\ w'.next >= w.next /\ w'.pc = "finish"
        /\ WorkerInv'
    BY <1>1, <2>1, NowFinishing
  <2>3. faults' \in 0 .. MaxFaults
    BY <1>1, <2>1, QueueAssumption
  <2>4. walk' \in Walk /\ WalkInv'
    BY <2>1, NoWalkOK DEF WalkInv
  <2> QED BY <1>1, <1>2, <2>1, <2>2, <2>3, <2>4
<1> QED BY <1>3, <1>4, <1>5

\* What the worker changes on its own, in one statement.
OwnStep == LoadNext \/ SubmitFile \/ DrainFiles \/ DrainTail \/ WalkAdvances \/ WalkEnds \/ TaskThrows

LEMMA OwnStepOK ==
    ASSUME TypeOK, WorkerInv, WalkInv, OwnStep
    PROVE  /\ w' \in Worker /\ WorkerInv' /\ Unseen
           /\ walk' \in Walk /\ WalkInv' /\ entered' \in [Task -> SUBSET Archive]
           /\ faults' \in 0 .. MaxFaults
           /\ w'.task = w.task /\ w.task \in Task /\ w'.next >= w.next
           /\ w.pc \notin {"idle", "exited"} /\ w'.pc \notin {"idle", "exited"}
<1>1. CASE LoadNext \/ SubmitFile \/ DrainFiles \/ DrainTail
  <2>1. /\ w' \in Worker /\ WorkerInv' /\ Unseen /\ UNCHANGED <<walk, entered, faults>>
        /\ w'.task = w.task /\ w.task \in Task /\ w'.next >= w.next
        /\ w.pc \in Loading /\ w'.pc \in Loading \cup {"finish"}
    BY <1>1, LoadingStep
  <2>2. /\ walk' \in Walk /\ WalkInv' /\ entered' \in [Task -> SUBSET Archive]
        /\ faults' \in 0 .. MaxFaults
    BY <2>1 DEF TypeOK, WalkInv
  <2> QED BY <2>1, <2>2 DEF Loading
<1> QED BY <1>1, WalkingStep DEF OwnStep

\* A record is posted, or dropped because the task is cancelled or the session over.
LEMMA PostStepOK ==
    ASSUME TypeOK, WorkerInv, WalkInv, PostFile \/ WalkPosts
    PROVE  /\ w' \in Worker /\ WorkerInv' /\ walk' \in Walk /\ WalkInv'
           /\ UNCHANGED <<rows, cancel, exclusive, stop, aborted, batchEnded, saveVars, boundVars,
                          tree, files, pending, reviewed, used, main, entered>>
           /\ w'.task = w.task /\ w.task \in Task /\ w'.next >= w.next
           /\ w.pc \notin {"idle", "exited"} /\ w'.pc \notin {"idle", "exited"}
           /\ \/ records' = records
              \/ \E r \in Record :
                   /\ records' = Append(records, r) /\ ~stop /\ Len(records) < RecordCap
                   /\ r.task = w.task
                   /\ JobOf[w.task].kind = "files" =>
                        /\ w.next \in DOMAIN FilesOf(w.task)
                        /\ r.name = FilesOf(w.task)[w.next].name
                        /\ w'.next = w.next + 1
<1>1. /\ w \in Worker /\ w.pc \in {"post", "walk"} /\ w.task \in Task /\ w.next \in Nat \ {0}
      /\ walk \in Walk /\ Bounded(walk)
  <2>1. w \in Worker /\ w.pc \in {"post", "walk"} /\ w.task # NoTask
    BY DEF TypeOK, WorkerInv, PostFile, WalkPosts
  <2> QED BY <2>1 DEF TypeOK, WalkInv, Worker
<1>2. UNCHANGED <<rows, cancel, exclusive, stop, aborted, batchEnded, saveVars, boundVars,
                  tree, files, pending, reviewed, used, main, entered>>
  BY DEF PostFile, WalkPosts, Post, WorkerOnly
<1>3. ASSUME NEW r \in Record, Post(r)
      PROVE  records' = records
             \/ (records' = Append(records, r) /\ ~stop /\ Len(records) < RecordCap)
  BY <1>3 DEF Post, MayPost
<1>4. CASE PostFile
  <2> DEFINE F == FilesOf(w.task)
             r == [kind |-> "media", task |-> w.task, name |-> F[w.next].name]
  <2>1. /\ w.pc = "post" /\ Post(r) /\ w' = [w EXCEPT !.pc = "drain", !.next = w.next + 1]
        /\ walk' = walk
    BY <1>4 DEF PostFile
  <2>2. /\ JobOf[w.task].kind = "files" /\ w.next \in DOMAIN F
        /\ \A k \in DOMAIN w.window : w.window[k] \in DOMAIN F
        /\ w.after = "load" => w.i \in DOMAIN F
    BY <2>1 DEF WorkerInv, Loading
  <2>3. F[w.next].name \in STRING
    <3>1. F \in Seq(File)
      BY <1>1, <2>2, JobKinds
    <3>2. F[w.next] \in File
      <4> HIDE DEF F
      <4> QED BY <2>2, <3>1
    <3> QED BY <3>2 DEF File
  <2>4. r \in Record /\ r.task = w.task /\ r.name = F[w.next].name
    BY <1>1, <2>3 DEF Record
  <2>5. /\ w' \in Worker /\ w'.task = w.task /\ w'.next = w.next + 1 /\ w'.pc = "drain"
        /\ w'.i = w.i /\ w'.window = w.window /\ w'.after = w.after
    <3>1. w.next + 1 \in Nat \ {0}
      BY <1>1
    <3> QED BY <1>1, <2>1, <3>1 DEF Worker
  <2>6. WorkerInv'
    BY <1>1, <2>2, <2>5, StillLoading DEF Loading
  <2>7. WalkInv' /\ walk' \in Walk
    BY <1>1, <2>1 DEF WalkInv
  <2>8. records' = records \/ (records' = Append(records, r) /\ ~stop /\ Len(records) < RecordCap)
    <3> HIDE DEF r
    <3> QED BY <1>3, <2>1, <2>4
  <2> HIDE DEF r
  <2> QED BY <1>1, <1>2, <2>2, <2>4, <2>5, <2>6, <2>7, <2>8
<1>5. CASE WalkPosts
  <2> DEFINE c == IsCancelled
             wanted == Wants(walk, c)
             name == IF wanted = "media" THEN MediaName(walk) ELSE GalleryOf(walk)
             r == [kind |-> wanted, task |-> w.task, name |-> name]
             ok == ~(stop \/ IsCancelled)
  <2>1. /\ w.pc = "walk" /\ w' = w /\ walk.frames # << >> /\ wanted # "nothing" /\ Post(r)
        /\ walk' = Answered(walk, ok)
    BY <1>5 DEF WalkPosts
  <2>2. wanted \in {"gallery", "media", "tag"} /\ name \in STRING \cup Archive
    <3> HIDE DEF c
    <3> QED BY <1>1, <2>1, NamesOK
  <2>3. r \in Record /\ r.task = w.task
    <3> HIDE DEF wanted, name
    <3> QED BY <1>1, <2>2 DEF Record
  <2>4. walk' \in Walk /\ Bounded(walk')
    <3>1. ok \in BOOLEAN
      OBVIOUS
    <3> HIDE DEF ok, c
    <3> QED BY <1>1, <2>1, <3>1, AnsweredOK
  <2>5. JobOf[w.task].kind = "archive"
    BY <2>1 DEF WorkerInv
  <2>6. WorkerInv' /\ WalkInv'
    BY <2>1, <2>4 DEF WorkerInv, WalkInv, FilesOf
  <2>7. records' = records \/ (records' = Append(records, r) /\ ~stop /\ Len(records) < RecordCap)
    <3> HIDE DEF r
    <3> QED BY <1>3, <2>1, <2>3
  <2> HIDE DEF r, ok, wanted
  <2> QED BY <1>1, <1>2, <2>1, <2>3, <2>4, <2>5, <2>6, <2>7
<1> QED BY <1>4, <1>5

-----------------------------------------------------------------------------
(* The order of a task's files. *)

\* A part of a sequence, in its order, keeps what is known of the order.
LEMMA PartOrdered ==
    ASSUME NEW s \in Seq(Record), NEW p \in Seq(Record),
           NEW m \in [DOMAIN p -> DOMAIN s],
           \A i, j \in DOMAIN p : i < j => m[i] < m[j],
           \A i \in DOMAIN p : p[i] = s[m[i]]
    PROVE  \A t : /\ Ordered(s, t) => Ordered(p, t)
                  /\ \A n : Before(s, t, n) => Before(p, t, n)
                  /\ MediaIn(s, t) = {} => MediaIn(p, t) = {}
<1> SUFFICES ASSUME NEW t
             PROVE  /\ Ordered(s, t) => Ordered(p, t)
                    /\ \A n : Before(s, t, n) => Before(p, t, n)
                    /\ MediaIn(s, t) = {} => MediaIn(p, t) = {}
  OBVIOUS
<1>1. \A i \in MediaIn(p, t) : i \in DOMAIN p /\ m[i] \in MediaIn(s, t) /\ p[i].name = s[m[i]].name
  BY DEF MediaIn
<1>2. Ordered(s, t) => Ordered(p, t)
  <2> SUFFICES ASSUME Ordered(s, t), NEW i \in MediaIn(p, t), NEW j \in MediaIn(p, t), i < j
               PROVE  \E a, b \in DOMAIN FilesOf(t) :
                        a < b /\ FilesOf(t)[a].name = p[i].name /\ FilesOf(t)[b].name = p[j].name
    BY DEF Ordered
  <2>1. m[i] \in MediaIn(s, t) /\ m[j] \in MediaIn(s, t) /\ m[i] < m[j]
    BY <1>1
  <2>2. p[i].name = s[m[i]].name /\ p[j].name = s[m[j]].name
    BY <1>1
  <2> QED BY <2>1, <2>2 DEF Ordered
<1>3. \A n : Before(s, t, n) => Before(p, t, n)
  BY <1>1 DEF Before
<1> QED BY <1>1, <1>2, <1>3

\* A file that comes after all the task's files so far may be put at the end.
LEMMA AppendOrdered ==
    ASSUME NEW s \in Seq(Record), NEW r \in Record, NEW t \in Task
    PROVE  LET p == Append(s, r) IN
           /\ r.task # t /\ Ordered(s, t) => Ordered(p, t)
           /\ r.task # t /\ MediaIn(s, t) = {} => MediaIn(p, t) = {}
           /\ \A n \in Nat : /\ JobOf[t].kind = "files" /\ Ordered(s, t) /\ Before(s, t, n)
                             /\ n \in DOMAIN FilesOf(t) /\ r.name = FilesOf(t)[n].name
                             => Ordered(p, t) /\ Before(p, t, n + 1)
<1> DEFINE p == Append(s, r)
           l == Len(s) + 1
<1>1. /\ DOMAIN p = 1 .. l /\ p[l] = r /\ l \in Nat /\ DOMAIN s = 1 .. Len(s)
      /\ \A i \in 1 .. Len(s) : p[i] = s[i]
  OBVIOUS
<1>2. \A i \in MediaIn(p, t) : i \in 1 .. l /\ (i # l => i \in MediaIn(s, t) /\ p[i] = s[i])
  <2> HIDE DEF p
  <2> QED BY <1>1 DEF MediaIn
<1>3. ASSUME r.task # t PROVE l \notin MediaIn(p, t)
  <2> HIDE DEF p
  <2> QED BY <1>1, <1>3 DEF MediaIn
<1>4. r.task # t /\ Ordered(s, t) => Ordered(p, t)
  <2> HIDE DEF p
  <2> QED BY <1>2, <1>3 DEF Ordered
<1>5. r.task # t /\ MediaIn(s, t) = {} => MediaIn(p, t) = {}
  <2> HIDE DEF p
  <2> QED BY <1>2, <1>3
<1>6. ASSUME NEW n \in Nat, JobOf[t].kind = "files", Ordered(s, t), Before(s, t, n), n \in DOMAIN FilesOf(t),
             r.name = FilesOf(t)[n].name
      PROVE  Ordered(p, t) /\ Before(p, t, n + 1)
  <2> HIDE DEF p
  <2>1. ASSUME NEW i \in MediaIn(p, t), NEW j \in MediaIn(p, t), i < j
        PROVE  \E a, b \in DOMAIN FilesOf(t) :
                  a < b /\ FilesOf(t)[a].name = p[i].name /\ FilesOf(t)[b].name = p[j].name
    <3>1. i # l /\ i \in MediaIn(s, t) /\ p[i] = s[i]
      BY <1>1, <1>2, <2>1
    <3>2. CASE j # l
      <4>1. j \in MediaIn(s, t) /\ p[j] = s[j]
        BY <1>2, <3>2
      <4> QED BY <1>6, <2>1, <3>1, <4>1 DEF Ordered
    <3>3. CASE j = l
      <4>1. PICK a \in DOMAIN FilesOf(t) : a < n /\ FilesOf(t)[a].name = s[i].name
        BY <1>6, <3>1 DEF Before
      <4>2. p[j].name = FilesOf(t)[n].name
        BY <1>1, <1>6, <3>3
      <4> QED BY <1>6, <3>1, <4>1, <4>2
    <3> QED BY <3>2, <3>3
  <2>2. ASSUME NEW i \in MediaIn(p, t)
        PROVE  \E a \in DOMAIN FilesOf(t) : a < n + 1 /\ FilesOf(t)[a].name = p[i].name
    <3>1. CASE i = l
      <4>1. n < n + 1
        BY <1>6
      <4> QED BY <1>1, <1>6, <3>1, <4>1
    <3>2. CASE i # l
      <4>1. i \in MediaIn(s, t) /\ p[i] = s[i]
        BY <1>2, <3>2
      <4>2. PICK a \in DOMAIN FilesOf(t) : a < n /\ FilesOf(t)[a].name = s[i].name
        BY <1>6, <4>1 DEF Before
      <4>3. a < n + 1
        <5>1. a \in Nat
          BY <1>6, JobKinds
        <5> QED BY <1>6, <4>2, <5>1
      <4> QED BY <4>1, <4>2, <4>3
    <3> QED BY <3>1, <3>2
  <2> QED BY <2>1, <2>2 DEF Ordered, Before
<1> QED BY <1>4, <1>5, <1>6

-----------------------------------------------------------------------------
(* The worker's steps keep the invariant. *)

\* Files the worker has passed stay passed.
LEMMA BeforeLater ==
    ASSUME NEW t \in Task, JobOf[t].kind = "files", NEW s, NEW n \in Nat, NEW m \in Nat, n <= m,
           Before(s, t, n)
    PROVE  Before(s, t, m)
<1>1. DOMAIN FilesOf(t) \subseteq Nat
  BY JobKinds
<1> QED BY <1>1 DEF Before

LEMMA OwnInv == ASSUME Inv, OwnStep PROVE Inv'
<1>1. /\ w' \in Worker /\ WorkerInv' /\ Unseen
      /\ walk' \in Walk /\ WalkInv' /\ entered' \in [Task -> SUBSET Archive]
      /\ faults' \in 0 .. MaxFaults
      /\ w'.task = w.task /\ w.task \in Task /\ w'.next >= w.next
      /\ w.pc \notin {"idle", "exited"} /\ w'.pc \notin {"idle", "exited"}
  BY OwnStepOK DEF Inv
<1>2. TypeOK'
  BY <1>1 DEF Inv, TypeOK, Unseen
<1>3. RowsInv' /\ UsedInv' /\ ReviewInv'
  BY <1>1 DEF Inv, RowsInv, UsedInv, ReviewInv, Unseen, Finished
<1>4. MainInv'
  BY <1>1 DEF Inv, MainInv, Unseen, Idle, Finished
<1>5. NothingLeftBehind' /\ ImportedCountsAttachments'
  BY <1>1 DEF Inv, NothingLeftBehind, ImportedCountsAttachments, Unseen
<1>6. OrderInv'
  <2>1. /\ \A t \in used : JobOf[t].kind = "files" => Ordered(tree \o records, t)
        /\ JobOf[w.task].kind = "files" => Before(tree \o records, w.task, w.next)
        /\ \A j \in DOMAIN rows : rows[j].state = "Queued" =>
              MediaIn(tree \o records, rows[j].id) = {}
    BY <1>1, JobKinds DEF Inv, OrderInv
  <2>2. JobOf[w.task].kind = "files" => Before(tree \o records, w.task, w'.next)
    <3>1. w.next \in Nat /\ w'.next \in Nat
      BY <1>1 DEF Inv, TypeOK, Worker
    <3> QED BY <1>1, <2>1, <3>1, BeforeLater
  <2>3. UNCHANGED <<tree, records, rows, used>>
    BY <1>1 DEF Unseen
  <2> QED BY <1>1, <2>1, <2>2, <2>3 DEF OrderInv
<1> QED BY <1>1, <1>2, <1>3, <1>4, <1>5, <1>6 DEF Inv

LEMMA PostInv == ASSUME Inv, PostFile \/ WalkPosts PROVE Inv'
<1>1. /\ w' \in Worker /\ WorkerInv' /\ walk' \in Walk /\ WalkInv'
      /\ UNCHANGED <<rows, cancel, exclusive, stop, aborted, batchEnded, saveVars, boundVars,
                     tree, files, pending, reviewed, used, main, entered>>
      /\ w'.task = w.task /\ w.task \in Task /\ w'.next >= w.next
      /\ w.pc \notin {"idle", "exited"} /\ w'.pc \notin {"idle", "exited"}
  BY PostStepOK DEF Inv
<1>2. \/ records' = records
      \/ \E r \in Record :
           /\ records' = Append(records, r) /\ ~stop /\ Len(records) < RecordCap
           /\ r.task = w.task
           /\ JobOf[w.task].kind = "files" =>
                /\ w.next \in DOMAIN FilesOf(w.task)
                /\ r.name = FilesOf(w.task)[w.next].name
                /\ w'.next = w.next + 1
  BY PostStepOK DEF Inv
<1>3. w.task # NoTask /\ w.next \in Nat /\ w'.next \in Nat /\ records \in Seq(Record)
      /\ tree \in Seq(Record)
  BY <1>1, JobKinds DEF Inv, TypeOK, Worker
<1>4. RowsInv' /\ (main = "closed" => FALSE) /\ main # "attach"
  BY <1>1 DEF Inv, RowsInv, MainInv, Finished
<1>5. CASE records' = records
  <2>1. TypeOK'
    BY <1>1, <1>5 DEF Inv, TypeOK, saveVars, boundVars
  <2>2. UsedInv' /\ ReviewInv'
    BY <1>1, <1>5 DEF Inv, UsedInv, ReviewInv, Finished
  <2>3. MainInv'
    BY <1>1, <1>5 DEF Inv, MainInv, Idle, Finished, saveVars
  <2>4. NothingLeftBehind' /\ ImportedCountsAttachments'
    BY <1>1, <1>5 DEF Inv, NothingLeftBehind, ImportedCountsAttachments, saveVars
  <2>5. OrderInv'
    <3>1. /\ \A t \in used : JobOf[t].kind = "files" => Ordered(tree \o records, t)
          /\ JobOf[w.task].kind = "files" => Before(tree \o records, w.task, w.next)
          /\ \A j \in DOMAIN rows : rows[j].state = "Queued" =>
                MediaIn(tree \o records, rows[j].id) = {}
      BY <1>3 DEF Inv, OrderInv
    <3>2. JobOf[w.task].kind = "files" => Before(tree \o records, w.task, w'.next)
      BY <1>1, <1>3, <3>1, BeforeLater
    <3> QED BY <1>1, <1>5, <3>1, <3>2 DEF OrderInv
  <2> QED BY <1>1, <1>4, <2>1, <2>2, <2>3, <2>4, <2>5 DEF Inv
<1>6. CASE records' # records
  <2>1. PICK r \in Record :
           /\ records' = Append(records, r) /\ ~stop /\ Len(records) < RecordCap
           /\ r.task = w.task
           /\ JobOf[w.task].kind = "files" =>
                /\ w.next \in DOMAIN FilesOf(w.task)
                /\ r.name = FilesOf(w.task)[w.next].name
                /\ w'.next = w.next + 1
    BY <1>2, <1>6
  <2>2. /\ Len(records') = Len(records) + 1 /\ records' \in Seq(Record)
        /\ \A j \in DOMAIN records' : records'[j] = r \/ (j \in DOMAIN records /\ records'[j] = records[j])
    BY <1>3, <2>1
  <2>3. TypeOK'
    <3>1. Len(records') <= RecordCap
      BY <1>3, <2>1, <2>2, QueueAssumption
    <3> QED BY <1>1, <2>2, <3>1 DEF Inv, TypeOK, saveVars, boundVars
  <2>4. main = "run"
    <3>1. main \in {"closed", "run", "join", "attach"} /\ main # "join"
      BY <2>1 DEF Inv, TypeOK, MainInv
    <3> QED BY <1>4, <3>1
  <2>5. PICK h \in DOMAIN rows : rows[h].id = w.task /\ rows[h].state = "Running"
    BY <1>3, <2>4 DEF Inv, RowsInv
  <2>6. ~batchEnded
    BY <2>4, <2>5 DEF Inv, MainInv, Idle, Finished
  <2>7. MainInv' /\ NothingLeftBehind' /\ ImportedCountsAttachments'
    BY <1>1, <2>4, <2>6 DEF Inv, MainInv, NothingLeftBehind, ImportedCountsAttachments, saveVars
  <2>8. UsedInv' /\ ReviewInv'
    <3>1. w.task \in used
      BY <1>3 DEF Inv, UsedInv
    <3>2. UsedInv'
      BY <1>1, <2>1, <2>2, <3>1 DEF Inv, UsedInv
    <3>3. ReviewInv'
      BY <1>1, <2>1, <2>2 DEF Inv, ReviewInv, Finished
    <3> QED BY <3>2, <3>3
  <2>9. OrderInv'
    <3> DEFINE s == tree \o records
    <3>1. (tree \o records)' = Append(s, r) /\ s \in Seq(Record)
      <4>1. (tree \o records)' = tree \o Append(records, r)
        BY <1>1, <2>1
      <4>2. tree \o Append(records, r) = Append(tree \o records, r)
        BY <1>3, <2>1
      <4>3. tree \o records \in Seq(Record)
        BY <1>3
      <4> QED BY <4>1, <4>2, <4>3
    <3>2. /\ \A t \in used : JobOf[t].kind = "files" => Ordered(s, t)
          /\ JobOf[w.task].kind = "files" => Before(s, w.task, w.next)
          /\ \A j \in DOMAIN rows : rows[j].state = "Queued" => MediaIn(s, rows[j].id) = {}
      BY <1>3 DEF Inv, OrderInv
    <3> HIDE DEF s
    <3>3. ASSUME NEW t \in used, JobOf[t].kind = "files" PROVE Ordered(Append(s, r), t)
      <4>1. t \in Task
        BY DEF Inv, TypeOK
      <4> QED BY <1>3, <2>1, <3>1, <3>2, <3>3, <4>1, AppendOrdered
    <3>4. JobOf[w.task].kind = "files" => Before(Append(s, r), w.task, w'.next)
      <4>1. w.task \in used
        BY <1>3 DEF Inv, UsedInv
      <4> QED BY <1>1, <1>3, <2>1, <3>1, <3>2, <4>1, AppendOrdered
    <3>5. ASSUME NEW j \in DOMAIN rows, rows[j].state = "Queued"
          PROVE  MediaIn(Append(s, r), rows[j].id) = {}
      <4>1. rows[j].id # w.task /\ rows[j].id \in Task
        <5>1. j # h
          BY <2>5, <3>5
        <5>2. rows \in Seq(Row)
          BY DEF Inv, TypeOK
        <5>3. rows[j] \in Row
          BY <5>2
        <5> QED BY <2>5, <5>1, <5>3 DEF Inv, RowsInv, Row
      <4> QED BY <2>1, <3>1, <3>2, <3>5, <4>1, AppendOrdered
    <3>6. /\ \A t \in used' : JobOf[t].kind = "files" => Ordered((tree \o records)', t)
          /\ w'.task # NoTask /\ JobOf[w'.task].kind = "files" =>
                Before((tree \o records)', w'.task, w'.next)
          /\ \A j \in DOMAIN rows' : rows'[j].state = "Queued" =>
                MediaIn((tree \o records)', rows'[j].id) = {}
      BY <1>1, <3>1, <3>3, <3>4, <3>5
    <3> QED BY <3>6 DEF OrderInv
  <2> QED BY <1>1, <1>4, <2>3, <2>7, <2>8, <2>9 DEF Inv
<1> QED BY <1>5, <1>6

LEMMA RowTypes ==
    ASSUME NEW r \in Row
    PROVE  /\ r.id \in Task /\ r.imported \in Nat /\ r.skipped \in Nat
           /\ r.state \in {"Queued", "Running", "Done", "Failed", "Cancelled"}
           /\ \A st \in {"Queued", "Running", "Done", "Failed", "Cancelled"} :
                /\ [r EXCEPT !.state = st] \in Row
                /\ \A n \in Nat : [r EXCEPT !.state = st, !.skipped = n] \in Row
           /\ \A m, n \in Nat : [r EXCEPT !.imported = m, !.skipped = n] \in Row
BY DEF Row

LEMMA RowsTyped ==
    ASSUME TypeOK
    PROVE  /\ rows \in Seq(Row) /\ Len(rows) \in Nat /\ DOMAIN rows = 1 .. Len(rows)
           /\ \A j \in DOMAIN rows : rows[j] \in Row
BY DEF TypeOK

\* A change of the states of rows, nothing else: what it means for the parts of the
\* invariant that speak of rows.
LEMMA StatesOnly ==
    ASSUME Inv, rows' \in Seq(Row), DOMAIN rows' = DOMAIN rows,
           \A j \in DOMAIN rows : rows'[j].id = rows[j].id /\ rows'[j].imported = rows[j].imported,
           \A j \in DOMAIN rows : rows'[j].state = "Queued" => rows[j].state = "Queued",
           \A j \in DOMAIN rows : Finished(rows[j]) => Finished(rows'[j]),
           UNCHANGED <<tree, records, used, pending, reviewed>>
    PROVE  /\ \A i, j \in DOMAIN rows' : rows'[i].id = rows'[j].id => i = j
           /\ \A j \in DOMAIN rows' : rows'[j].id \in used'
           /\ main' = "run" => (main = "run" => ImportedCountsAttachments')
           /\ \A j \in DOMAIN rows' : rows'[j].state = "Queued" =>
                 MediaIn((tree \o records)', rows'[j].id) = {}
           /\ w'.task \notin reviewed => ReviewInv'
<1>1. \A i, j \in DOMAIN rows' : rows'[i].id = rows'[j].id => i = j
  BY DEF Inv, RowsInv
<1>2. \A j \in DOMAIN rows' : rows'[j].id \in used'
  BY DEF Inv, UsedInv
<1>3. main = "run" => ImportedCountsAttachments'
  <2> SUFFICES ASSUME main = "run" PROVE ImportedCountsAttachments'
    OBVIOUS
  <2>1. \A j \in DOMAIN rows :
           rows[j].imported = Cardinality({i \in DOMAIN tree : /\ tree[i].kind = "media"
                                                               /\ tree[i].task = rows[j].id})
    BY DEF Inv, ImportedCountsAttachments
  <2>2. \A j \in DOMAIN rows' :
           rows'[j].imported = Cardinality({i \in DOMAIN tree' : /\ tree'[i].kind = "media"
                                                                 /\ tree'[i].task = rows'[j].id})
    BY <2>1
  <2> QED BY <2>2 DEF ImportedCountsAttachments
<1>4. \A j \in DOMAIN rows' : rows'[j].state = "Queued" =>
         MediaIn((tree \o records)', rows'[j].id) = {}
  BY DEF Inv, OrderInv
<1>5. w'.task \notin reviewed => ReviewInv'
  BY DEF Inv, ReviewInv
<1> QED BY <1>1, <1>2, <1>3, <1>4, <1>5

LEMMA IdleWorkerOK ==
    /\ IdleWorker \in Worker /\ IdleWorker.window = << >> /\ IdleWorker.next = 1
    /\ IdleWorker.i = 1 /\ IdleWorker.task = NoTask /\ IdleWorker.pc = "idle"
<1>1. /\ IdleWorker.window = << >> /\ IdleWorker.next = 1
      /\ IdleWorker.i = 1 /\ IdleWorker.task = NoTask /\ IdleWorker.pc = "idle"
  BY DEF IdleWorker
<1>2. << >> \in Seq(Nat)
  OBVIOUS
<1>3. IdleWorker \in Worker
  BY <1>2 DEF IdleWorker, Worker
<1> QED BY <1>1, <1>3

LEMMA StartedWorker ==
    ASSUME NEW t \in Task, NEW p \in {"load", "walk"}
    PROVE  LET v == [IdleWorker EXCEPT !.pc = p, !.task = t] IN
           v \in Worker /\ v.pc = p /\ v.task = t /\ v.window = << >> /\ v.next = 1 /\ v.i = 1
BY IdleWorkerOK DEF Worker

LEMMA TakeTaskInv == ASSUME Inv, TakeTask PROVE Inv'
<1>1. /\ w.pc = "idle" /\ ~stop
      /\ UNCHANGED <<cancel, records, exclusive, stop, aborted, batchEnded, entered, saveVars,
                     boundVars, tree, files, pending, reviewed, used, main>>
  BY DEF TakeTask, WorkerOnly
<1>2. main = "run" /\ w.task = NoTask
  BY <1>1 DEF Inv, MainInv, WorkerInv, TypeOK
<1>3. PICK j \in DOMAIN rows :
         /\ Waiting(rows[j]) /\ rows' = [rows EXCEPT ![j].state = "Running"]
         /\ IF JobOf[rows[j].id].kind = "files"
            THEN /\ w' = [IdleWorker EXCEPT !.pc = "load", !.task = rows[j].id]
                 /\ walk' = walk
            ELSE /\ w' = [IdleWorker EXCEPT !.pc = "walk", !.task = rows[j].id]
                 /\ walk' = WalkOf(JobOf[rows[j].id].root)
  BY DEF TakeTask
<1> DEFINE t == rows[j].id
<1>4. /\ t \in Task /\ t # NoTask /\ rows[j] \in Row
      /\ JobOf[t].kind \in {"files", "archive"}
      /\ JobOf[t].kind = "archive" => JobOf[t].root \in Archive
  <2>1. t \in Task /\ rows[j] \in Row
    BY RowsTyped, RowTypes DEF Inv
  <2> HIDE DEF t
  <2> QED BY <2>1, JobKinds
<1>5. rows[j].state = "Queued"
  <2>1. rows[j].state # "Running"
    BY <1>2, <1>4 DEF Inv, RowsInv
  <2> QED BY <1>3, <2>1 DEF Waiting
<1>6. /\ w' \in Worker /\ w'.task = t /\ w'.next = 1 /\ w'.window = << >> /\ w'.i = 1
      /\ w'.pc = IF JobOf[t].kind = "files" THEN "load" ELSE "walk"
  <2>1. CASE JobOf[t].kind = "files"
    <3>1. w' = [IdleWorker EXCEPT !.pc = "load", !.task = t]
      BY <1>3, <2>1
    <3> HIDE DEF t
    <3> QED BY <1>4, <2>1, <3>1, StartedWorker
  <2>2. CASE JobOf[t].kind # "files"
    <3>1. w' = [IdleWorker EXCEPT !.pc = "walk", !.task = t]
      BY <1>3, <2>2
    <3> HIDE DEF t
    <3> QED BY <1>4, <2>2, <3>1, StartedWorker
  <2> QED BY <2>1, <2>2
<1>7. walk' \in Walk /\ WalkInv'
  <2>1. CASE JobOf[t].kind = "files"
    BY <1>3, <2>1 DEF Inv, TypeOK, WalkInv
  <2>2. CASE JobOf[t].kind # "files"
    <3>1. walk' = WalkOf(JobOf[t].root) /\ JobOf[t].root \in Archive
      BY <1>3, <1>4, <2>2
    <3> HIDE DEF t
    <3> QED BY <3>1, WalkOfOK DEF WalkInv
  <2> QED BY <2>1, <2>2
<1>8. WorkerInv'
  BY <1>4, <1>6 DEF WorkerInv, Loading
<1>9. /\ rows' \in Seq(Row) /\ DOMAIN rows' = DOMAIN rows
      /\ rows'[j].state = "Running" /\ rows'[j].id = t /\ rows'[j].imported = rows[j].imported
      /\ \A i \in DOMAIN rows : i # j => rows'[i] = rows[i]
  <2>1. rows \in Seq(Row) /\ \A i \in DOMAIN rows : rows[i] \in Row
    BY RowsTyped DEF Inv
  <2>2. [rows[j] EXCEPT !.state = "Running"] \in Row
    BY <1>4, RowTypes
  <2>3. rows' = [rows EXCEPT ![j] = [rows[j] EXCEPT !.state = "Running"]]
    BY <1>3
  <2>4. rows' \in Seq(Row) /\ DOMAIN rows' = DOMAIN rows
    BY <2>1, <2>2, <2>3
  <2>5. rows'[j] = [rows[j] EXCEPT !.state = "Running"]
        /\ \A i \in DOMAIN rows : i # j => rows'[i] = rows[i]
    BY <2>1, <2>3
  <2> QED BY <1>4, <2>4, <2>5 DEF Row
<1>10. TypeOK'
  BY <1>1, <1>6, <1>7, <1>9 DEF Inv, TypeOK, saveVars, boundVars
<1>11. ~batchEnded
  BY <1>2, <1>5 DEF Inv, MainInv, Idle, Finished
<1>12. t \in used /\ t \notin reviewed
  BY <1>5 DEF Inv, UsedInv, ReviewInv, Finished
<1>13. /\ \A a, b \in DOMAIN rows' : rows'[a].id = rows'[b].id => a = b
       /\ \A i \in DOMAIN rows' : rows'[i].id \in used'
       /\ ImportedCountsAttachments'
       /\ \A i \in DOMAIN rows' : rows'[i].state = "Queued" =>
             MediaIn((tree \o records)', rows'[i].id) = {}
       /\ ReviewInv'
  <2>1. \A i \in DOMAIN rows : /\ rows'[i].id = rows[i].id
                               /\ rows'[i].imported = rows[i].imported
                               /\ rows'[i].state = "Queued" => rows[i].state = "Queued"
                               /\ Finished(rows[i]) => Finished(rows'[i])
    BY <1>5, <1>9 DEF Finished
  <2>2. UNCHANGED <<tree, records, used, pending, reviewed, main>>
    BY <1>1
  <2>3. w'.task \notin reviewed
    BY <1>6, <1>12
  <2> HIDE DEF t
  <2> QED BY <1>2, <1>9, <2>1, <2>2, <2>3, StatesOnly
<1>14. RowsInv'
  <2>1. \A i \in DOMAIN rows : i # j => rows[i].state # "Running"
    <3> SUFFICES ASSUME NEW i \in DOMAIN rows, rows[i].state = "Running" PROVE FALSE
      OBVIOUS
    <3>1. rows[i].id = NoTask
      BY <1>2 DEF Inv, RowsInv
    <3>2. rows[i].id \in Task
      BY RowsTyped, RowTypes DEF Inv
    <3> QED BY <3>1, <3>2, JobKinds
  <2>2. \A i \in DOMAIN rows' : rows'[i].state = "Running" => rows'[i].id = w'.task
    BY <1>6, <1>9, <2>1
  <2> QED BY <1>1, <1>2, <1>6, <1>9, <1>13, <2>2 DEF RowsInv
<1>15. MainInv'
  BY <1>1, <1>2, <1>6, <1>11 DEF Inv, MainInv, saveVars
<1>16. UsedInv'
  BY <1>1, <1>6, <1>12, <1>13 DEF Inv, UsedInv
<1>17. NothingLeftBehind'
  BY <1>1, <1>2 DEF Inv, NothingLeftBehind, saveVars
<1>18. OrderInv'
  <2>1. MediaIn(tree \o records, t) = {}
    BY <1>5 DEF Inv, OrderInv
  <2>2. Before((tree \o records)', w'.task, w'.next)
    BY <1>1, <1>6, <2>1 DEF Before
  <2>3. \A u \in used' : JobOf[u].kind = "files" => Ordered((tree \o records)', u)
    BY <1>1 DEF Inv, OrderInv
  <2> QED BY <1>13, <2>2, <2>3 DEF OrderInv
<1> QED BY <1>7, <1>8, <1>10, <1>13, <1>14, <1>15, <1>16, <1>17, <1>18 DEF Inv

\* No row of the task is running and the worker is free.
LEMMA FinishTaskInv == ASSUME Inv, FinishTask PROVE Inv'
<1>1. /\ w.pc = "finish" /\ w' = IdleWorker
      /\ rows' = [j \in DOMAIN rows |->
                    IF rows[j].id = w.task /\ rows[j].state = "Running" THEN Completed(rows[j])
                    ELSE rows[j]]
      /\ UNCHANGED <<cancel, records, exclusive, stop, aborted, batchEnded, entered, walk, saveVars,
                     boundVars, tree, files, pending, reviewed, used, main>>
  BY DEF FinishTask, WorkerOnly
<1>2. /\ w' \in Worker /\ w'.task = NoTask /\ w'.pc = "idle" /\ w.task # NoTask
  BY <1>1, IdleWorkerOK DEF Inv, WorkerInv
<1>3. ASSUME NEW j \in DOMAIN rows
      PROVE  /\ Completed(rows[j]) \in Row /\ Completed(rows[j]).id = rows[j].id
             /\ Completed(rows[j]).imported = rows[j].imported
             /\ Completed(rows[j]).state \in {"Failed", "Cancelled", "Done"}
  <2> DEFINE st == IF w.failed THEN "Failed" ELSE IF IsCancelled THEN "Cancelled" ELSE "Done"
  <2>1. st \in {"Failed", "Cancelled", "Done"}
    OBVIOUS
  <2>2. rows[j] \in Row /\ w.skipped \in Nat
    BY RowsTyped DEF Inv, TypeOK, Worker
  <2>3. rows[j].skipped + w.skipped \in Nat
    BY <2>2 DEF Row
  <2>4. Completed(rows[j]) = [rows[j] EXCEPT !.state = st, !.skipped = rows[j].skipped + w.skipped]
    BY DEF Completed
  <2> HIDE DEF st
  <2> QED BY <2>1, <2>2, <2>3, <2>4 DEF Row
<1>4. /\ rows' \in Seq(Row) /\ DOMAIN rows' = DOMAIN rows
      /\ \A j \in DOMAIN rows : rows'[j] = IF rows[j].id = w.task /\ rows[j].state = "Running"
                                           THEN Completed(rows[j]) ELSE rows[j]
  <2>1. /\ rows \in Seq(Row) /\ \A j \in DOMAIN rows : rows[j] \in Row
        /\ Len(rows) \in Nat /\ DOMAIN rows = 1 .. Len(rows)
    BY RowsTyped DEF Inv
  <2>2. \A j \in DOMAIN rows : Completed(rows[j]) \in Row
    BY <1>3
  <2> QED BY <1>1, <2>1, <2>2
<1>5. TypeOK'
  BY <1>1, <1>2, <1>4 DEF Inv, TypeOK, saveVars, boundVars
<1>6. main # "attach" /\ main # "closed"
  BY <1>1 DEF Inv, MainInv
<1>7. \A j \in DOMAIN rows : /\ rows'[j].id = rows[j].id
                             /\ rows'[j].imported = rows[j].imported
                             /\ rows'[j].state = "Queued" => rows[j].state = "Queued"
                             /\ Finished(rows[j]) => Finished(rows'[j])
  BY <1>3, <1>4 DEF Finished
<1>8. /\ \A a, b \in DOMAIN rows' : rows'[a].id = rows'[b].id => a = b
      /\ \A i \in DOMAIN rows' : rows'[i].id \in used'
      /\ main' = "run" => ImportedCountsAttachments'
      /\ \A i \in DOMAIN rows' : rows'[i].state = "Queued" =>
            MediaIn((tree \o records)', rows'[i].id) = {}
      /\ ReviewInv'
  <2>1. UNCHANGED <<tree, records, used, pending, reviewed, main>>
    BY <1>1
  <2>2. w'.task \notin reviewed
    BY <1>2, JobKinds DEF Inv, TypeOK
  <2> QED BY <1>4, <1>7, <2>1, <2>2, StatesOnly
<1>9. ImportedCountsAttachments'
  BY <1>8 DEF ImportedCountsAttachments
<1>10. RowsInv'
  <2>1. main = "run" => \A j \in DOMAIN rows' : rows'[j].state # "Running"
    <3> SUFFICES ASSUME main = "run", NEW j \in DOMAIN rows' PROVE rows'[j].state # "Running"
      OBVIOUS
    <3>1. rows[j].state = "Running" => rows[j].id = w.task
      BY <1>4 DEF Inv, RowsInv
    <3> QED BY <1>3, <1>4, <3>1
  <2>2. main # "run" => \A j \in DOMAIN rows' : Finished(rows'[j])
    BY <1>4, <1>7 DEF Inv, RowsInv
  <2> QED BY <1>1, <1>2, <1>8, <2>1, <2>2 DEF RowsInv, Finished
<1>11. MainInv'
  <2>1. main = "run" => ~batchEnded
    BY <1>2 DEF Inv, MainInv, RowsInv, Idle, Finished
  <2> QED BY <1>1, <1>2, <1>6, <2>1 DEF Inv, MainInv, saveVars
<1>12. UsedInv'
  BY <1>1, <1>2, <1>8 DEF Inv, UsedInv
<1>13. NothingLeftBehind'
  BY <1>1 DEF Inv, NothingLeftBehind, saveVars
<1>14. OrderInv'
  <2>1. \A u \in used' : JobOf[u].kind = "files" => Ordered((tree \o records)', u)
    BY <1>1 DEF Inv, OrderInv
  <2> QED BY <1>2, <1>8, <2>1 DEF OrderInv
<1>15. WorkerInv' /\ WalkInv'
  BY <1>1, <1>2 DEF Inv, WorkerInv, WalkInv, Loading
<1> QED BY <1>5, <1>8, <1>9, <1>10, <1>11, <1>12, <1>13, <1>14, <1>15 DEF Inv

LEMMA WorkerExitsInv == ASSUME Inv, WorkerExits PROVE Inv'
<1>1. /\ w.pc = "idle" /\ stop /\ w' = [w EXCEPT !.pc = "exited"]
      /\ UNCHANGED <<rows, cancel, records, exclusive, stop, aborted, batchEnded, saveVars, walk,
                     entered, boundVars, tree, files, pending, reviewed, used, main>>
  BY DEF WorkerExits, Local, WorkerOnly, queueVars
<1>2. /\ w' \in Worker /\ w'.task = w.task /\ w'.pc = "exited" /\ w.task = NoTask
      /\ w'.next = w.next
  BY <1>1 DEF Inv, TypeOK, WorkerInv, Worker
<1>3. main # "run"
  BY <1>1 DEF Inv, MainInv
<1>4. TypeOK'
  BY <1>1, <1>2 DEF Inv, TypeOK, saveVars, boundVars
<1>5. WorkerInv' /\ WalkInv'
  BY <1>1, <1>2 DEF Inv, WorkerInv, WalkInv, Loading
<1>6. RowsInv' /\ UsedInv' /\ ReviewInv' /\ MainInv'
  BY <1>1, <1>2, <1>3 DEF Inv, RowsInv, UsedInv, ReviewInv, MainInv, Finished, saveVars
<1>7. NothingLeftBehind' /\ ImportedCountsAttachments'
  BY <1>1 DEF Inv, NothingLeftBehind, ImportedCountsAttachments, saveVars
<1>8. OrderInv'
  BY <1>1, <1>2 DEF Inv, OrderInv
<1> QED BY <1>4, <1>5, <1>6, <1>7, <1>8 DEF Inv

-----------------------------------------------------------------------------
(* The save worker and the joining of it. *)

\* What a step of the saving machinery leaves alone.
Untouched == UNCHANGED <<rows, cancel, records, exclusive, stop, aborted, batchEnded, w, walk,
                         entered, sessions, controls, tree, files, pending, reviewed, used>>

LEMMA SavingOnly ==
    ASSUME Inv, Untouched, main' = main \/ {main, main'} = {"join", "attach"}
    PROVE  /\ WorkerInv' /\ WalkInv' /\ RowsInv' /\ UsedInv' /\ ReviewInv' /\ OrderInv'
           /\ ImportedCountsAttachments'
<1>1. WorkerInv' /\ WalkInv' /\ UsedInv' /\ ReviewInv'
  BY DEF Untouched, Inv, WorkerInv, WalkInv, UsedInv, ReviewInv, FilesOf, Finished
<1>2. main' = "run" <=> main = "run"
  OBVIOUS
<1>3. RowsInv' /\ OrderInv' /\ ImportedCountsAttachments'
  BY <1>2 DEF Untouched, Inv, RowsInv, OrderInv, ImportedCountsAttachments, Finished
<1> QED BY <1>1, <1>3

LEMMA SaveInv ==
    ASSUME Inv, SaveCommits \/ SaveFails \/ DrainReturns \/ AbortJoins PROVE Inv'
<1>1. Untouched
  BY DEF SaveCommits, SaveFails, DrainReturns, AbortJoins, queueVars, workVars, boundVars, Untouched
<1>2. main' = main \/ {main, main'} = {"join", "attach"}
  BY DEF SaveCommits, SaveFails, DrainReturns, AbortJoins
<1>3. /\ WorkerInv' /\ WalkInv' /\ RowsInv' /\ UsedInv' /\ ReviewInv' /\ OrderInv'
      /\ ImportedCountsAttachments'
  BY <1>1, <1>2, SavingOnly
<1>4. /\ save' \in {"none", "running", "ok", "failed"} /\ saveFailed' \in BOOLEAN
      /\ laneFailed' \in BOOLEAN /\ saved' \in 0 .. Len(tree) /\ faults' \in 0 .. MaxFaults
      /\ main' \in {"closed", "run", "join", "attach"}
  <2>1. /\ saveFailed \in BOOLEAN /\ laneFailed \in BOOLEAN /\ faults \in 0 .. MaxFaults
        /\ saved \in 0 .. Len(tree) /\ tree \in Seq(Record) /\ Len(tree) \in Nat
        /\ save \in {"none", "running", "ok", "failed"}
        /\ main \in {"closed", "run", "join", "attach"} /\ MaxFaults \in Nat
    BY QueueAssumption DEF Inv, TypeOK
  <2>2. CASE SaveCommits
    BY <2>1, <2>2 DEF SaveCommits, boundVars
  <2>3. CASE SaveFails
    BY <2>1, <2>3 DEF SaveFails
  <2>4. CASE DrainReturns
    BY <2>1, <2>4 DEF DrainReturns, boundVars
  <2>5. CASE AbortJoins
    BY <2>1, <2>5 DEF AbortJoins, Polled, PolledFailed, boundVars
  <2> QED BY <2>2, <2>3, <2>4, <2>5
<1>5. TypeOK'
  BY <1>1, <1>4 DEF Inv, TypeOK, Untouched
<1>6. MainInv'
  <2>1. CASE SaveCommits
    BY <1>1, <2>1 DEF SaveCommits, Inv, MainInv, Untouched, Idle, Finished
  <2>2. CASE SaveFails
    BY <1>1, <2>2 DEF SaveFails, Inv, MainInv, Untouched, Idle, Finished
  <2>3. CASE DrainReturns
    BY <1>1, <2>3 DEF DrainReturns, Inv, MainInv, Untouched, Idle, Finished
  <2>4. CASE AbortJoins
    <3>1. /\ main' = "attach" /\ w.pc = "exited" /\ save' = "none"
      BY <2>4 DEF AbortJoins, JoinBoth, Polled, Inv, TypeOK
    <3> QED BY <1>1, <3>1 DEF MainInv, Untouched
  <2> QED BY <2>1, <2>2, <2>3, <2>4
<1>7. NothingLeftBehind'
  <2>1. CASE SaveCommits
    BY <1>1, <2>1 DEF SaveCommits, Inv, MainInv, NothingLeftBehind, Untouched
  <2>2. CASE SaveFails
    BY <1>1, <2>2 DEF SaveFails, Inv, MainInv, NothingLeftBehind, Untouched
  <2>3. CASE DrainReturns
    BY <1>1, <2>3 DEF DrainReturns, Inv, MainInv, NothingLeftBehind, Untouched
  <2>4. CASE AbortJoins
    BY <1>1, <2>4 DEF AbortJoins, NothingLeftBehind, Untouched
  <2> QED BY <2>1, <2>2, <2>3, <2>4
<1> QED BY <1>3, <1>5, <1>6, <1>7 DEF Inv

-----------------------------------------------------------------------------
(* The user's control of the queue. *)

LEMMA IndexOfOK ==
    ASSUME NEW t, InQueue(t)
    PROVE  IndexOf(t) \in DOMAIN rows /\ rows[IndexOf(t)].id = t
BY DEF InQueue, IndexOf

\* Rows that are moved, dropped when they are finished, or cancelled while they wait.
LEMMA RowsEdited ==
    ASSUME Inv, main = "run", rows' \in Seq(Row), NEW m \in [DOMAIN rows' -> DOMAIN rows],
           \A i, j \in DOMAIN rows' : m[i] = m[j] => i = j,
           \A i \in DOMAIN rows' :
              /\ rows'[i].id = rows[m[i]].id /\ rows'[i].imported = rows[m[i]].imported
              /\ \/ rows'[i].state = rows[m[i]].state
                 \/ rows[m[i]].state = "Queued" /\ rows'[i].state = "Cancelled",
           \A j \in DOMAIN rows : rows[j].state = "Running" => \E i \in DOMAIN rows' : m[i] = j,
           UNCHANGED <<records, stop, aborted, batchEnded, saveVars, workVars, sessions, faults, tree,
                       files, pending, reviewed, used, main>>,
           cancel' \subseteq Task, exclusive' \in BOOLEAN, controls' \in 0 .. MaxControls
    PROVE  Inv'
<1>1. TypeOK'
  BY DEF Inv, TypeOK, saveVars, workVars
<1>2. WorkerInv' /\ WalkInv'
  BY DEF Inv, WorkerInv, WalkInv, workVars, FilesOf
<1>3. RowsInv'
  <2>1. \A i, j \in DOMAIN rows' : rows'[i].id = rows'[j].id => i = j
    BY DEF Inv, RowsInv
  <2>2. \A j \in DOMAIN rows' : rows'[j].state = "Running" => rows'[j].id = w.task
    BY DEF Inv, RowsInv
  <2>3. w.task # NoTask => \E j \in DOMAIN rows' : rows'[j].id = w.task /\ rows'[j].state = "Running"
    <3> SUFFICES ASSUME w.task # NoTask
                 PROVE  \E j \in DOMAIN rows' : rows'[j].id = w.task /\ rows'[j].state = "Running"
      OBVIOUS
    <3>1. PICK j \in DOMAIN rows : rows[j].id = w.task /\ rows[j].state = "Running"
      BY DEF Inv, RowsInv
    <3>2. PICK i \in DOMAIN rows' : m[i] = j
      BY <3>1
    <3> QED BY <3>1, <3>2
  <2> QED BY <2>1, <2>2, <2>3 DEF RowsInv, workVars
<1>4. \A i \in DOMAIN rows' : Finished(rows[m[i]]) => Finished(rows'[i])
  BY DEF Finished
<1>5. MainInv'
  BY <1>4 DEF Inv, MainInv, Idle, saveVars, workVars
<1>6. UsedInv' /\ ReviewInv'
  BY <1>4 DEF Inv, UsedInv, ReviewInv, workVars
<1>7. NothingLeftBehind'
  BY DEF Inv, NothingLeftBehind, saveVars
<1>8. ImportedCountsAttachments'
  <2>1. \A j \in DOMAIN rows :
           rows[j].imported = Cardinality({i \in DOMAIN tree : /\ tree[i].kind = "media"
                                                               /\ tree[i].task = rows[j].id})
    BY DEF Inv, ImportedCountsAttachments
  <2>2. \A j \in DOMAIN rows' :
           rows'[j].imported = Cardinality({i \in DOMAIN tree' : /\ tree'[i].kind = "media"
                                                                 /\ tree'[i].task = rows'[j].id})
    <3> SUFFICES ASSUME NEW j \in DOMAIN rows'
                 PROVE  rows'[j].imported = Cardinality({i \in DOMAIN tree : /\ tree[i].kind = "media"
                                                                             /\ tree[i].task = rows'[j].id})
      OBVIOUS
    <3>1. m[j] \in DOMAIN rows /\ rows'[j].id = rows[m[j]].id
          /\ rows'[j].imported = rows[m[j]].imported
      OBVIOUS
    <3> QED BY <2>1, <3>1
  <2> QED BY <2>2 DEF ImportedCountsAttachments
<1>9. OrderInv'
  <2>1. \A j \in DOMAIN rows' : rows'[j].state = "Queued" =>
           MediaIn((tree \o records)', rows'[j].id) = {}
    BY SMTT(30) DEF Inv, OrderInv
  <2>2. \A t \in used' : JobOf[t].kind = "files" => Ordered((tree \o records)', t)
    BY DEF Inv, OrderInv
  <2>3. w'.task # NoTask /\ JobOf[w'.task].kind = "files" =>
           Before((tree \o records)', w'.task, w'.next)
    BY DEF Inv, OrderInv, workVars
  <2> QED BY <2>1, <2>2, <2>3 DEF OrderInv
<1> QED BY <1>1, <1>2, <1>3, <1>5, <1>6, <1>7, <1>8, <1>9 DEF Inv

LEMMA ControlOK ==
    ASSUME TypeOK, Control
    PROVE  main = "run" /\ controls' \in 0 .. MaxControls
BY QueueAssumption, SMTT(30) DEF TypeOK, Control

\* The rows as they are.
LEMMA RowsKept ==
    ASSUME Inv, main = "run", rows' = rows,
           UNCHANGED <<records, stop, aborted, batchEnded, saveVars, workVars, sessions, faults, tree,
                       files, pending, reviewed, used, main>>,
           cancel' \subseteq Task, exclusive' \in BOOLEAN, controls' \in 0 .. MaxControls
    PROVE  Inv'
<1> DEFINE m == [i \in DOMAIN rows |-> i]
<1>1. rows' \in Seq(Row) /\ m \in [DOMAIN rows' -> DOMAIN rows] /\ \A i \in DOMAIN rows : m[i] = i
  BY DEF Inv, TypeOK
<1> HIDE DEF m
<1>2. \A j \in DOMAIN rows : rows[j].state = "Running" => \E i \in DOMAIN rows' : m[i] = j
  BY <1>1
<1> QED BY <1>1, <1>2, RowsEdited

LEMMA SetExclusiveInv == ASSUME Inv, NEW held \in BOOLEAN, SetExclusive(held) PROVE Inv'
<1>1. main = "run" /\ controls' \in 0 .. MaxControls
  BY ControlOK DEF Inv, TypeOK, SetExclusive
<1>2. /\ exclusive' \in BOOLEAN /\ cancel' \subseteq Task /\ rows' = rows
      /\ UNCHANGED <<records, stop, aborted, batchEnded, saveVars, workVars, sessions, faults, tree,
                     files, pending, reviewed, used, main>>
  BY DEF SetExclusive, Inv, TypeOK
<1> QED BY <1>1, <1>2, RowsKept

LEMMA CancelInv == ASSUME Inv, NEW t \in Task, Cancel(t) PROVE Inv'
<1>1. main = "run" /\ controls' \in 0 .. MaxControls
  BY ControlOK DEF Inv, Cancel
<1>2. /\ exclusive' \in BOOLEAN
      /\ UNCHANGED <<records, stop, aborted, batchEnded, saveVars, workVars, sessions, faults, tree,
                     files, pending, reviewed, used, main>>
  BY DEF Cancel, Inv, TypeOK
<1>3. CASE rows' = rows
  <2>1. cancel' \subseteq Task
    BY DEF Cancel, Inv, TypeOK
  <2> QED BY <1>1, <1>2, <1>3, <2>1, RowsKept
<1>4. CASE rows' # rows
  <2> DEFINE j == IndexOf(t)
             m == [i \in DOMAIN rows |-> i]
  <2>1. /\ rows[j].state = "Queued" /\ rows' = [rows EXCEPT ![j].state = "Cancelled"]
        /\ cancel' = cancel
    BY <1>4 DEF Cancel
  <2>2. j \in DOMAIN rows
    BY IndexOfOK DEF Cancel
  <2>3. rows \in Seq(Row) /\ rows[j] \in Row
    BY <2>2, RowsTyped DEF Inv
  <2> HIDE DEF j
  <2>4. [rows[j] EXCEPT !.state = "Cancelled"] \in Row
    BY <2>3, RowTypes
  <2>5. rows' = [rows EXCEPT ![j] = [rows[j] EXCEPT !.state = "Cancelled"]]
    BY <2>1
  <2>6. /\ rows' \in Seq(Row) /\ DOMAIN rows' = DOMAIN rows
        /\ rows'[j] = [rows[j] EXCEPT !.state = "Cancelled"]
        /\ \A i \in DOMAIN rows : i # j => rows'[i] = rows[i]
    BY <2>2, <2>3, <2>4, <2>5
  <2>7. m \in [DOMAIN rows' -> DOMAIN rows] /\ \A i \in DOMAIN rows : m[i] = i
    BY <2>6
  <2> HIDE DEF m
  <2>8. \A i \in DOMAIN rows' :
           /\ rows'[i].id = rows[m[i]].id /\ rows'[i].imported = rows[m[i]].imported
           /\ \/ rows'[i].state = rows[m[i]].state
              \/ rows[m[i]].state = "Queued" /\ rows'[i].state = "Cancelled"
    BY <2>1, <2>3, <2>6, <2>7 DEF Row
  <2>9. \A k \in DOMAIN rows : rows[k].state = "Running" => \E i \in DOMAIN rows' : m[i] = k
    BY <2>6, <2>7
  <2>10. cancel' \subseteq Task
    BY <2>1 DEF Inv, TypeOK
  <2> QED BY <1>1, <1>2, <2>6, <2>7, <2>8, <2>9, <2>10, RowsEdited
<1> QED BY <1>3, <1>4

LEMMA ReorderInv == ASSUME Inv, NEW t \in Task, NEW d \in {-1, 1}, Reorder(t, d) PROVE Inv'
<1> DEFINE j == IndexOf(t)
           k == j + d
           m == [i \in DOMAIN rows |-> IF i = j THEN k ELSE IF i = k THEN j ELSE i]
<1>1. main = "run" /\ controls' \in 0 .. MaxControls
  BY ControlOK DEF Inv, Reorder
<1>2. /\ exclusive' \in BOOLEAN /\ cancel' \subseteq Task
      /\ UNCHANGED <<records, stop, aborted, batchEnded, saveVars, workVars, sessions, faults, tree,
                     files, pending, reviewed, used, main>>
  BY DEF Reorder, Inv, TypeOK
<1>3. /\ j \in DOMAIN rows /\ k \in DOMAIN rows
      /\ rows' = [rows EXCEPT ![j] = rows[k], ![k] = rows[j]]
  BY IndexOfOK DEF Reorder
<1>4. rows \in Seq(Row) /\ rows[j] \in Row /\ rows[k] \in Row /\ j \in Int /\ j # k
  <2>1. rows \in Seq(Row) /\ rows[j] \in Row /\ rows[k] \in Row /\ DOMAIN rows \subseteq Nat
    BY <1>3, RowsTyped DEF Inv
  <2> HIDE DEF j
  <2> QED BY <1>3, <2>1
<1> HIDE DEF j, k
<1>5. /\ rows' \in Seq(Row) /\ DOMAIN rows' = DOMAIN rows /\ rows'[j] = rows[k]
      /\ rows'[k] = rows[j] /\ \A i \in DOMAIN rows : i # j /\ i # k => rows'[i] = rows[i]
  BY <1>3, <1>4
<1>6. /\ m \in [DOMAIN rows' -> DOMAIN rows]
      /\ \A i \in DOMAIN rows : m[i] = IF i = j THEN k ELSE IF i = k THEN j ELSE i
  BY <1>3, <1>5
<1> HIDE DEF m
<1>7. \A i \in DOMAIN rows' : rows'[i] = rows[m[i]]
  BY <1>5, <1>6
<1>8. \A i, h \in DOMAIN rows' : m[i] = m[h] => i = h
  BY <1>4, <1>5, <1>6
<1>9. \A h \in DOMAIN rows : \E i \in DOMAIN rows' : m[i] = h
  BY <1>3, <1>5, <1>6
<1>10. \A i \in DOMAIN rows' :
          /\ rows'[i].id = rows[m[i]].id /\ rows'[i].imported = rows[m[i]].imported
          /\ rows'[i].state = rows[m[i]].state
  BY <1>7
<1>11. rows' \in Seq(Row) /\ m \in [DOMAIN rows' -> DOMAIN rows]
  BY <1>5, <1>6
<1> QED BY <1>1, <1>2, <1>8, <1>9, <1>10, <1>11, RowsEdited

LEMMA ClearFinishedInv == ASSUME Inv, ClearFinished PROVE Inv'
<1> DEFINE I == {j \in DOMAIN rows : ~Finished(rows[j])}
           m == [k \in 1 .. Cardinality(I) |-> At(I, k)]
<1>1. main = "run" /\ controls' \in 0 .. MaxControls
  BY ControlOK DEF Inv, ClearFinished
<1>2. /\ exclusive' \in BOOLEAN /\ cancel' \subseteq Task /\ rows' = Picked(rows, I)
      /\ UNCHANGED <<records, stop, aborted, batchEnded, saveVars, workVars, sessions, faults, tree,
                     files, pending, reviewed, used, main>>
  BY DEF ClearFinished, Inv, TypeOK
<1>3. rows \in Seq(Row) /\ Len(rows) \in Nat /\ I \in SUBSET (1 .. Len(rows))
      /\ DOMAIN rows = 1 .. Len(rows)
  BY RowsTyped DEF Inv
<1>4. \A j \in DOMAIN rows : rows[j].state = "Running" => j \in I
  BY DEF Finished
<1> HIDE DEF I
<1>5. /\ Picked(rows, I) \in Seq(Row) /\ Len(Picked(rows, I)) = Cardinality(I)
      /\ Cardinality(I) \in Nat
      /\ \A k \in 1 .. Cardinality(I) : Picked(rows, I)[k] = rows[At(I, k)] /\ At(I, k) \in I
  BY <1>3, PickedElements
<1>6. /\ rows' \in Seq(Row) /\ DOMAIN rows' = 1 .. Cardinality(I)
      /\ \A k \in 1 .. Cardinality(I) : rows'[k] = rows[At(I, k)]
  BY <1>2, <1>5
<1>7. /\ m \in [DOMAIN rows' -> DOMAIN rows] /\ \A k \in DOMAIN rows' : rows'[k] = rows[m[k]]
  BY <1>3, <1>5, <1>6
<1>8. \A i, h \in DOMAIN rows' : m[i] = m[h] => i = h
  <2> SUFFICES ASSUME NEW i \in DOMAIN rows', NEW h \in DOMAIN rows', m[i] = m[h], i # h
               PROVE  FALSE
    OBVIOUS
  <2>1. i \in 1 .. Cardinality(I) /\ h \in 1 .. Cardinality(I) /\ At(I, i) = At(I, h)
    BY <1>6
  <2>2. i < h \/ h < i
    BY <1>5, <2>1
  <2>3. At(I, i) \in Int
    <3>1. At(I, i) \in I
      BY <1>5, <2>1
    <3>2. At(I, i) \in 1 .. Len(rows)
      BY <1>3, <3>1, Zenon
    <3> QED BY <1>3, <3>2
  <2>4. \A a, b \in 1 .. Cardinality(I) : a < b => At(I, a) < At(I, b)
    BY <1>3, Positions
  <2>5. At(I, i) < At(I, h) \/ At(I, h) < At(I, i)
    BY <2>1, <2>2, <2>4
  <2> QED BY <2>1, <2>3, <2>5
<1>9. \A j \in DOMAIN rows : rows[j].state = "Running" => \E i \in DOMAIN rows' : m[i] = j
  <2>1. \A j \in I : \E k \in 1 .. Cardinality(I) : At(I, k) = j
    BY <1>3, Positions
  <2> QED BY <1>4, <1>6, <2>1
<1> HIDE DEF m
<1> QED BY <1>1, <1>2, <1>6, <1>7, <1>8, <1>9, RowsEdited, ZenonT(40)

LEMMA EnqueueInv == ASSUME Inv, NEW t \in Task, Enqueue(t) PROVE Inv'
<1> DEFINE r == [id |-> t, state |-> "Queued", imported |-> 0, skipped |-> 0]
           n == Len(rows)
<1>1. /\ main = "run" /\ t \notin used /\ used' = used \cup {t} /\ ~batchEnded'
      /\ rows' = Append(rows, r)
      /\ UNCHANGED <<cancel, records, exclusive, stop, aborted, saveVars, workVars, boundVars,
                     tree, files, pending, reviewed, main>>
  BY DEF Enqueue
<1>2. batchEnded' \in BOOLEAN
  BY DEF Enqueue
<1>3. /\ r \in Row /\ r.id = t /\ r.state = "Queued" /\ r.imported = 0
  BY DEF Row
<1>4. rows \in Seq(Row) /\ n \in Nat /\ DOMAIN rows = 1 .. n
  BY RowsTyped DEF Inv
<1> HIDE DEF r
<1>5. /\ rows' \in Seq(Row) /\ DOMAIN rows' = 1 .. n + 1 /\ rows'[n + 1] = r
      /\ \A j \in 1 .. n : rows'[j] = rows[j]
  BY <1>1, <1>3, <1>4
<1>6. TypeOK'
  BY <1>1, <1>2, <1>5 DEF Inv, TypeOK, saveVars, workVars, boundVars
<1>7. WorkerInv' /\ WalkInv'
  BY <1>1 DEF Inv, WorkerInv, WalkInv, workVars, FilesOf
<1>8. \A j \in 1 .. n : rows[j].id \in used /\ rows[j].id # t
  BY <1>1, <1>4 DEF Inv, UsedInv
<1>9. RowsInv'
  <2>1. \A i, j \in DOMAIN rows' : rows'[i].id = rows'[j].id => i = j
    BY <1>3, <1>4, <1>5, <1>8 DEF Inv, RowsInv
  <2>2. \A j \in DOMAIN rows' : rows'[j].state = "Running" => rows'[j].id = w.task
    BY <1>1, <1>3, <1>4, <1>5 DEF Inv, RowsInv
  <2>3. w.task # NoTask => \E j \in DOMAIN rows' : rows'[j].id = w.task /\ rows'[j].state = "Running"
    <3>1. \A j \in DOMAIN rows : j \in DOMAIN rows' /\ rows'[j] = rows[j]
      BY <1>4, <1>5
    <3> QED BY <1>1, <3>1 DEF Inv, RowsInv
  <2> QED BY <1>1, <2>1, <2>2, <2>3 DEF RowsInv, workVars
<1>10. MainInv' /\ NothingLeftBehind'
  BY <1>1 DEF Inv, MainInv, NothingLeftBehind, saveVars, workVars
<1>11. UsedInv'
  <2>1. \A j \in DOMAIN rows' : rows'[j].id \in used'
    BY <1>1, <1>3, <1>4, <1>5, <1>8
  <2> QED BY <1>1, <2>1 DEF Inv, UsedInv, workVars
<1>12. ReviewInv'
  <2>1. \A u \in reviewed : \A j \in DOMAIN rows' : rows'[j].id = u => Finished(rows'[j])
    BY <1>1, <1>3, <1>4, <1>5 DEF Inv, ReviewInv
  <2> QED BY <1>1, <2>1 DEF Inv, ReviewInv, workVars
<1>13. \A i \in DOMAIN tree : tree[i].task # t
  BY <1>1 DEF Inv, UsedInv
<1>14. ImportedCountsAttachments'
  <2> SUFFICES ASSUME NEW j \in DOMAIN rows'
               PROVE  rows'[j].imported = Cardinality({i \in DOMAIN tree : /\ tree[i].kind = "media"
                                                                           /\ tree[i].task = rows'[j].id})
    BY <1>1 DEF ImportedCountsAttachments
  <2>1. CASE j \in 1 .. n
    BY <1>1, <1>4, <1>5, <2>1 DEF Inv, ImportedCountsAttachments
  <2>2. CASE j = n + 1
    <3>1. {i \in DOMAIN tree : tree[i].kind = "media" /\ tree[i].task = rows'[j].id} = {}
      BY <1>3, <1>5, <1>13, <2>2
    <3> QED BY <1>3, <1>5, <2>2, <3>1, FS_EmptySet
  <2> QED BY <1>4, <1>5, <2>1, <2>2
<1>15. OrderInv'
  <2> DEFINE s == tree \o records
  <2>1. MediaIn(s, t) = {}
    <3>1. \A j \in DOMAIN records : records[j].task # t
      BY <1>1 DEF Inv, UsedInv
    <3>2. tree \in Seq(Record) /\ records \in Seq(Record)
      BY DEF Inv, TypeOK
    <3>3. \A i \in DOMAIN s : s[i].task # t
      BY <1>13, <3>1, <3>2
    <3> HIDE DEF s
    <3> QED BY <3>3 DEF MediaIn
  <2>2. (tree \o records)' = s
    BY <1>1
  <2> HIDE DEF s
  <2>3. /\ \A u \in used : JobOf[u].kind = "files" => Ordered(s, u)
        /\ w.task # NoTask /\ JobOf[w.task].kind = "files" => Before(s, w.task, w.next)
        /\ \A j \in DOMAIN rows : rows[j].state = "Queued" => MediaIn(s, rows[j].id) = {}
    BY DEF Inv, OrderInv, s
  <2>4. Ordered(s, t)
    BY <2>1 DEF Ordered
  <2>5. \A j \in DOMAIN rows' : rows'[j].state = "Queued" => MediaIn(s, rows'[j].id) = {}
    <3>1. \A j \in DOMAIN rows' : j \in DOMAIN rows \/ j = n + 1
      BY <1>4, <1>5
    <3>2. \A j \in DOMAIN rows : rows'[j] = rows[j]
      BY <1>4, <1>5
    <3> QED BY <1>3, <1>5, <2>1, <2>3, <3>1, <3>2
  <2>6. /\ \A u \in used' : JobOf[u].kind = "files" => Ordered((tree \o records)', u)
        /\ w'.task # NoTask /\ JobOf[w'.task].kind = "files" =>
              Before((tree \o records)', w'.task, w'.next)
        /\ \A j \in DOMAIN rows' : rows'[j].state = "Queued" =>
              MediaIn((tree \o records)', rows'[j].id) = {}
    BY <1>1, <2>2, <2>3, <2>4, <2>5 DEF workVars
  <2> QED BY <2>6 DEF OrderInv
<1> QED BY <1>6, <1>7, <1>9, <1>10, <1>11, <1>12, <1>14, <1>15 DEF Inv

\* A review is taken only of a task that is over.
LEMMA TakeReviewInv == ASSUME Inv, NEW t \in Task, TakeReview(t) PROVE Inv'
<1>1. /\ main = "run" /\ Reviewable(t) /\ reviewed' = reviewed \cup {t}
      /\ pending' = [pending EXCEPT ![t] = 0]
      /\ UNCHANGED <<queueVars, saveVars, workVars, boundVars, tree, files, used, main>>
  BY DEF TakeReview
<1>2. /\ pending \in [Task -> Nat] /\ pending' \in [Task -> Nat] /\ pending'[t] = 0
      /\ \A u \in Task : u # t => pending'[u] = pending[u]
  BY <1>1 DEF Inv, TypeOK
<1>3. t \in used
  BY <1>1 DEF Reviewable, Inv, UsedInv
<1>4. \A j \in DOMAIN rows : rows[j].id = t => Finished(rows[j])
  <2> SUFFICES ASSUME NEW j \in DOMAIN rows, rows[j].id = t PROVE Finished(rows[j])
    OBVIOUS
  <2>1. InQueue(t)
    BY DEF InQueue
  <2>2. IndexOf(t) = j
    BY <2>1, IndexOfOK DEF Inv, RowsInv
  <2> QED BY <1>1, <2>1, <2>2 DEF Reviewable
<1>5. t # w.task
  <2> SUFFICES ASSUME t = w.task PROVE FALSE
    OBVIOUS
  <2>1. w.task # NoTask
    BY JobKinds
  <2>2. PICK j \in DOMAIN rows : rows[j].id = w.task /\ rows[j].state = "Running"
    BY <1>1, <2>1 DEF Inv, RowsInv
  <2> QED BY <1>4, <2>2 DEF Finished
<1>6. TypeOK'
  BY <1>1, <1>2 DEF Inv, TypeOK, queueVars, saveVars, workVars, boundVars
<1>7. WorkerInv' /\ WalkInv' /\ RowsInv' /\ MainInv'
  BY <1>1 DEF Inv, WorkerInv, WalkInv, RowsInv, MainInv, queueVars, saveVars, workVars, FilesOf,
              Finished, Idle
<1>8. NothingLeftBehind' /\ ImportedCountsAttachments' /\ OrderInv'
  BY <1>1 DEF Inv, NothingLeftBehind, ImportedCountsAttachments, OrderInv, queueVars, saveVars,
              workVars
<1>9. UsedInv'
  <2>1. \A u \in Task : pending'[u] > 0 => u \in used
    BY <1>2, <1>3 DEF Inv, UsedInv
  <2> QED BY <1>1, <2>1 DEF Inv, UsedInv, queueVars, workVars
<1>10. ReviewInv'
  <2> SUFFICES ASSUME NEW u \in reviewed'
               PROVE  /\ u \in used /\ u # w.task /\ pending'[u] = 0
                      /\ \A j \in DOMAIN records : records[j].task # u
                      /\ \A j \in DOMAIN rows : rows[j].id = u => Finished(rows[j])
    BY <1>1 DEF ReviewInv, queueVars, workVars
  <2>1. CASE u = t
    BY <1>1, <1>2, <1>3, <1>4, <1>5, <2>1 DEF Reviewable
  <2>2. CASE u # t
    BY <1>1, <1>2, <2>2 DEF Inv, ReviewInv, TypeOK
  <2> QED BY <2>1, <2>2
<1> QED BY <1>6, <1>7, <1>8, <1>9, <1>10 DEF Inv

-----------------------------------------------------------------------------
(* A session begins; an abort begins. *)

LEMMA AbortBeginsInv == ASSUME Inv, AbortBegins PROVE Inv'
<1>1. /\ main = "run" /\ main' = "join" /\ aborted' = TRUE /\ exclusive' = FALSE /\ stop' = TRUE
      /\ rows' = [j \in DOMAIN rows |-> IF Finished(rows[j]) THEN rows[j]
                                        ELSE [rows[j] EXCEPT !.state = "Cancelled"]]
      /\ cancel' = cancel \cup {rows[j].id : j \in DOMAIN rows}
      /\ UNCHANGED <<records, batchEnded, saveVars, workVars, boundVars, tree, files, pending,
                     reviewed, used>>
  BY DEF AbortBegins
<1>2. /\ rows \in Seq(Row) /\ Len(rows) \in Nat /\ DOMAIN rows = 1 .. Len(rows)
      /\ \A j \in DOMAIN rows : rows[j] \in Row /\ rows[j].id \in Task
                                /\ [rows[j] EXCEPT !.state = "Cancelled"] \in Row
  BY RowsTyped, RowTypes DEF Inv
<1>3. /\ rows' \in Seq(Row) /\ DOMAIN rows' = DOMAIN rows
      /\ \A j \in DOMAIN rows : rows'[j] = IF Finished(rows[j]) THEN rows[j]
                                           ELSE [rows[j] EXCEPT !.state = "Cancelled"]
  BY <1>1, <1>2
<1>4. ASSUME NEW j \in DOMAIN rows
      PROVE  /\ rows'[j].id = rows[j].id /\ rows'[j].imported = rows[j].imported
             /\ Finished(rows'[j])
  BY <1>2, <1>3 DEF Finished, Row
<1>5. cancel' \subseteq Task
  BY <1>1, <1>2 DEF Inv, TypeOK
<1>6. TypeOK'
  BY <1>1, <1>3, <1>5 DEF Inv, TypeOK, saveVars, workVars, boundVars
<1>7. WorkerInv' /\ WalkInv'
  BY <1>1 DEF Inv, WorkerInv, WalkInv, workVars, FilesOf
<1>8. w' = w /\ save' = save /\ saveFailed' = saveFailed
  BY <1>1 DEF workVars, saveVars
<1>9. w.task \notin reviewed
  BY DEF Inv, ReviewInv
<1>10. /\ \A a, b \in DOMAIN rows' : rows'[a].id = rows'[b].id => a = b
       /\ \A i \in DOMAIN rows' : rows'[i].id \in used'
       /\ \A i \in DOMAIN rows' : rows'[i].state = "Queued" =>
             MediaIn((tree \o records)', rows'[i].id) = {}
       /\ ReviewInv'
  <2>1. \A j \in DOMAIN rows : rows'[j].state = "Queued" => rows[j].state = "Queued"
    BY <1>4 DEF Finished
  <2>2. UNCHANGED <<tree, records, used, pending, reviewed>>
    BY <1>1
  <2>3. w'.task \notin reviewed
    BY <1>8, <1>9
  <2> QED BY <1>3, <1>4, <2>1, <2>2, <2>3, StatesOnly
<1>11. RowsInv'
  BY <1>1, <1>3, <1>4, <1>10 DEF RowsInv
<1>12. MainInv'
  BY <1>1, <1>8 DEF Inv, MainInv
<1>13. UsedInv'
  BY <1>1, <1>8, <1>10 DEF Inv, UsedInv
<1>14. NothingLeftBehind' /\ ImportedCountsAttachments'
  BY <1>1 DEF NothingLeftBehind, ImportedCountsAttachments
<1>15. OrderInv'
  <2>1. \A u \in used' : JobOf[u].kind = "files" => Ordered((tree \o records)', u)
    BY <1>1 DEF Inv, OrderInv
  <2>2. w'.task # NoTask /\ JobOf[w'.task].kind = "files" =>
           Before((tree \o records)', w'.task, w'.next)
    BY <1>1, <1>8 DEF Inv, OrderInv
  <2> QED BY <1>10, <2>1, <2>2 DEF OrderInv
<1> QED BY <1>6, <1>7, <1>10, <1>11, <1>12, <1>13, <1>14, <1>15 DEF Inv

\* The tree is what was committed: a prefix of what there was.
LEMMA BeginSessionInv == ASSUME Inv, BeginSession PROVE Inv'
<1>1. /\ main = "closed" /\ sessions < MaxSessions /\ main' = "run" /\ sessions' = sessions + 1
      /\ rows' = << >> /\ records' = << >> /\ pending' = [t \in Task |-> 0]
      /\ exclusive' = FALSE /\ saveFailed' = FALSE /\ laneFailed' = FALSE
      /\ aborted' = FALSE /\ stop' = FALSE /\ batchEnded' = TRUE
      /\ tree' = SubSeq(tree, 1, saved) /\ w' = IdleWorker
      /\ UNCHANGED <<cancel, saved, save, files, reviewed, used, walk, entered, controls, faults>>
  BY DEF BeginSession
<1>2. save = "none" /\ records = << >>
  BY <1>1 DEF Inv, MainInv, NothingLeftBehind
<1>3. /\ tree \in Seq(Record) /\ saved \in 0 .. Len(tree) /\ Len(tree) \in Nat
  BY DEF Inv, TypeOK
<1>4. /\ tree' \in Seq(Record) /\ Len(tree') = saved /\ saved \in Nat
      /\ \A i \in 1 .. saved : tree'[i] = tree[i] /\ i \in DOMAIN tree
      /\ DOMAIN tree' = 1 .. saved
  BY <1>1, <1>3
<1>5. w' \in Worker /\ w'.task = NoTask /\ w'.pc = "idle"
  BY <1>1, IdleWorkerOK
<1>6. TypeOK'
  <2>1. sessions' \in 0 .. MaxSessions /\ saved' \in 0 .. Len(tree')
    BY <1>1, <1>4, QueueAssumption DEF Inv, TypeOK
  <2>2. rows' \in Seq(Row) /\ records' \in Seq(Record) /\ Len(records') <= RecordCap
        /\ pending' \in [Task -> Nat]
    <3>1. Len(records') = 0
      BY <1>1
    <3> QED BY <1>1, <3>1, QueueAssumption
  <2>3. {saveFailed, laneFailed, exclusive, stop, aborted, batchEnded}' \subseteq BOOLEAN
    BY <1>1
  <2> QED BY <1>1, <1>4, <1>5, <2>1, <2>2, <2>3 DEF Inv, TypeOK
<1>7. WorkerInv' /\ WalkInv'
  BY <1>1, <1>5 DEF Inv, WorkerInv, WalkInv, Loading
<1>8. DOMAIN rows' = {} /\ DOMAIN records' = {}
  BY <1>1
<1>9. RowsInv' /\ ImportedCountsAttachments'
  BY <1>1, <1>5, <1>8 DEF RowsInv, ImportedCountsAttachments
<1>10. MainInv'
  BY <1>1, <1>2, <1>5, <1>8 DEF MainInv, Idle
<1>11. NothingLeftBehind'
  BY <1>1, <1>4 DEF NothingLeftBehind
<1>12. UsedInv'
  BY <1>1, <1>4, <1>5, <1>8 DEF Inv, UsedInv
<1>13. ReviewInv'
  <2>1. \A t \in reviewed : t \in Task /\ t \in used /\ t # NoTask
    BY JobKinds DEF Inv, ReviewInv, TypeOK
  <2> QED BY <1>1, <1>5, <1>8, <2>1 DEF ReviewInv
<1>14. OrderInv'
  <2> DEFINE m == [i \in 1 .. saved |-> i]
  <2>1. tree \o records = tree /\ (tree \o records)' = tree'
    BY <1>1, <1>2, <1>3, <1>4
  <2>2. /\ m \in [DOMAIN tree' -> DOMAIN tree]
        /\ \A i, j \in DOMAIN tree' : i < j => m[i] < m[j]
        /\ \A i \in DOMAIN tree' : tree'[i] = tree[m[i]]
    BY <1>3, <1>4
  <2> HIDE DEF m
  <2>3. \A t : Ordered(tree, t) => Ordered(tree', t)
    BY <1>3, <1>4, <2>2, PartOrdered
  <2>4. \A t \in used' : JobOf[t].kind = "files" => Ordered((tree \o records)', t)
    BY <1>1, <2>1, <2>3 DEF Inv, OrderInv
  <2> QED BY <1>5, <1>8, <2>4 DEF OrderInv
<1> QED BY <1>6, <1>7, <1>9, <1>10, <1>11, <1>12, <1>13, <1>14 DEF Inv

-----------------------------------------------------------------------------
(* Records are attached to the tree. *)

LEMMA Concatenated ==
    ASSUME NEW S, NEW a \in Seq(S), NEW b \in Seq(S)
    PROVE  /\ a \o b \in Seq(S) /\ Len(a \o b) = Len(a) + Len(b)
           /\ DOMAIN (a \o b) = 1 .. Len(a) + Len(b)
           /\ \A i \in 1 .. Len(a) : (a \o b)[i] = a[i]
           /\ \A k \in 1 .. Len(b) : (a \o b)[Len(a) + k] = b[k]
<1> DEFINE c == a \o b
<1>1. /\ c \in Seq(S) /\ Len(c) = Len(a) + Len(b)
      /\ \A i \in 1 .. Len(a) + Len(b) : c[i] = IF i <= Len(a) THEN a[i] ELSE b[i - Len(a)]
  BY ConcatProperties
<1>2. Len(a) \in Nat /\ Len(b) \in Nat
  OBVIOUS
<1> HIDE DEF c
<1>3. DOMAIN c = 1 .. Len(a) + Len(b)
  BY <1>1, <1>2
<1>4. \A i \in 1 .. Len(a) : c[i] = a[i]
  BY <1>1, <1>2
<1>5. ASSUME NEW k \in 1 .. Len(b) PROVE c[Len(a) + k] = b[k]
  <2>1. /\ Len(a) + k \in 1 .. Len(a) + Len(b) /\ ~(Len(a) + k <= Len(a))
        /\ (Len(a) + k) - Len(a) = k
    BY <1>2
  <2> QED BY <1>1, <2>1
<1> QED BY <1>1, <1>3, <1>4, <1>5 DEF c

\* What is left of a sequence after its first n elements.
LEMMA Remainder ==
    ASSUME NEW S, NEW a \in Seq(S), NEW n \in 0 .. Len(a)
    PROVE  LET r == SubSeq(a, n + 1, Len(a)) IN
           /\ r \in Seq(S) /\ Len(r) = Len(a) - n
           /\ \A k \in 1 .. Len(a) - n : r[k] = a[n + k]
<1> DEFINE r == SubSeq(a, n + 1, Len(a))
<1>1. Len(a) \in Nat /\ n + 1 \in Int /\ Len(a) \in Int /\ n \in Nat /\ n <= Len(a)
  OBVIOUS
<1>2. \A i \in n + 1 .. Len(a) : a[i] \in S
  BY <1>1
<1>3. /\ r \in Seq(S) /\ Len(r) = IF n + 1 <= Len(a) THEN Len(a) - (n + 1) + 1 ELSE 0
      /\ \A i \in 1 .. Len(a) - (n + 1) + 1 : r[i] = a[(n + 1) + i - 1]
  BY <1>1, <1>2, SubSeqProperties
<1> HIDE DEF r
<1>4. Len(r) = Len(a) - n
  BY <1>1, <1>3
<1>5. ASSUME NEW k \in 1 .. Len(a) - n PROVE r[k] = a[n + k]
  <2>1. k \in 1 .. Len(a) - (n + 1) + 1 /\ (n + 1) + k - 1 = n + k
    BY <1>1
  <2> QED BY <1>3, <2>1
<1> QED BY <1>3, <1>4, <1>5 DEF r

LEMMA FreshOK ==
    ASSUME TypeOK, NEW n \in 0 .. Len(records)
    PROVE  /\ tree \in Seq(Record) /\ Len(tree) \in Nat /\ DOMAIN tree = 1 .. Len(tree)
           /\ records \in Seq(Record) /\ Len(records) \in Nat /\ DOMAIN records = 1 .. Len(records)
           /\ n \in Nat /\ n <= Len(records) /\ Fresh(n) \in SUBSET (1 .. n)
           /\ Fresh(n) \in SUBSET (1 .. Len(records))
           /\ IsFiniteSet(Fresh(n)) /\ Cardinality(Fresh(n)) \in Nat
<1>1. /\ tree \in Seq(Record) /\ Len(tree) \in Nat /\ DOMAIN tree = 1 .. Len(tree)
      /\ records \in Seq(Record) /\ Len(records) \in Nat /\ DOMAIN records = 1 .. Len(records)
      /\ n \in Nat /\ n <= Len(records)
  BY DEF TypeOK
<1>2. Fresh(n) \in SUBSET (1 .. n)
  BY DEF Fresh
<1>3. Fresh(n) \in SUBSET (1 .. Len(records))
  BY <1>1, <1>2
<1> QED BY <1>1, <1>2, <1>3, Positions

\* What the tree becomes: the tree, then the fresh records in their order.
LEMMA AttachedElements ==
    ASSUME TypeOK, NEW n \in 0 .. Len(records)
    PROVE  LET I == Fresh(n)
               s == Attached(I)
               l == Len(tree)
               c == Cardinality(I)
           IN  /\ s \in Seq(Record) /\ Len(s) = l + c /\ DOMAIN s = 1 .. l + c
               /\ \A i \in 1 .. l : s[i] = tree[i]
               /\ \A k \in 1 .. c : s[l + k] = records[At(I, k)] /\ At(I, k) \in I
<1> DEFINE I == Fresh(n)
           q == Picked(records, I)
<1>1. /\ tree \in Seq(Record) /\ Len(tree) \in Nat /\ DOMAIN tree = 1 .. Len(tree)
      /\ records \in Seq(Record) /\ I \in SUBSET (1 .. Len(records))
  BY FreshOK
<1> HIDE DEF I
<1>2. /\ q \in Seq(Record) /\ Len(q) = Cardinality(I) /\ Cardinality(I) \in Nat
      /\ \A k \in 1 .. Cardinality(I) : q[k] = records[At(I, k)] /\ At(I, k) \in I
  BY <1>1, PickedElements
<1> HIDE DEF q
<1>3. Attached(I) = tree \o q
  BY DEF Attached, q
<1>4. /\ tree \o q \in Seq(Record) /\ Len(tree \o q) = Len(tree) + Cardinality(I)
      /\ DOMAIN (tree \o q) = 1 .. Len(tree) + Cardinality(I)
      /\ \A i \in 1 .. Len(tree) : (tree \o q)[i] = tree[i]
      /\ \A k \in 1 .. Cardinality(I) : (tree \o q)[Len(tree) + k] = q[k]
  <2>0. tree \in Seq(Record) /\ q \in Seq(Record)
    BY <1>1, <1>2
  <2>1. /\ tree \o q \in Seq(Record) /\ Len(tree \o q) = Len(tree) + Len(q)
        /\ DOMAIN (tree \o q) = 1 .. Len(tree) + Len(q)
        /\ \A i \in 1 .. Len(tree) : (tree \o q)[i] = tree[i]
        /\ \A k \in 1 .. Len(q) : (tree \o q)[Len(tree) + k] = q[k]
    BY <2>0, Concatenated
  <2>2. Len(q) = Cardinality(I)
    BY <1>2
  <2> QED BY <2>1, <2>2, Zenon
<1> QED BY <1>2, <1>3, <1>4 DEF I

\* The tree and the records left after it are a part of what they were, in order.
LEMMA AttachedOrdered ==
    ASSUME TypeOK, NEW n \in 0 .. Len(records)
    PROVE  LET all == tree \o records
               part == Attached(Fresh(n)) \o SubSeq(records, n + 1, Len(records))
           IN  /\ part \in Seq(Record)
               /\ \A t : /\ Ordered(all, t) => Ordered(part, t)
                         /\ \A m : Before(all, t, m) => Before(part, t, m)
                         /\ MediaIn(all, t) = {} => MediaIn(part, t) = {}
<1> DEFINE I == Fresh(n)
           s == Attached(I)
           l == Len(tree)
           c == Cardinality(I)
           h == Len(records)
           left == SubSeq(records, n + 1, h)
           all == tree \o records
           part == s \o left
           m == [i \in 1 .. l + c + (h - n) |->
                   IF i <= l THEN i ELSE IF i <= l + c THEN l + At(I, i - l) ELSE i - c + n]
<1>1. /\ tree \in Seq(Record) /\ l \in Nat /\ DOMAIN tree = 1 .. l
      /\ records \in Seq(Record) /\ h \in Nat /\ DOMAIN records = 1 .. h
      /\ n \in Nat /\ n <= h /\ I \in SUBSET (1 .. n) /\ c \in Nat
  BY FreshOK
<1>2. /\ s \in Seq(Record) /\ Len(s) = l + c /\ DOMAIN s = 1 .. l + c
      /\ \A i \in 1 .. l : s[i] = tree[i]
      /\ \A k \in 1 .. c : s[l + k] = records[At(I, k)] /\ At(I, k) \in I
  BY AttachedElements
<1>3. \A k, i \in 1 .. c : k < i => At(I, k) < At(I, i)
  <2> HIDE DEF I
  <2> QED BY <1>1, Positions
<1> HIDE DEF I, s, c
<1>4. \A k \in 1 .. c : At(I, k) \in 1 .. n
  <2> SUFFICES ASSUME NEW k \in 1 .. c PROVE At(I, k) \in 1 .. n
    OBVIOUS
  <2>1. At(I, k) \in I
    BY <1>2
  <2> QED BY <1>1, <2>1, Zenon
<1>5. /\ left \in Seq(Record) /\ Len(left) = h - n
      /\ \A k \in 1 .. h - n : left[k] = records[n + k]
  BY <1>1, Remainder
<1> HIDE DEF left
<1>6. /\ part \in Seq(Record) /\ DOMAIN part = 1 .. l + c + (h - n)
      /\ \A i \in 1 .. l + c : part[i] = s[i]
      /\ \A k \in 1 .. h - n : part[l + c + k] = left[k]
  <2>0. s \in Seq(Record) /\ left \in Seq(Record)
    BY <1>2, <1>5
  <2>1. /\ part \in Seq(Record) /\ DOMAIN part = 1 .. Len(s) + Len(left)
        /\ \A i \in 1 .. Len(s) : part[i] = s[i]
        /\ \A k \in 1 .. Len(left) : part[Len(s) + k] = left[k]
    BY <2>0, Concatenated
  <2> HIDE DEF part
  <2> QED BY <1>2, <1>5, <2>1
<1>7. /\ all \in Seq(Record) /\ DOMAIN all = 1 .. l + h
      /\ \A i \in 1 .. l : all[i] = tree[i]
      /\ \A k \in 1 .. h : all[l + k] = records[k]
  BY <1>1, Concatenated
<1> HIDE DEF l, h
<1>8. ASSUME NEW i \in 1 .. l + c + (h - n)
      PROVE  m[i] \in 1 .. l + h /\ part[i] = all[m[i]]
  <2>0. i \in Nat /\ i >= 1 /\ i <= l + c + (h - n)
    BY <1>1
  <2>1. CASE i <= l
    <3>1. m[i] = i /\ i \in 1 .. l /\ i \in 1 .. l + c
      BY <1>1, <2>0, <2>1
    <3> HIDE DEF m, part, all
    <3> QED BY <1>1, <1>2, <1>6, <1>7, <3>1
  <2>2. CASE i > l /\ i <= l + c
    <3>1. m[i] = l + At(I, i - l) /\ i - l \in 1 .. c /\ i \in 1 .. l + c
      BY <1>1, <2>0, <2>2
    <3>2. At(I, i - l) \in 1 .. n /\ s[l + (i - l)] = records[At(I, i - l)]
      BY <1>2, <1>4, <3>1
    <3>3. l + (i - l) = i
      BY <1>1, <2>0
    <3>4. m[i] \in 1 .. l + h /\ At(I, i - l) \in 1 .. h
      <4> HIDE DEF m
      <4> QED BY <1>1, <3>1, <3>2
    <3> HIDE DEF m, part, all
    <3>5. part[i] = s[i] /\ s[i] = records[At(I, i - l)]
      BY <1>6, <3>1, <3>2, <3>3
    <3>6. all[m[i]] = records[At(I, i - l)]
      BY <1>7, <3>1, <3>4
    <3> QED BY <3>4, <3>5, <3>6
  <2>3. CASE i > l + c
    <3>1. m[i] = i - c + n
      BY <1>1, <2>0, <2>3
    <3> DEFINE k == i - (l + c)
    <3>2. /\ k \in 1 .. h - n /\ l + c + k = i /\ n + k \in 1 .. h /\ m[i] = l + (n + k)
          /\ m[i] \in 1 .. l + h
      <4> HIDE DEF m
      <4> QED BY <1>1, <2>0, <2>3, <3>1
    <3> HIDE DEF k
    <3> HIDE DEF m, part, all
    <3>3. part[i] = left[k] /\ left[k] = records[n + k]
      BY <1>5, <1>6, <3>2
    <3>4. all[m[i]] = records[n + k]
      BY <1>7, <3>2
    <3> QED BY <3>2, <3>3, <3>4
  <2> HIDE DEF m, part, all
  <2> QED BY <1>1, <2>0, <2>1, <2>2, <2>3
<1>9. ASSUME NEW i \in 1 .. l + c + (h - n), NEW j \in 1 .. l + c + (h - n), i < j
      PROVE  m[i] < m[j]
  <2>0. /\ i \in Nat /\ i >= 1 /\ j \in Nat /\ i <= l + c + (h - n)
        /\ j <= l + c + (h - n)
    BY <1>1
  <2>1. m[i] = IF i <= l THEN i ELSE IF i <= l + c THEN l + At(I, i - l) ELSE i - c + n
    OBVIOUS
  <2>2. m[j] = IF j <= l THEN j ELSE IF j <= l + c THEN l + At(I, j - l) ELSE j - c + n
    OBVIOUS
  <2>3. i > l /\ i <= l + c => i - l \in 1 .. c /\ At(I, i - l) \in 1 .. n
    BY <1>1, <1>4, <2>0
  <2>4. j > l /\ j <= l + c => j - l \in 1 .. c /\ At(I, j - l) \in 1 .. n
    BY <1>1, <1>4, <2>0
  <2>5. i > l /\ j <= l + c => At(I, i - l) < At(I, j - l)
    <3> SUFFICES ASSUME i > l, j <= l + c PROVE At(I, i - l) < At(I, j - l)
      OBVIOUS
    <3>1. i - l \in 1 .. c /\ j - l \in 1 .. c /\ i - l < j - l
      BY <1>1, <1>9, <2>0
    <3> QED BY <1>3, <3>1
  <2> HIDE DEF m
  <2> QED BY <1>1, <1>9, <2>0, <2>1, <2>2, <2>3, <2>4, <2>5
<1>10. m \in [DOMAIN part -> DOMAIN all]
  <2>1. m \in [1 .. l + c + (h - n) -> 1 .. l + h]
    BY <1>8
  <2> HIDE DEF m, part, all
  <2> QED BY <1>6, <1>7, <2>1
<1>11. \A i, j \in DOMAIN part : i < j => m[i] < m[j]
  <2> HIDE DEF m, part, all
  <2> QED BY <1>6, <1>9
<1>12. \A i \in DOMAIN part : part[i] = all[m[i]]
  <2> HIDE DEF m, part, all
  <2> QED BY <1>6, <1>8
<1>13. \A t : /\ Ordered(all, t) => Ordered(part, t)
              /\ \A k : Before(all, t, k) => Before(part, t, k)
              /\ MediaIn(all, t) = {} => MediaIn(part, t) = {}
  <2>1. part \in Seq(Record) /\ all \in Seq(Record)
    BY <1>6, <1>7
  <2> HIDE DEF m, part, all, l, h, I, s, c, left
  <2>2. ASSUME NEW t PROVE Ordered(all, t) => Ordered(part, t)
    BY <2>1, <1>10, <1>11, <1>12, PartOrdered
  <2>3. ASSUME NEW t, NEW k PROVE Before(all, t, k) => Before(part, t, k)
    BY <2>1, <1>10, <1>11, <1>12, PartOrdered
  <2>4. ASSUME NEW t PROVE MediaIn(all, t) = {} => MediaIn(part, t) = {}
    <3>1. \A i \in MediaIn(part, t) : m[i] \in MediaIn(all, t)
      BY <1>10, <1>12 DEF MediaIn
    <3> QED BY <3>1
  <2> QED BY <2>2, <2>3, <2>4
<1> QED BY <1>6, <1>13 DEF I, s, left, h

\* The tree holds as many more files of a task as fresh records of it.
LEMMA AttachedCount ==
    ASSUME TypeOK, NEW n \in 0 .. Len(records), NEW t
    PROVE  LET I == Fresh(n) IN
           /\ Cardinality(MediaOf(I, t)) \in Nat
           /\ Cardinality(MediaIn(Attached(I), t))
                = Cardinality(MediaIn(tree, t)) + Cardinality(MediaOf(I, t))
<1> DEFINE I == Fresh(n)
           s == Attached(I)
           l == Len(tree)
           c == Cardinality(I)
           Old == MediaIn(tree, t)
           New == {i \in l + 1 .. l + c : s[i].kind = "media" /\ s[i].task = t}
           J == MediaOf(I, t)
           g == [i \in New |-> At(I, i - l)]
<1>1. /\ tree \in Seq(Record) /\ l \in Nat /\ DOMAIN tree = 1 .. l
      /\ n \in Nat /\ I \in SUBSET (1 .. n) /\ c \in Nat
  BY FreshOK
<1>2. /\ DOMAIN s = 1 .. l + c /\ \A i \in 1 .. l : s[i] = tree[i]
      /\ \A k \in 1 .. c : s[l + k] = records[At(I, k)] /\ At(I, k) \in I
  BY AttachedElements
<1>3. /\ \A k, i \in 1 .. c : k < i => At(I, k) < At(I, i)
      /\ \A j \in I : \E k \in 1 .. c : At(I, k) = j
  <2> HIDE DEF I
  <2> QED BY <1>1, Positions
<1>4. J \in SUBSET I /\ \A j \in I : j \in J <=> records[j].kind = "media" /\ records[j].task = t
  BY DEF MediaOf
<1> HIDE DEF I, s, c, l, J
<1>5. MediaIn(s, t) = Old \cup New
  <2>1. ASSUME NEW i \in MediaIn(s, t) PROVE i \in Old \cup New
    <3>1. i \in 1 .. l + c /\ s[i].kind = "media" /\ s[i].task = t
      BY <1>2 DEF MediaIn
    <3>2. i \in 1 .. l \/ i \in l + 1 .. l + c
      BY <1>1, <3>1
    <3> QED BY <1>1, <1>2, <3>1, <3>2 DEF MediaIn
  <2>2. ASSUME NEW i \in Old PROVE i \in MediaIn(s, t)
    <3>1. i \in 1 .. l /\ tree[i].kind = "media" /\ tree[i].task = t
      BY <1>1 DEF MediaIn
    <3>2. i \in 1 .. l + c
      BY <1>1, <3>1
    <3> QED BY <1>2, <3>1, <3>2 DEF MediaIn
  <2>3. ASSUME NEW i \in New PROVE i \in MediaIn(s, t)
    <3>1. i \in 1 .. l + c
      BY <1>1
    <3> QED BY <1>2, <3>1 DEF MediaIn
  <2> HIDE DEF Old, New
  <2> QED BY <2>1, <2>2, <2>3
<1>6. Old \cap New = {}
  BY <1>1 DEF MediaIn
<1>7. IsFiniteSet(Old) /\ IsFiniteSet(New) /\ IsFiniteSet(J) /\ Cardinality(J) \in Nat
  <2>1. Old \in SUBSET (1 .. l) /\ New \in SUBSET (1 .. l + c) /\ J \in SUBSET (1 .. n)
    BY <1>1, <1>4 DEF MediaIn
  <2>2. l + c \in Nat
    BY <1>1
  <2> HIDE DEF Old, New
  <2>3. IsFiniteSet(Old)
    BY <1>1, <2>1, Positions
  <2>4. IsFiniteSet(New)
    BY <2>1, <2>2, Positions
  <2>5. IsFiniteSet(J) /\ Cardinality(J) \in Nat
    BY <1>1, <2>1, Positions
  <2> QED BY <2>3, <2>4, <2>5
<1>8. ASSUME NEW i \in New
      PROVE  /\ i \in Nat /\ i - l \in 1 .. c /\ At(I, i - l) \in J
  <2>1. i \in Nat /\ i - l \in 1 .. c /\ l + (i - l) = i
    BY <1>1
  <2>2. s[i] = records[At(I, i - l)] /\ At(I, i - l) \in I
    BY <1>2, <2>1
  <2> QED BY <1>4, <2>1, <2>2
<1>9. g \in [New -> J]
  <2> HIDE DEF New
  <2> QED BY <1>8
<1>10. \A i, j \in New : g[i] = g[j] => i = j
  <2> SUFFICES ASSUME NEW i \in New, NEW j \in New, g[i] = g[j], i # j PROVE FALSE
    OBVIOUS
  <2>1. At(I, i - l) = At(I, j - l)
    <3> HIDE DEF New
    <3> QED OBVIOUS
  <2>2. i - l \in 1 .. c /\ j - l \in 1 .. c /\ i \in Nat /\ j \in Nat
    BY <1>8
  <2>3. i - l < j - l \/ j - l < i - l
    BY <1>1, <2>2
  <2>4. At(I, i - l) \in 1 .. n /\ At(I, j - l) \in 1 .. n
    <3>1. At(I, i - l) \in I /\ At(I, j - l) \in I
      BY <1>2, <2>2
    <3> QED BY <1>1, <3>1, Zenon
  <2>5. At(I, i - l) < At(I, j - l) \/ At(I, j - l) < At(I, i - l)
    BY <1>3, <2>2, <2>3
  <2> QED BY <2>1, <2>4, <2>5
<1>11. \A j \in J : \E i \in New : g[i] = j
  <2> SUFFICES ASSUME NEW j \in J PROVE \E i \in New : g[i] = j
    OBVIOUS
  <2>1. PICK k \in 1 .. c : At(I, k) = j
    BY <1>3, <1>4
  <2>2. l + k \in l + 1 .. l + c /\ (l + k) - l = k
    BY <1>1
  <2>3. s[l + k] = records[j] /\ j \in I
    BY <1>2, <1>4, <2>1
  <2>4. l + k \in New
    BY <1>4, <2>2, <2>3
  <2>5. g[l + k] = j
    <3> HIDE DEF New
    <3> QED BY <2>1, <2>2, <2>4
  <2> HIDE DEF New, g
  <2> QED BY <2>4, <2>5
<1>12. ExistsBijection(New, J)
  <2> HIDE DEF New, g
  <2>1. g \in Bijection(New, J)
    BY <1>9, <1>10, <1>11 DEF Bijection, Injection, Surjection, IsInjective
  <2> QED BY <2>1 DEF ExistsBijection
<1>13. Cardinality(New) = Cardinality(J)
  <2> HIDE DEF New
  <2> QED BY <1>7, <1>12, FS_Bijection
<1>14. Cardinality(Old \cup New) = Cardinality(Old) + Cardinality(J)
  <2> HIDE DEF Old, New
  <2>1. Cardinality(Old \cup New) = Cardinality(Old) + Cardinality(New) - Cardinality({})
    BY <1>6, <1>7, FS_Union
  <2>2. Cardinality({}) = 0 /\ Cardinality(Old) \in Nat
    BY <1>7, FS_EmptySet, FS_CardinalityType
  <2> QED BY <1>7, <1>13, <2>1, <2>2
<1> QED BY <1>5, <1>7, <1>14 DEF I, s, J

\* The rows after n records: the same tasks, in the same states.
LEMMA CountedOK ==
    ASSUME TypeOK, NEW n \in 0 .. Len(records)
    PROVE  LET after == Counted(n, Fresh(n)) IN
           /\ after \in Seq(Row) /\ DOMAIN after = DOMAIN rows
           /\ \A j \in DOMAIN rows :
                /\ after[j].id = rows[j].id /\ after[j].state = rows[j].state
                /\ after[j].imported = rows[j].imported + Cardinality(MediaOf(Fresh(n), rows[j].id))
<1> DEFINE a(j) == rows[j].imported + Cardinality(MediaOf(Fresh(n), rows[j].id))
           b(j) == rows[j].skipped + Cardinality(MediaOf((1 .. n) \ Fresh(n), rows[j].id))
           after == Counted(n, Fresh(n))
<1>1. after = [j \in DOMAIN rows |-> [rows[j] EXCEPT !.imported = a(j), !.skipped = b(j)]]
  BY DEF Counted
<1>2. /\ rows \in Seq(Row) /\ Len(rows) \in Nat /\ DOMAIN rows = 1 .. Len(rows)
      /\ \A j \in DOMAIN rows : rows[j] \in Row
  BY RowsTyped
<1>3. ASSUME NEW j \in DOMAIN rows PROVE a(j) \in Nat /\ b(j) \in Nat
  <2>1. n \in Nat /\ MediaOf((1 .. n) \ Fresh(n), rows[j].id) \in SUBSET (1 .. n)
    BY FreshOK DEF MediaOf
  <2>2. Cardinality(MediaOf((1 .. n) \ Fresh(n), rows[j].id)) \in Nat
    BY <2>1, Positions
  <2>3. Cardinality(MediaOf(Fresh(n), rows[j].id)) \in Nat
    BY AttachedCount
  <2>4. rows[j].imported \in Nat /\ rows[j].skipped \in Nat
    BY <1>2 DEF Row
  <2> QED BY <2>2, <2>3, <2>4
<1> HIDE DEF a, b, after
<1>4. \A j \in DOMAIN rows :
         LET r == [rows[j] EXCEPT !.imported = a(j), !.skipped = b(j)] IN
         r \in Row /\ r.id = rows[j].id /\ r.state = rows[j].state /\ r.imported = a(j)
  BY <1>2, <1>3 DEF Row
<1>5. after \in Seq(Row) /\ DOMAIN after = DOMAIN rows
  <2> DEFINE f(j) == [rows[j] EXCEPT !.imported = a(j), !.skipped = b(j)]
  <2>1. \A j \in 1 .. Len(rows) : f(j) \in Row
    BY <1>2, <1>4
  <2>2. after = [j \in 1 .. Len(rows) |-> f(j)]
    BY <1>1, <1>2
  <2> HIDE DEF f
  <2> QED BY <1>2, <2>1, <2>2
<1>6. \A j \in DOMAIN rows : after[j].id = rows[j].id /\ after[j].state = rows[j].state
                             /\ after[j].imported = a(j)
  BY <1>1, <1>4
<1> QED BY <1>5, <1>6 DEF a, after

\* Tags are collected for the tasks whose records are taken, and files counted.
LEMMA CollectedOK ==
    ASSUME TypeOK, NEW n \in 0 .. Len(records)
    PROVE  /\ Collected(n) \in [Task -> Nat] /\ FilesAfter(Fresh(n)) \in Nat
           /\ \A t \in Task : (\A j \in 1 .. n : records[j].task # t) => Collected(n)[t] = pending[t]
<1> DEFINE T(t) == {j \in 1 .. n : records[j].kind = "tag" /\ records[j].task = t}
           F == {j \in Fresh(n) : records[j].kind = "media"}
<1>1. n \in Nat /\ F \in SUBSET (1 .. n) /\ \A t : T(t) \in SUBSET (1 .. n)
  BY FreshOK
<1>2. Collected(n) = [t \in Task |-> pending[t] + Cardinality(T(t))]
  BY DEF Collected
<1>3. FilesAfter(Fresh(n)) = files + Cardinality(F)
  BY DEF FilesAfter
<1>4. ASSUME NEW t \in Task, \A j \in 1 .. n : records[j].task # t PROVE Cardinality(T(t)) = 0
  <2>1. T(t) = {}
    BY <1>4
  <2> HIDE DEF T
  <2> QED BY <2>1, FS_EmptySet
<1> HIDE DEF T, F
<1>5. Cardinality(F) \in Nat /\ \A t : Cardinality(T(t)) \in Nat
  <2>1. \A I \in SUBSET (1 .. n) : Cardinality(I) \in Nat
    BY <1>1, Positions
  <2> QED BY <1>1, <2>1
<1>6. pending \in [Task -> Nat] /\ files \in Nat
  BY DEF TypeOK
<1>7. \A t \in Task : pending[t] \in Nat /\ Collected(n)[t] = pending[t] + Cardinality(T(t))
  BY <1>2, <1>6
<1>8. Collected(n) \in [Task -> Nat]
  <2>1. \A t \in Task : pending[t] + Cardinality(T(t)) \in Nat
    BY <1>5, <1>7
  <2> QED BY <1>2, <2>1
<1>9. ASSUME NEW t \in Task, \A j \in 1 .. n : records[j].task # t
      PROVE  Collected(n)[t] = pending[t]
  BY <1>4, <1>7, <1>9
<1>10. FilesAfter(Fresh(n)) \in Nat
  BY <1>3, <1>5, <1>6
<1> QED BY <1>8, <1>9, <1>10

\* Nothing new is named by the tree and the records left.
LEMMA AttachedFrom ==
    ASSUME TypeOK, NEW n \in 0 .. Len(records)
    PROVE  LET s == Attached(Fresh(n))
               left == SubSeq(records, n + 1, Len(records))
           IN  /\ s \in Seq(Record) /\ Len(s) \in Nat /\ Len(tree) <= Len(s)
               /\ n = 0 => Len(s) = Len(tree)
               /\ left \in Seq(Record) /\ Len(left) = Len(records) - n
               /\ \A i \in DOMAIN s : \/ i \in DOMAIN tree /\ s[i] = tree[i]
                                      \/ \E j \in DOMAIN records : s[i] = records[j]
               /\ \A i \in DOMAIN left : \E j \in DOMAIN records : left[i] = records[j]
<1> DEFINE I == Fresh(n)
           s == Attached(I)
           l == Len(tree)
           c == Cardinality(I)
           h == Len(records)
           left == SubSeq(records, n + 1, h)
<1>1. /\ tree \in Seq(Record) /\ l \in Nat /\ DOMAIN tree = 1 .. l
      /\ records \in Seq(Record) /\ h \in Nat /\ DOMAIN records = 1 .. h
      /\ n \in Nat /\ n <= h /\ I \in SUBSET (1 .. n) /\ I \in SUBSET (1 .. h) /\ c \in Nat
  BY FreshOK
<1>2. /\ s \in Seq(Record) /\ Len(s) = l + c /\ DOMAIN s = 1 .. l + c
      /\ \A i \in 1 .. l : s[i] = tree[i]
      /\ \A k \in 1 .. c : s[l + k] = records[At(I, k)] /\ At(I, k) \in I
  BY AttachedElements
<1>3. /\ left \in Seq(Record) /\ Len(left) = h - n
      /\ \A k \in 1 .. h - n : left[k] = records[n + k]
  BY <1>1, Remainder
<1>4. n = 0 => c = 0
  <2> SUFFICES ASSUME n = 0 PROVE c = 0
    OBVIOUS
  <2>1. I = {}
    BY <1>1
  <2> QED BY <2>1, FS_EmptySet
<1> HIDE DEF I, s, l, c, h, left
<1>5. ASSUME NEW i \in DOMAIN s
      PROVE  \/ i \in DOMAIN tree /\ s[i] = tree[i]
             \/ \E j \in DOMAIN records : s[i] = records[j]
  <2>1. i \in 1 .. l \/ (i - l \in 1 .. c /\ l + (i - l) = i)
    BY <1>1, <1>2
  <2>2. CASE i \in 1 .. l
    BY <1>1, <1>2, <2>2
  <2>3. CASE i - l \in 1 .. c /\ l + (i - l) = i
    <3>1. s[i] = records[At(I, i - l)] /\ At(I, i - l) \in I
      BY <1>2, <2>3
    <3>2. At(I, i - l) \in DOMAIN records
      BY <1>1, <3>1, Zenon
    <3> QED BY <3>1, <3>2
  <2> QED BY <2>1, <2>2, <2>3
<1>6. ASSUME NEW i \in DOMAIN left PROVE \E j \in DOMAIN records : left[i] = records[j]
  <2>1. i \in 1 .. h - n
    BY <1>3
  <2>2. n + i \in DOMAIN records /\ left[i] = records[n + i]
    BY <1>1, <1>3, <2>1
  <2> QED BY <2>2
<1>7. Len(s) \in Nat /\ l <= Len(s) /\ (n = 0 => Len(s) = l)
  BY <1>1, <1>2, <1>4
<1> QED BY <1>2, <1>3, <1>5, <1>6, <1>7 DEF I, s, l, h, left

\* What attaching the first n records does to the parts of the invariant that speak of
\* the tree and the records.
LEMMA Attaching ==
    ASSUME Inv, NEW n \in 0 .. Len(records), tree' = Attached(Fresh(n)),
           records' = SubSeq(records, n + 1, Len(records)), DOMAIN rows' = DOMAIN rows,
           \A j \in DOMAIN rows : rows'[j].id = rows[j].id /\ rows'[j].state = rows[j].state,
           UNCHANGED <<w, used, reviewed>>, pending' \in [Task -> Nat],
           \A t \in Task : (\A j \in 1 .. n : records[j].task # t) => pending'[t] \in {0, pending[t]}
    PROVE  /\ tree' \in Seq(Record) /\ Len(tree') \in Nat /\ Len(tree) <= Len(tree')
           /\ records' \in Seq(Record) /\ Len(records') <= RecordCap
           /\ UsedInv' /\ ReviewInv' /\ OrderInv'
<1>1. TypeOK
  BY DEF Inv
<1>2. /\ tree' \in Seq(Record) /\ Len(tree') \in Nat /\ Len(tree) <= Len(tree')
      /\ records' \in Seq(Record) /\ Len(records') = Len(records) - n
      /\ \A i \in DOMAIN tree' : \/ i \in DOMAIN tree /\ tree'[i] = tree[i]
                                 \/ \E j \in DOMAIN records : tree'[i] = records[j]
      /\ \A i \in DOMAIN records' : \E j \in DOMAIN records : records'[i] = records[j]
  BY <1>1, AttachedFrom
<1>3. Len(records') <= RecordCap
  BY <1>1, <1>2, QueueAssumption, SMTT(30) DEF TypeOK
<1>4. n \in Nat /\ \A j \in 1 .. n : j \in DOMAIN records
  BY <1>1 DEF TypeOK
<1>5. UsedInv'
  <2>1. \A j \in DOMAIN rows' : rows'[j].id \in used'
    BY DEF Inv, UsedInv
  <2>2. w'.task \in used' \cup {NoTask}
    BY DEF Inv, UsedInv
  <2>3. \A j \in DOMAIN records' : records'[j].task \in used'
    BY <1>2 DEF Inv, UsedInv
  <2>4. \A j \in DOMAIN tree' : tree'[j].task \in used'
    BY <1>2 DEF Inv, UsedInv
  <2>5. ASSUME NEW t \in Task, pending'[t] > 0 PROVE t \in used
    <3>1. CASE \E j \in 1 .. n : records[j].task = t
      BY <1>4, <3>1 DEF Inv, UsedInv
    <3>2. CASE \A j \in 1 .. n : records[j].task # t
      <4>0. pending'[t] \in {0, pending[t]}
        BY <3>2
      <4>1. pending'[t] = pending[t]
        <5>1. pending'[t] = 0 => FALSE
          BY <2>5
        <5> QED BY <4>0, <5>1
      <4> QED BY <2>5, <4>1 DEF Inv, UsedInv
    <3> QED BY <3>1, <3>2
  <2> QED BY <2>1, <2>2, <2>3, <2>4, <2>5 DEF UsedInv
<1>6. ReviewInv'
  <2> SUFFICES ASSUME NEW t \in reviewed
               PROVE  /\ t \in used' /\ t # w'.task /\ pending'[t] = 0
                      /\ \A j \in DOMAIN records' : records'[j].task # t
                      /\ \A j \in DOMAIN rows' : rows'[j].id = t => Finished(rows'[j])
    BY DEF ReviewInv
  <2>1. /\ t \in used /\ t # w.task /\ pending[t] = 0 /\ t \in Task
        /\ \A j \in DOMAIN records : records[j].task # t
        /\ \A j \in DOMAIN rows : rows[j].id = t => Finished(rows[j])
    BY DEF Inv, ReviewInv, TypeOK
  <2>2. pending'[t] = 0
    BY <1>4, <2>1
  <2>3. \A j \in DOMAIN records' : records'[j].task # t
    BY <1>2, <2>1
  <2> QED BY <2>1, <2>2, <2>3 DEF Finished
<1>7. OrderInv'
  <2> DEFINE all == tree \o records
             part == Attached(Fresh(n)) \o SubSeq(records, n + 1, Len(records))
  <2>1. /\ \A t : Ordered(all, t) => Ordered(part, t)
        /\ \A t, m : Before(all, t, m) => Before(part, t, m)
        /\ \A t : MediaIn(all, t) = {} => MediaIn(part, t) = {}
    BY <1>1, AttachedOrdered, Zenon
  <2>2. (tree \o records)' = part
    OBVIOUS
  <2>3. /\ \A t \in used : JobOf[t].kind = "files" => Ordered(all, t)
        /\ w.task # NoTask /\ JobOf[w.task].kind = "files" => Before(all, w.task, w.next)
        /\ \A j \in DOMAIN rows : rows[j].state = "Queued" => MediaIn(all, rows[j].id) = {}
    BY DEF Inv, OrderInv
  <2> HIDE DEF all, part
  <2>4. /\ \A t \in used' : JobOf[t].kind = "files" => Ordered((tree \o records)', t)
        /\ w'.task # NoTask /\ JobOf[w'.task].kind = "files" =>
              Before((tree \o records)', w'.task, w'.next)
        /\ \A j \in DOMAIN rows' : rows'[j].state = "Queued" =>
              MediaIn((tree \o records)', rows'[j].id) = {}
    BY <2>1, <2>2, <2>3, Zenon
  <2> QED BY <2>4 DEF OrderInv
<1> QED BY <1>2, <1>3, <1>5, <1>6, <1>7

LEMMA DrainInv == ASSUME Inv, Drain PROVE Inv'
<1>1. PICK n \in IF records = << >> THEN {0} ELSE 1 .. Min({DrainMax, Len(records)}) :
        LET fresh == Fresh(n)
            after == Counted(n, fresh)
            left == SubSeq(records, n + 1, Len(records))
        IN  /\ tree' = Attached(fresh) /\ rows' = after /\ pending' = Collected(n)
            /\ records' = left
            /\ batchEnded' = Latch(after, left)
            /\ \E due \in Due(FilesAfter(fresh)) :
                 LET ends == Idle(after, left) /\ ~batchEnded IN
                 /\ files' = IF due \/ ends THEN 0 ELSE FilesAfter(fresh)
                 /\ IF due \/ ends THEN Launch
                    ELSE save' = "none" /\ saveFailed' = FALSE /\ faults' = faults
  BY DEF Drain
<1>2. /\ main = "run" /\ MayDrain
      /\ UNCHANGED <<cancel, exclusive, stop, aborted, saved, laneFailed, w, walk, entered,
                     sessions, controls, reviewed, used, main>>
  BY DEF Drain, workVars
<1>3. n \in 0 .. Len(records) /\ (records = << >> => n = 0)
  <2>1. records \in Seq(Record) /\ Len(records) \in Nat /\ DrainMax \in Nat
    BY QueueAssumption DEF Inv, TypeOK
  <2>2. CASE records = << >>
    BY <2>1, <2>2
  <2>3. CASE records # << >>
    <3>1. Min({DrainMax, Len(records)}) \in {DrainMax, Len(records)}
          /\ Min({DrainMax, Len(records)}) <= Len(records)
      BY <2>1 DEF Min
    <3> QED BY <2>1, <2>3, <3>1
  <2> QED BY <2>2, <2>3
<1>4. /\ tree' = Attached(Fresh(n)) /\ rows' = Counted(n, Fresh(n)) /\ pending' = Collected(n)
      /\ records' = SubSeq(records, n + 1, Len(records)) /\ batchEnded' = Idle(rows', records')
      /\ \/ Launch /\ files' = 0
         \/ /\ save' = "none" /\ saveFailed' = FALSE /\ faults' = faults
            /\ files' = FilesAfter(Fresh(n)) /\ ~(batchEnded' /\ ~batchEnded)
  BY <1>1 DEF Latch
<1>5. /\ rows' \in Seq(Row) /\ DOMAIN rows' = DOMAIN rows
      /\ \A j \in DOMAIN rows :
           /\ rows'[j].id = rows[j].id /\ rows'[j].state = rows[j].state
           /\ rows'[j].imported = rows[j].imported + Cardinality(MediaOf(Fresh(n), rows[j].id))
  BY <1>3, <1>4, CountedOK DEF Inv
<1>6. /\ pending' \in [Task -> Nat] /\ FilesAfter(Fresh(n)) \in Nat
      /\ \A t \in Task : (\A j \in 1 .. n : records[j].task # t) => pending'[t] = pending[t]
  BY <1>3, <1>4, CollectedOK DEF Inv
<1>7. /\ tree' \in Seq(Record) /\ Len(tree') \in Nat /\ Len(tree) <= Len(tree')
      /\ records' \in Seq(Record) /\ Len(records') <= RecordCap
      /\ UsedInv' /\ ReviewInv' /\ OrderInv'
  <2>1. \A t \in Task : (\A j \in 1 .. n : records[j].task # t) => pending'[t] \in {0, pending[t]}
    BY <1>6
  <2>2. /\ tree' = Attached(Fresh(n)) /\ records' = SubSeq(records, n + 1, Len(records))
        /\ UNCHANGED <<w, used, reviewed>>
    BY <1>2, <1>4
  <2> QED BY <1>3, <1>5, <1>6, <2>1, <2>2, Attaching
<1>8. /\ save' \in {"none", "running"} /\ saveFailed' \in BOOLEAN /\ faults' \in 0 .. MaxFaults
      /\ files' \in Nat /\ (save' = "running" => ~saveFailed')
  <2>1. MaxFaults \in Nat /\ faults \in 0 .. MaxFaults
    BY QueueAssumption DEF Inv, TypeOK
  <2>2. /\ save' \in {"none", "running"} /\ saveFailed' \in BOOLEAN
        /\ (save' = "running" => ~saveFailed')
        /\ faults' = faults \/ (faults < MaxFaults /\ faults' = faults + 1)
        /\ files' = 0 \/ files' = FilesAfter(Fresh(n))
    BY <1>4, Zenon DEF Launch
  <2>3. faults' \in 0 .. MaxFaults
    BY <2>1, <2>2
  <2>4. files' \in Nat
    BY <1>6, <2>2
  <2> QED BY <2>2, <2>3, <2>4
<1>9. TypeOK'
  <2>1. saved' \in 0 .. Len(tree')
    BY <1>2, <1>7 DEF Inv, TypeOK
  <2>2. batchEnded' \in BOOLEAN
    BY <1>4 DEF Idle
  <2>3. /\ save' \in {"none", "running", "ok", "failed"}
        /\ {saveFailed', laneFailed', exclusive', stop', aborted', batchEnded'} \subseteq BOOLEAN
    BY <1>2, <1>8, <2>2 DEF Inv, TypeOK
  <2>4. /\ cancel' \subseteq Task /\ reviewed' \subseteq Task /\ used' \subseteq Task
        /\ main' \in {"closed", "run", "join", "attach"} /\ w' \in Worker /\ walk' \in Walk
        /\ entered' \in [Task -> SUBSET Archive] /\ sessions' \in 0 .. MaxSessions
        /\ controls' \in 0 .. MaxControls
    BY <1>2 DEF Inv, TypeOK
  <2> QED BY <1>5, <1>6, <1>7, <1>8, <2>1, <2>3, <2>4 DEF TypeOK
<1>10. WorkerInv' /\ WalkInv'
  BY <1>2 DEF Inv, WorkerInv, WalkInv, FilesOf
<1>11. RowsInv'
  BY <1>2, <1>5 DEF Inv, RowsInv, Finished
<1>12. MainInv'
  BY <1>2, <1>4, <1>8 DEF Inv, MainInv
<1>13. NothingLeftBehind'
  <2> SUFFICES ASSUME batchEnded', save' \in {"none", "ok"}, ~saveFailed' PROVE saved' = Len(tree')
    BY <1>2 DEF NothingLeftBehind
  <2>1. batchEnded
    BY <1>4, <1>8 DEF Launch
  <2>2. n = 0
    BY <1>2, <1>3, <2>1 DEF Inv, MainInv, Idle
  <2>3. Len(tree') = Len(tree)
    BY <1>3, <1>4, <2>2, AttachedFrom DEF Inv
  <2>4. save \in {"none", "ok"} /\ ~saveFailed
    BY <1>2 DEF MayDrain, Polled, PolledFailed, Inv, MainInv, TypeOK
  <2> QED BY <1>2, <2>1, <2>3, <2>4 DEF Inv, NothingLeftBehind
<1>14. ImportedCountsAttachments'
  <2>1. ASSUME NEW j \in DOMAIN rows
        PROVE  rows'[j].imported = Cardinality(MediaIn(Attached(Fresh(n)), rows[j].id))
    <3>1. rows[j].imported = Cardinality(MediaIn(tree, rows[j].id))
      BY <1>2 DEF Inv, ImportedCountsAttachments, MediaIn
    <3>2. Cardinality(MediaIn(Attached(Fresh(n)), rows[j].id))
            = Cardinality(MediaIn(tree, rows[j].id)) + Cardinality(MediaOf(Fresh(n), rows[j].id))
      BY <1>3, AttachedCount DEF Inv
    <3> QED BY <1>5, <3>1, <3>2
  <2>2. \A j \in DOMAIN rows' : rows'[j].imported = Cardinality(MediaIn(tree', rows'[j].id))
    BY <1>4, <1>5, <2>1
  <2> QED BY <2>2 DEF ImportedCountsAttachments, MediaIn
<1> QED BY <1>7, <1>9, <1>10, <1>11, <1>12, <1>13, <1>14 DEF Inv

LEMMA EndSessionInv == ASSUME Inv, EndSession PROVE Inv'
<1>1. /\ main = "attach" /\ records' = << >> /\ tree' = Attached(Fresh(Len(records)))
      /\ FinalCommit(tree') /\ pending' = [t \in Task |-> 0] /\ main' = "closed"
      /\ UNCHANGED <<rows, cancel, exclusive, stop, aborted, batchEnded, save, saveFailed, w, walk,
                     entered, sessions, controls, files, reviewed, used>>
  BY DEF EndSession, workVars
<1>2. /\ records \in Seq(Record) /\ Len(records) \in 0 .. Len(records)
  BY DEF Inv, TypeOK
<1>3. records' = SubSeq(records, Len(records) + 1, Len(records))
  <2>1. Len(records) \in Nat /\ SubSeq(records, Len(records) + 1, Len(records)) \in Seq(Record)
        /\ Len(SubSeq(records, Len(records) + 1, Len(records))) = 0
    BY <1>2, Remainder
  <2> QED BY <1>1, <2>1, EmptySeq
<1>4. /\ tree' \in Seq(Record) /\ Len(tree') \in Nat /\ Len(tree) <= Len(tree')
      /\ records' \in Seq(Record) /\ Len(records') <= RecordCap
      /\ UsedInv' /\ ReviewInv' /\ OrderInv'
  <2>1. /\ pending' \in [Task -> Nat] /\ UNCHANGED <<w, used, reviewed>>
        /\ \A t \in Task : pending'[t] \in {0, pending[t]}
        /\ DOMAIN rows' = DOMAIN rows
        /\ \A j \in DOMAIN rows : rows'[j].id = rows[j].id /\ rows'[j].state = rows[j].state
    BY <1>1
  <2>2. tree' = Attached(Fresh(Len(records)))
    BY <1>1
  <2> QED BY <1>2, <1>3, <2>1, <2>2, Attaching
<1>5. /\ saved' \in 0 .. Len(tree') /\ laneFailed' \in BOOLEAN /\ faults' \in 0 .. MaxFaults
      /\ (laneFailed' \/ saved' = Len(tree'))
  <2>1. /\ MaxFaults \in Nat /\ faults \in 0 .. MaxFaults /\ saved \in 0 .. Len(tree)
        /\ laneFailed \in BOOLEAN /\ tree \in Seq(Record) /\ Len(tree) \in Nat
    BY QueueAssumption DEF Inv, TypeOK
  <2>2. /\ laneFailed' \in BOOLEAN /\ (laneFailed' \/ saved' = Len(tree'))
        /\ saved' = Len(tree') \/ saved' = saved
        /\ faults' = faults \/ (faults < MaxFaults /\ faults' = faults + 1)
    BY <1>1, <2>1, Zenon DEF FinalCommit
  <2>3. faults' \in 0 .. MaxFaults
    BY <2>1, <2>2
  <2>4. saved' \in 0 .. Len(tree')
    BY <1>4, <2>1, <2>2
  <2> QED BY <2>2, <2>3, <2>4
<1>6. TypeOK'
  <2>1. pending' \in [Task -> Nat]
    BY <1>1
  <2> QED BY <1>1, <1>4, <1>5, <2>1 DEF Inv, TypeOK
<1>7. WorkerInv' /\ WalkInv'
  BY <1>1 DEF Inv, WorkerInv, WalkInv, FilesOf
<1>8. RowsInv'
  BY <1>1 DEF Inv, RowsInv, Finished
<1>9. MainInv'
  BY <1>1 DEF Inv, MainInv
<1>10. NothingLeftBehind' /\ ImportedCountsAttachments'
  BY <1>1, <1>5 DEF NothingLeftBehind, ImportedCountsAttachments
<1> QED BY <1>4, <1>6, <1>7, <1>8, <1>9, <1>10 DEF Inv

-----------------------------------------------------------------------------
(* The invariant, and what follows from it. *)

LEMMA InitInv == ASSUME Init PROVE Inv
<1>1. /\ rows = << >> /\ records = << >> /\ tree = << >> /\ main = "closed" /\ used = {}
      /\ w = [IdleWorker EXCEPT !.pc = "exited"] /\ walk = NoWalk /\ save = "none"
      /\ saved = 0 /\ reviewed = {}
  BY DEF Init
<1>2. w \in Worker /\ w.pc = "exited" /\ w.task = NoTask
  BY <1>1, IdleWorkerOK DEF Worker
<1>3. Len(tree) = 0 /\ Len(records) = 0 /\ tree \in Seq(Record) /\ records \in Seq(Record)
      /\ rows \in Seq(Row) /\ DOMAIN rows = {} /\ DOMAIN records = {} /\ DOMAIN tree = {}
  BY <1>1
<1>4. TypeOK
  <2>1. pending \in [Task -> Nat] /\ \A t \in Task : pending[t] = 0
    BY DEF Init
  <2>2. entered \in [Task -> SUBSET Archive]
    BY DEF Init
  <2>3. /\ sessions \in 0 .. MaxSessions /\ controls \in 0 .. MaxControls /\ faults \in 0 .. MaxFaults
        /\ files \in Nat /\ Len(records) <= RecordCap /\ saved \in 0 .. Len(tree)
    BY <1>1, <1>3, QueueAssumption DEF Init
  <2>4. /\ cancel \subseteq Task /\ reviewed \subseteq Task /\ used \subseteq Task
        /\ {saveFailed, laneFailed, exclusive, stop, aborted, batchEnded} \subseteq BOOLEAN
    BY DEF Init
  <2> QED BY <1>1, <1>2, <1>3, <2>1, <2>2, <2>3, <2>4, NoWalkOK DEF TypeOK
<1>5. WorkerInv
  BY <1>2 DEF WorkerInv, Loading
<1>6. WalkInv
  BY <1>1, NoWalkOK DEF WalkInv
<1>7. RowsInv /\ MainInv
  BY <1>1, <1>2, <1>3 DEF RowsInv, MainInv
<1>8. UsedInv
  <2>1. \A t \in Task : ~(pending[t] > 0)
    BY DEF Init
  <2> QED BY <1>2, <1>3, <2>1 DEF UsedInv
<1>9. NothingLeftBehind /\ ReviewInv /\ ImportedCountsAttachments
  BY <1>1, <1>3 DEF NothingLeftBehind, ReviewInv, ImportedCountsAttachments
<1>10. OrderInv
  BY <1>1, <1>2, <1>3 DEF OrderInv
<1> QED BY <1>4, <1>5, <1>6, <1>7, <1>8, <1>9, <1>10 DEF Inv

LEMMA StutterInv == ASSUME Inv, UNCHANGED vars PROVE Inv'
<1>1. UNCHANGED <<rows, cancel, records, exclusive, stop, aborted, batchEnded, saved, save,
                  saveFailed, laneFailed, w, walk, entered, sessions, controls, faults, tree,
                  files, pending, reviewed, used, main>>
  BY DEF vars, queueVars, saveVars, workVars, boundVars
<1>2. TypeOK'
  BY <1>1 DEF Inv, TypeOK
<1>3. WorkerInv' /\ WalkInv' /\ RowsInv'
  BY <1>1 DEF Inv, WorkerInv, WalkInv, RowsInv, Finished, FilesOf
<1>4. MainInv' /\ UsedInv' /\ ReviewInv'
  BY <1>1 DEF Inv, MainInv, Idle, UsedInv, ReviewInv, Finished
<1>5. NothingLeftBehind' /\ ImportedCountsAttachments'
  BY <1>1 DEF Inv, NothingLeftBehind, ImportedCountsAttachments
<1>6. OrderInv'
  BY <1>1 DEF Inv, OrderInv
<1> QED BY <1>2, <1>3, <1>4, <1>5, <1>6 DEF Inv

\* Every step of every actor keeps the invariant.
LEMMA StepInv == ASSUME Inv, [Next]_vars PROVE Inv'
<1>1. CASE BeginSession
  BY <1>1, BeginSessionInv
<1>2. CASE AbortBegins
  BY <1>2, AbortBeginsInv
<1>3. CASE AbortStep
  BY <1>3, SaveInv, EndSessionInv DEF AbortStep
<1>4. CASE PumpStep
  BY <1>4, SaveInv, DrainInv DEF PumpStep
<1>5. CASE ClearFinished
  BY <1>5, ClearFinishedInv
<1>6. ASSUME NEW t \in Task,
             Enqueue(t) \/ Cancel(t) \/ TakeReview(t) \/ \E d \in {-1, 1} : Reorder(t, d)
      PROVE  Inv'
  BY <1>6, EnqueueInv, CancelInv, TakeReviewInv, ReorderInv
<1>7. ASSUME NEW held \in BOOLEAN, SetExclusive(held) PROVE Inv'
  BY <1>7, SetExclusiveInv
<1>8. CASE SaveCommits \/ SaveFails
  BY <1>8, SaveInv
<1>9. CASE WorkerStep \/ TaskThrows
  BY <1>9, TakeTaskInv, WorkerExitsInv, OwnInv, PostInv, FinishTaskInv DEF WorkerStep, OwnStep
<1>10. CASE UNCHANGED vars
  BY <1>10, StutterInv
<1> QED BY <1>1, <1>2, <1>3, <1>4, <1>5, <1>6, <1>7, <1>8, <1>9, <1>10 DEF Next, Over

\* The inductive invariant holds of every behaviour of the import pipeline
\* (import_queue.cpp), for all jobs, archives, limits, sessions and failures.
THEOREM InvCorrect == Spec => []Inv
<1>1. Init => Inv
  BY InitInv
<1>2. Inv /\ [Next]_vars => Inv'
  BY StepInv
<1> QED BY <1>1, <1>2, PTL DEF Spec

\* Every variable of the queue keeps its type, and the record queue its capacity.
THEOREM TypeCorrect == Spec => []TypeOK
<1>1. Inv => TypeOK
  BY DEF Inv
<1> QED BY <1>1, InvCorrect, PTL

\* Once the queue has latched its idle state, or a session has ended, everything that
\* was attached is committed unless a commit failed (maybe_end_batch, abort_and_flush,
\* end_session).
THEOREM NothingLeftBehindTheorem == Spec => []NothingLeftBehind
<1>1. Inv => NothingLeftBehind
  BY DEF Inv
<1> QED BY <1>1, InvCorrect, PTL

\* A row's import count is the number of its task's files in the tree
\* (mark_task_imported, called for what drain attached and nothing else).
THEOREM ImportedCountsTheorem == Spec => []ImportedCountsAttachments
<1>1. Inv => ImportedCountsAttachments
  BY DEF Inv
<1> QED BY <1>1, InvCorrect, PTL

\* After a task's tags were given to the user no tag of it is collected or can still
\* arrive (take_tag_review).
THEOREM ReviewIsCompleteTheorem == Spec => []ReviewIsComplete
<1>1. Inv => ReviewIsComplete
  BY DEF Inv, ReviewInv, ReviewIsComplete
<1> QED BY <1>1, InvCorrect, PTL

\* The files of a task reach the records and the tree in the order given, whatever the
\* window holds and whatever else is imported between them (process_files_task).
THEOREM FileOrderKeptTheorem == Spec => []FileOrderKept
<1>1. ASSUME Inv PROVE FileOrderKept
  <2> SUFFICES ASSUME NEW t \in used, JobOf[t].kind = "files"
               PROVE  LET names == [i \in DOMAIN FilesOf(t) |-> FilesOf(t)[i].name]
                          all == tree \o records
                          mine == {i \in DOMAIN all : all[i].kind = "media" /\ all[i].task = t}
                      IN  \A i, j \in mine : i < j =>
                            \E a, b \in DOMAIN names :
                               a < b /\ names[a] = all[i].name /\ names[b] = all[j].name
    BY DEF FileOrderKept
  <2> DEFINE names == [i \in DOMAIN FilesOf(t) |-> FilesOf(t)[i].name]
             all == tree \o records
             mine == {i \in DOMAIN all : all[i].kind = "media" /\ all[i].task = t}
  <2>1. Ordered(all, t) /\ mine = MediaIn(all, t)
    BY <1>1 DEF Inv, OrderInv, MediaIn
  <2>2. DOMAIN names = DOMAIN FilesOf(t) /\ \A a \in DOMAIN FilesOf(t) : names[a] = FilesOf(t)[a].name
    OBVIOUS
  <2> HIDE DEF names, all, mine
  <2>3. ASSUME NEW i \in mine, NEW j \in mine, i < j
        PROVE  \E a, b \in DOMAIN names : a < b /\ names[a] = all[i].name /\ names[b] = all[j].name
    <3>1. PICK a \in DOMAIN FilesOf(t), b \in DOMAIN FilesOf(t) :
             a < b /\ FilesOf(t)[a].name = all[i].name /\ FilesOf(t)[b].name = all[j].name
      BY <2>1, <2>3 DEF Ordered
    <3> QED BY <2>2, <3>1
  <2> QED BY <2>3 DEF names, all, mine
<1>2. Inv => FileOrderKept
  BY <1>1
<1> QED BY <1>2, InvCorrect, PTL

\* While the save worker writes the tree nobody changes it: drain returns early, an
\* abort joins the save before it attaches what is left (poll_save, wait_for_save).
THEOREM TreeOwnedByOneTheorem == Spec => TreeOwnedByOne
<1>1. ASSUME Inv, [Next]_vars, save = "running" PROVE tree' = tree
  <2>1. main \notin {"attach", "closed"} /\ ~MayDrain
    BY <1>1 DEF Inv, MainInv, MayDrain, Polled
  <2>2. ~BeginSession /\ ~EndSession /\ ~Drain
    BY <2>1 DEF BeginSession, EndSession, Drain
  <2>3. CASE WorkerStep \/ TaskThrows
    BY <2>3 DEF WorkerStep, TaskThrows, TakeTask, WorkerExits, LoadNext, SubmitFile, DrainFiles,
                PostFile, DrainTail, WalkAdvances, WalkPosts, WalkEnds, FinishTask, Local, Post, WorkerOnly
  <2>4. CASE \E t \in Task : Enqueue(t) \/ Cancel(t) \/ TakeReview(t) \/ \E d \in {-1, 1} : Reorder(t, d)
    BY <2>4 DEF Enqueue, Cancel, TakeReview, Reorder
  <2>5. CASE \/ AbortBegins \/ AbortJoins \/ DrainReturns \/ ClearFinished \/ SaveCommits \/ SaveFails
             \/ \E held \in BOOLEAN : SetExclusive(held)
    BY <2>5 DEF AbortBegins, AbortJoins, DrainReturns, ClearFinished, SaveCommits, SaveFails, SetExclusive
  <2>6. CASE UNCHANGED vars
    BY <2>6 DEF vars
  <2> QED BY <1>1, <2>2, <2>3, <2>4, <2>5, <2>6 DEF Next, AbortStep, PumpStep, Over
<1>2. Inv /\ [Next]_vars => [save = "running" => tree' = tree]_vars
  BY <1>1
<1> QED BY <1>2, InvCorrect, PTL DEF Spec, TreeOwnedByOne

\* The walk of an archive stays within RecursionLimits however deep the archives nest:
\* depth, number of nested archives and live bytes, whose total is that of the archives
\* on the path, and readers are cached only for these (recursive_import.cpp).
THEOREM WalkWithinBudgetTheorem == Spec => []WalkWithinBudget
<1>1. Inv => WalkWithinBudget
  <2> SUFFICES ASSUME Inv PROVE WalkWithinBudget
    OBVIOUS
  <2>1. walk \in Walk /\ Bounded(walk)
    BY DEF Inv, TypeOK, WalkInv
  <2>2. walk.live = LiveOnPath(walk)
    BY <2>1, SumIsLive DEF Bounded
  <2> QED BY <2>1, <2>2 DEF Bounded, WalkWithinBudget
<1> QED BY <1>1, InvCorrect, PTL
=============================================================================
