-------------------------- MODULE MetadataSyncProofs --------------------------
(***************************************************************************)
(* What holds of MetadataSync for every set of nodes and names and any     *)
(* number of failures: a commit that reports success mirrors the tree, the *)
(* table is a tree whatever was refused on the way, and only removals are  *)
(* ever refused.                                                           *)
(*                                                                         *)
(* A tree is reasoned about through the relation Under: which gallery a    *)
(* node lies in. The edits are first turned into what they do to it.       *)
(***************************************************************************)
EXTENDS MetadataSync, FiniteSetTheorems, SequenceTheorems, WellFoundedInduction, TLAPS

Tree == [Parent -> Seq(Node)]
Visit == [node : Node, parent : Parent, order : Nat]

Under(k, p, n) == \E i \in DOMAIN k[p] : k[p][i] = n

(* What makes the live tree one. *)

\* No gallery has a node twice, no node is in two galleries.
OnePlace(k) ==
    /\ \A p \in Parent : \A i, j \in DOMAIN k[p] : k[p][i] = k[p][j] => i = j
    /\ \A p, q \in Parent, n \in Node : Under(k, p, n) /\ Under(k, q, n) => p = q

\* A gallery that is not in the tree is empty.
Grounded(k) ==
    \A g \in Gallery, n \in Node : Under(k, g, n) => \E p \in Parent : Under(k, p, g)

\* Every set of nodes has one whose gallery, if it is in one, is not in the set.
NoCircle(k) ==
    \A S \in SUBSET Node :
        S # {} => \E n \in S : \A p \in Parent : Under(k, p, n) => p \notin S

NamesApart(k, nm) ==
    \A p \in Parent, n, m \in Node : Under(k, p, n) /\ Under(k, p, m) /\ nm[n] = nm[m] => n = m

LiveTree(k, nm) == OnePlace(k) /\ Grounded(k) /\ NoCircle(k) /\ NamesApart(k, nm)

(***************************************************************************)
(* Sequences and the relation Under.                                       *)
(***************************************************************************)

LEMMA InPresent ==
    ASSUME NEW k, NEW n
    PROVE  n \in Present(k) <=> \E p \in Parent : Under(k, p, n)
BY DEF Present, ToSet, Under

LEMMA InToSet ==
    ASSUME NEW k, NEW p, NEW n
    PROVE  n \in ToSet(k[p]) <=> Under(k, p, n)
BY DEF ToSet, Under

LEMMA UnderNode ==
    ASSUME NEW k \in Tree, NEW p \in Parent, NEW n, Under(k, p, n)
    PROVE  n \in Node
BY DEF Tree, Under

LEMMA RemoveAtDef ==
    ASSUME NEW S, NEW s \in Seq(S), NEW i \in 1 .. Len(s)
    PROVE  /\ RemoveAt(s, i) \in Seq(S) /\ Len(RemoveAt(s, i)) = Len(s) - 1
           /\ \A j \in 1 .. Len(s) - 1 : RemoveAt(s, i)[j] = IF j < i THEN s[j] ELSE s[j + 1]
<1> DEFINE a == SubSeq(s, 1, i - 1)
           b == SubSeq(s, i + 1, Len(s))
<1>1. /\ a \in Seq(S) /\ Len(a) = i - 1 /\ \A j \in 1 .. i - 1 : a[j] = s[j]
  OBVIOUS
<1>2. /\ b \in Seq(S) /\ Len(b) = Len(s) - i /\ \A j \in 1 .. Len(s) - i : b[j] = s[i + j]
  <2>1. Len(s) \in Nat /\ i \in Nat /\ i >= 1 /\ i <= Len(s)
    OBVIOUS
  <2>2. \A j \in i + 1 .. Len(s) : s[j] \in S
    <3> SUFFICES ASSUME NEW j \in i + 1 .. Len(s) PROVE s[j] \in S
      OBVIOUS
    <3>1. j \in 1 .. Len(s)
      BY <2>1
    <3> QED BY <3>1
  <2>3. i + 1 \in Int /\ Len(s) \in Int
    BY <2>1
  <2>4. /\ b \in Seq(S) /\ Len(b) = IF i + 1 <= Len(s) THEN Len(s) - (i + 1) + 1 ELSE 0
        /\ \A j \in 1 .. Len(s) - (i + 1) + 1 : b[j] = s[i + 1 + j - 1]
    <3> DEFINE m == i + 1
               n == Len(s)
    <3> SUFFICES /\ SubSeq(s, m, n) \in Seq(S) /\ Len(SubSeq(s, m, n)) = IF m <= n THEN n - m + 1 ELSE 0
                 /\ \A j \in 1 .. n - m + 1 : SubSeq(s, m, n)[j] = s[m + j - 1]
      OBVIOUS
    <3>1. m \in Int /\ n \in Int /\ \A j \in m .. n : s[j] \in S
      BY <2>2, <2>3
    <3> HIDE DEF m, n
    <3> QED BY <3>1, SubSeqProperties
  <2> HIDE DEF b
  <2>5. Len(b) = Len(s) - i
    BY <2>1, <2>4
  <2>6. ASSUME NEW j \in 1 .. Len(s) - i PROVE b[j] = s[i + j]
    <3>1. j \in 1 .. Len(s) - (i + 1) + 1 /\ i + 1 + j - 1 = i + j
      BY <2>1
    <3> QED BY <2>4, <3>1
  <2> QED BY <2>4, <2>5, <2>6
<1>3. RemoveAt(s, i) = a \o b
  BY DEF RemoveAt
<1> HIDE DEF a, b
<1>4. a \o b \in Seq(S) /\ Len(a \o b) = Len(s) - 1
  <2>1. a \o b \in Seq(S) /\ Len(a \o b) = Len(a) + Len(b)
    BY <1>1, <1>2, ConcatProperties
  <2>2. Len(s) \in Nat /\ i \in Nat
    OBVIOUS
  <2> QED BY <1>1, <1>2, <2>1, <2>2
<1>5. ASSUME NEW j \in 1 .. Len(s) - 1
      PROVE  (a \o b)[j] = IF j < i THEN s[j] ELSE s[j + 1]
  <2>1. CASE j < i
    BY <1>1, <1>2, <2>1
  <2>2. CASE ~(j < i)
    <3>1. (a \o b)[j] = b[j - (i - 1)] /\ j - (i - 1) \in 1 .. Len(s) - i
      BY <1>1, <1>2, <2>2
    <3> QED BY <1>2, <2>2, <3>1
  <2> QED BY <2>1, <2>2
<1> QED BY <1>3, <1>4, <1>5

\* A node appended to a gallery.
LEMMA LinkedDef ==
    ASSUME NEW k \in Tree, NEW p \in Parent, NEW n \in Node
    PROVE  /\ Linked(k, p, n) \in Tree
           /\ \A q \in Parent \ {p} : Linked(k, p, n)[q] = k[q]
           /\ DOMAIN Linked(k, p, n)[p] = 1 .. Len(k[p]) + 1
           /\ \A i \in 1 .. Len(k[p]) : Linked(k, p, n)[p][i] = k[p][i]
           /\ Linked(k, p, n)[p][Len(k[p]) + 1] = n
<1>1. k[p] \in Seq(Node) /\ Linked(k, p, n) = [k EXCEPT ![p] = Append(k[p], n)]
  BY DEF Tree, Linked
<1>2. /\ Append(k[p], n) \in Seq(Node) /\ DOMAIN Append(k[p], n) = 1 .. Len(k[p]) + 1
      /\ \A i \in 1 .. Len(k[p]) : Append(k[p], n)[i] = k[p][i]
      /\ Append(k[p], n)[Len(k[p]) + 1] = n
  BY <1>1
<1> QED BY <1>1, <1>2 DEF Tree

LEMMA LinkedUnder ==
    ASSUME NEW k \in Tree, NEW p \in Parent, NEW n \in Node
    PROVE  \A q \in Parent, m \in Node :
              Under(Linked(k, p, n), q, m) <=> Under(k, q, m) \/ (q = p /\ m = n)
<1> DEFINE l == Linked(k, p, n)
<1>1. /\ \A q \in Parent \ {p} : l[q] = k[q]
      /\ DOMAIN l[p] = 1 .. Len(k[p]) + 1
      /\ \A i \in 1 .. Len(k[p]) : l[p][i] = k[p][i]
      /\ l[p][Len(k[p]) + 1] = n
      /\ DOMAIN k[p] = 1 .. Len(k[p]) /\ Len(k[p]) \in Nat
  BY LinkedDef DEF Tree
<1> HIDE DEF l
<1>2. SUFFICES ASSUME NEW q \in Parent, NEW m \in Node
               PROVE  Under(l, q, m) <=> Under(k, q, m) \/ (q = p /\ m = n)
  BY DEF l
<1>3. CASE q # p
  BY <1>1, <1>3 DEF Under
<1>4. CASE q = p
  <2>1. ASSUME Under(l, p, m) PROVE Under(k, p, m) \/ m = n
    <3>1. PICK i \in 1 .. Len(k[p]) + 1 : l[p][i] = m
      BY <1>1, <2>1 DEF Under
    <3>2. i \in 1 .. Len(k[p]) \/ i = Len(k[p]) + 1
      BY <1>1, <3>1
    <3> QED BY <1>1, <3>1, <3>2 DEF Under
  <2>2. Under(l, p, n)
    BY <1>1 DEF Under
  <2>3. ASSUME Under(k, p, m) PROVE Under(l, p, m)
    <3>1. PICK i \in 1 .. Len(k[p]) : k[p][i] = m
      BY <1>1, <2>3 DEF Under
    <3>2. i \in 1 .. Len(k[p]) + 1
      BY <1>1, <3>1
    <3> QED BY <1>1, <3>1, <3>2 DEF Under
  <2> QED BY <1>4, <2>1, <2>2, <2>3
<1> QED BY <1>3, <1>4

\* A node erased from the gallery it lies in.
LEMMA UnlinkedDef ==
    ASSUME NEW k \in Tree, NEW p \in Parent, NEW n \in Node, Under(k, p, n),
           \A i, j \in DOMAIN k[p] : k[p][i] = k[p][j] => i = j
    PROVE  LET l == Unlinked(k, p, n)
           IN  /\ l \in Tree /\ \A q \in Parent \ {p} : l[q] = k[q]
               /\ \A i, j \in DOMAIN l[p] : l[p][i] = l[p][j] => i = j
               /\ \A m : Under(l, p, m) <=> Under(k, p, m) /\ m # n
<1> DEFINE s == k[p]
           d == Position(s, n)
           r == RemoveAt(s, d)
           l == Unlinked(k, p, n)
           From(j) == IF j < d THEN j ELSE j + 1
<1>1. s \in Seq(Node) /\ DOMAIN s = 1 .. Len(s) /\ Len(s) \in Nat
  BY DEF Tree
<1>2. d \in 1 .. Len(s) /\ s[d] = n
  <2>1. \E i \in DOMAIN s : s[i] = n
    BY DEF Under
  <2> QED BY <1>1, <2>1 DEF Position
<1>3. l = [k EXCEPT ![p] = r]
  BY DEF Unlinked, Tree
<1> HIDE DEF d, r
<1>4. /\ r \in Seq(Node) /\ Len(r) = Len(s) - 1
      /\ \A j \in 1 .. Len(s) - 1 : r[j] = IF j < d THEN s[j] ELSE s[j + 1]
  BY <1>1, <1>2, RemoveAtDef DEF r
<1>5. /\ l \in Tree /\ l[p] = r /\ \A q \in Parent \ {p} : l[q] = k[q]
  BY <1>3, <1>4 DEF Tree
<1>6. DOMAIN r = 1 .. Len(s) - 1
  BY <1>4
<1> HIDE DEF l, s
<1>7. \A i, j \in 1 .. Len(s) : s[i] = s[j] => i = j
  BY <1>1 DEF s
<1>8. ASSUME NEW j \in 1 .. Len(s) - 1
      PROVE  From(j) \in 1 .. Len(s) /\ From(j) # d /\ r[j] = s[From(j)]
  BY <1>1, <1>2, <1>4
<1>9. ASSUME NEW i \in DOMAIN r, NEW j \in DOMAIN r, r[i] = r[j] PROVE i = j
  <2>1. i \in 1 .. Len(s) - 1 /\ j \in 1 .. Len(s) - 1
    BY <1>6, <1>9
  <2>2. s[From(i)] = s[From(j)] /\ From(i) \in 1 .. Len(s) /\ From(j) \in 1 .. Len(s)
    BY <1>8, <1>9, <2>1
  <2>3. From(i) = From(j)
    <3> HIDE DEF From
    <3> QED BY <1>7, <2>2
  <2> QED BY <1>1, <1>2, <2>1, <2>3
<1>10. ASSUME NEW m PROVE (\E i \in DOMAIN r : r[i] = m) <=> (\E i \in 1 .. Len(s) : s[i] = m) /\ m # n
  <2>1. ASSUME NEW i \in DOMAIN r, r[i] = m
        PROVE  (\E j \in 1 .. Len(s) : s[j] = m) /\ m # n
    <3>1. From(i) \in 1 .. Len(s) /\ From(i) # d /\ s[From(i)] = m
      BY <1>6, <1>8, <2>1
    <3> HIDE DEF From
    <3> QED BY <1>2, <1>7, <3>1
  <2>2. ASSUME NEW i \in 1 .. Len(s), s[i] = m, m # n
        PROVE  \E j \in DOMAIN r : r[j] = m
    <3>1. i # d /\ i \in Nat /\ d \in Nat
      BY <1>2, <2>2
    <3>2. CASE i < d
      <4>1. i \in DOMAIN r /\ r[i] = s[i]
        BY <1>1, <1>2, <1>4, <1>6, <3>1, <3>2
      <4> QED BY <2>2, <4>1
    <3>3. CASE i > d
      <4>1. i - 1 \in DOMAIN r /\ r[i - 1] = s[i - 1 + 1] /\ i - 1 + 1 = i
        BY <1>1, <1>2, <1>4, <1>6, <3>1, <3>3
      <4> QED BY <2>2, <4>1
    <3> QED BY <3>1, <3>2, <3>3
  <2> QED BY <2>1, <2>2
<1>11. ASSUME NEW m PROVE Under(l, p, m) <=> Under(k, p, m) /\ m # n
  BY <1>1, <1>5, <1>10 DEF Under, s
<1> QED BY <1>5, <1>9, <1>11 DEF l

LEMMA ShiftNat == Shift \in Nat
BY SMT DEF Shift

\* A gallery of distinct nodes has fewer than the offset that vacates the orders.
LEMMA LenBound ==
    ASSUME NEW s \in Seq(Node), \A i, j \in DOMAIN s : s[i] = s[j] => i = j
    PROVE  Len(s) < Shift
<1>1. s \in Injection(1 .. Len(s), Node) /\ Len(s) \in Nat
  <2>1. s \in [1 .. Len(s) -> Node] /\ Len(s) \in Nat /\ DOMAIN s = 1 .. Len(s)
    OBVIOUS
  <2> QED BY <2>1 DEF Injection, IsInjective
<1>2. Cardinality(1 .. Len(s)) = Len(s)
  <2>1. ASSUME NEW n \in Nat PROVE Cardinality(1 .. n) = n
    BY FS_Interval
  <2> QED BY <1>1, <2>1
<1>3. Len(s) <= Cardinality(Node) /\ Cardinality(Node) \in Nat
  BY <1>1, <1>2, FS_Injection, FS_CardinalityType, NodeAssumption
<1> QED BY <1>1, <1>3, NodeAssumption, ShiftNat

\* The places the children of p are visited at.
LEMMA VisitsDef ==
    ASSUME NEW k \in Tree, NEW p \in Node \cup {Root}
    PROVE  /\ Visits(k, p) \in Seq(Visit)
           /\ p \in Parent => /\ DOMAIN Visits(k, p) = DOMAIN k[p]
                              /\ \A i \in DOMAIN k[p] :
                                    /\ Visits(k, p)[i].node = k[p][i]
                                    /\ Visits(k, p)[i].parent = p
                                    /\ Visits(k, p)[i].order = i - 1
           /\ p \notin Parent => Visits(k, p) = << >>
<1>1. CASE p \notin Parent
  BY <1>1 DEF Visits
<1>2. CASE p \in Parent
  <2> DEFINE s == k[p]
             w == [i \in DOMAIN s |-> [node |-> s[i], parent |-> p, order |-> i - 1]]
  <2>1. s \in Seq(Node) /\ DOMAIN s = 1 .. Len(s) /\ Len(s) \in Nat
    BY <1>2 DEF Tree
  <2>2. Visits(k, p) = w
    BY <1>2 DEF Visits
  <2> HIDE DEF s
  <2>3. \A i \in 1 .. Len(s) : [node |-> s[i], parent |-> p, order |-> i - 1] \in Visit
    BY <1>2, <2>1 DEF Visit
  <2>4. w \in [1 .. Len(s) -> Visit]
    BY <2>1, <2>3
  <2>5. w \in Seq(Visit)
    <3> HIDE DEF w
    <3> QED BY <2>1, <2>4
  <2> QED BY <1>2, <2>2, <2>5 DEF s
<1> QED BY <1>1, <1>2

(***************************************************************************)
(* What the edits do to a live tree.                                       *)
(***************************************************************************)

\* A node that is in no gallery is appended to one of the tree's.
LEMMA LinkedTree ==
    ASSUME NEW k \in Tree, NEW nm \in [Node -> Name], LiveTree(k, nm),
           NEW p \in Parent, NEW n \in Node, NEW x \in Name,
           p = Root \/ \E r \in Parent : Under(k, r, p),
           \A r \in Parent : ~Under(k, r, n),
           \A m \in Node : Under(k, p, m) => nm[m] # x
    PROVE  LiveTree(Linked(k, p, n), [nm EXCEPT ![n] = x])
<1> DEFINE l == Linked(k, p, n)
           nx == [nm EXCEPT ![n] = x]
<1>1. /\ OnePlace(k) /\ Grounded(k) /\ NoCircle(k) /\ NamesApart(k, nm)
      /\ Root \notin Node /\ Gallery \subseteq Node /\ Parent = Gallery \cup {Root}
  BY NodeAssumption DEF LiveTree, Node, Parent
<1>2. \A q \in Parent, m \in Node : Under(l, q, m) <=> Under(k, q, m) \/ (q = p /\ m = n)
  BY LinkedUnder
<1>3. n # p /\ \A m \in Node : ~(n \in Parent /\ Under(k, n, m))
  BY <1>1 DEF Grounded
<1>a. /\ \A q \in Parent \ {p} : l[q] = k[q]
      /\ DOMAIN l[p] = 1 .. Len(k[p]) + 1 /\ l[p][Len(k[p]) + 1] = n
      /\ \A i \in 1 .. Len(k[p]) : l[p][i] = k[p][i]
  BY LinkedDef
<1>b. DOMAIN k[p] = 1 .. Len(k[p]) /\ Len(k[p]) \in Nat
  BY DEF Tree
<1> HIDE DEF l
<1>4. OnePlace(l)
  <2>1. ASSUME NEW q \in Parent, NEW i \in DOMAIN l[q], NEW j \in DOMAIN l[q], l[q][i] = l[q][j]
        PROVE  i = j
    <3>1. CASE q # p
      BY <1>1, <1>a, <2>1, <3>1 DEF OnePlace
    <3>2. CASE q = p
      <4>1. \A a \in 1 .. Len(k[p]) : k[p][a] # n
        BY <1>b DEF Under
      <4>2. i \in 1 .. Len(k[p]) \/ i = Len(k[p]) + 1
        BY <1>a, <1>b, <2>1, <3>2
      <4>3. j \in 1 .. Len(k[p]) \/ j = Len(k[p]) + 1
        BY <1>a, <1>b, <2>1, <3>2
      <4>4. \A a, b \in 1 .. Len(k[p]) : k[p][a] = k[p][b] => a = b
        BY <1>1, <1>b DEF OnePlace
      <4> QED BY <1>a, <2>1, <3>2, <4>1, <4>2, <4>3, <4>4
    <3> QED BY <3>1, <3>2
  <2>2. \A q, r \in Parent, m \in Node : Under(l, q, m) /\ Under(l, r, m) => q = r
    BY <1>1, <1>2 DEF OnePlace
  <2> QED BY <2>1, <2>2 DEF OnePlace
<1>5. Grounded(l)
  BY <1>1, <1>2, <1>3 DEF Grounded
<1>6. NoCircle(l)
  <2> SUFFICES ASSUME NEW S \in SUBSET Node, S # {}
               PROVE  \E m \in S : \A q \in Parent : Under(l, q, m) => q \notin S
    BY DEF NoCircle
  <2>1. CASE n \notin S
    <3>1. PICK m \in S : \A q \in Parent : Under(k, q, m) => q \notin S
      BY <1>1 DEF NoCircle
    <3> QED BY <1>2, <2>1, <3>1
  <2>2. CASE n \in S /\ p \notin S
    BY <1>2, <2>2
  <2>3. CASE n \in S /\ p \in S
    <3>1. S \ {n} \in SUBSET Node /\ S \ {n} # {}
      BY <1>3, <2>3
    <3>2. PICK m \in S \ {n} : \A q \in Parent : Under(k, q, m) => q \notin S \ {n}
      BY <1>1, <3>1 DEF NoCircle
    <3> QED BY <1>2, <1>3, <3>2
  <2> QED BY <2>1, <2>2, <2>3
<1>7. NamesApart(l, nx)
  <2>1. \A m \in Node : nx[m] = IF m = n THEN x ELSE nm[m]
    OBVIOUS
  <2> HIDE DEF nx
  <2> QED BY <1>1, <1>2, <2>1 DEF NamesApart
<1> QED BY <1>4, <1>5, <1>6, <1>7 DEF LiveTree, l

\* A sibling takes a name that none of them has.
LEMMA RenamedTree ==
    ASSUME NEW k \in Tree, NEW nm \in [Node -> Name], LiveTree(k, nm),
           NEW p \in Parent, NEW n \in Node, NEW x \in Name, Under(k, p, n),
           \A m \in Node : Under(k, p, m) => nm[m] # x
    PROVE  LiveTree(k, [nm EXCEPT ![n] = x])
<1> DEFINE nx == [nm EXCEPT ![n] = x]
<1>1. \A m \in Node : nx[m] = IF m = n THEN x ELSE nm[m]
  OBVIOUS
<1> HIDE DEF nx
<1>2. NamesApart(k, nx)
  BY <1>1 DEF LiveTree, NamesApart, OnePlace
<1> QED BY <1>2 DEF LiveTree, nx

\* Two siblings swap their names.
LEMMA SwappedTree ==
    ASSUME NEW k \in Tree, NEW nm \in [Node -> Name], LiveTree(k, nm),
           NEW p \in Parent, NEW n \in Node, NEW m \in Node, n # m,
           Under(k, p, n), Under(k, p, m)
    PROVE  LiveTree(k, [nm EXCEPT ![n] = nm[m], ![m] = nm[n]])
<1> DEFINE nx == [nm EXCEPT ![n] = nm[m], ![m] = nm[n]]
<1>1. \A o \in Node : nx[o] = IF o = m THEN nm[n] ELSE IF o = n THEN nm[m] ELSE nm[o]
  OBVIOUS
<1> HIDE DEF nx
<1>2. NamesApart(k, nx)
  BY <1>1 DEF LiveTree, NamesApart, OnePlace
<1> QED BY <1>2 DEF LiveTree, nx

\* A subtree has its root and the children of its members.
LEMMA SubtreeClosed ==
    ASSUME kids \in Tree, NEW n \in Node
    PROVE  /\ n \in Subtree(n) /\ Subtree(n) \subseteq Node
           /\ \A p \in Parent, m \in Node : p \in Subtree(n) /\ Under(kids, p, m) => m \in Subtree(n)
<1>1. n \in Subtree(n) /\ Subtree(n) \subseteq Node
  BY DEF Subtree
<1>2. ASSUME NEW p \in Parent, NEW m \in Node, p \in Subtree(n), Under(kids, p, m)
      PROVE  m \in Subtree(n)
  <2>1. p \in Gallery /\ p \in Node /\ m \in ToSet(kids[p])
    BY <1>1, <1>2, NodeAssumption, InToSet DEF Parent
  <2> SUFFICES ASSUME NEW S \in SUBSET Node, n \in S,
                      \A g \in S \cap Gallery : ToSet(kids[g]) \subseteq S
               PROVE  m \in S
    BY DEF Subtree
  <2>2. p \in S
    BY <1>2 DEF Subtree
  <2> QED BY <2>1, <2>2
<1> QED BY <1>1, <1>2

\* A node moves, with what is below it, to the end of a gallery of the tree that
\* is not below it.
LEMMA MovedTree ==
    ASSUME kids \in Tree, NEW nm \in [Node -> Name], LiveTree(kids, nm),
           NEW p \in Parent, NEW n \in Node, NEW q \in Parent, NEW x \in Name,
           Under(kids, p, n), p # q, q \notin Subtree(n),
           q = Root \/ \E r \in Parent : Under(kids, r, q),
           \A m \in Node : Under(kids, q, m) => nm[m] # x
    PROVE  /\ Linked(Unlinked(kids, p, n), q, n) \in Tree
           /\ LiveTree(Linked(Unlinked(kids, p, n), q, n), [nm EXCEPT ![n] = x])
           /\ Present(Linked(Unlinked(kids, p, n), q, n)) = Present(kids)
<1> DEFINE u == Unlinked(kids, p, n)
           l == Linked(u, q, n)
           nx == [nm EXCEPT ![n] = x]
<1>1. /\ OnePlace(kids) /\ Grounded(kids) /\ NoCircle(kids) /\ NamesApart(kids, nm)
      /\ Root \notin Node /\ Gallery \subseteq Node /\ Parent = Gallery \cup {Root}
  BY NodeAssumption DEF LiveTree, Node, Parent
<1>2. \A i, j \in DOMAIN kids[p] : kids[p][i] = kids[p][j] => i = j
  BY <1>1 DEF OnePlace
<1>3. /\ u \in Tree /\ \A r \in Parent \ {p} : u[r] = kids[r]
      /\ \A i, j \in DOMAIN u[p] : u[p][i] = u[p][j] => i = j
      /\ \A m : Under(u, p, m) <=> Under(kids, p, m) /\ m # n
  BY <1>2, UnlinkedDef
<1> HIDE DEF u
<1>4. /\ l \in Tree /\ \A r \in Parent \ {q} : l[r] = u[r]
      /\ DOMAIN l[q] = 1 .. Len(u[q]) + 1 /\ l[q][Len(u[q]) + 1] = n
      /\ \A i \in 1 .. Len(u[q]) : l[q][i] = u[q][i]
      /\ \A r \in Parent, m \in Node : Under(l, r, m) <=> Under(u, r, m) \/ (r = q /\ m = n)
  BY <1>3, LinkedDef, LinkedUnder
<1> HIDE DEF l
<1>5. \A r \in Parent, m \in Node :
         Under(l, r, m) <=> IF m = n THEN r = q ELSE Under(kids, r, m)
  <2>1. \A r \in Parent, m \in Node : Under(u, r, m) <=> Under(kids, r, m) /\ m # n
    <3>1. \A r \in Parent \ {p}, m \in Node : Under(u, r, m) <=> Under(kids, r, m)
      BY <1>3 DEF Under
    <3>2. \A r \in Parent \ {p} : ~Under(kids, r, n)
      BY <1>1 DEF OnePlace
    <3> QED BY <1>3, <3>1, <3>2
  <2> QED BY <1>4, <2>1
<1>6. OnePlace(l)
  <2>1. ASSUME NEW r \in Parent, NEW i \in DOMAIN l[r], NEW j \in DOMAIN l[r], l[r][i] = l[r][j]
        PROVE  i = j
    <3>1. \A t \in Parent : \A a, b \in DOMAIN u[t] : u[t][a] = u[t][b] => a = b
      BY <1>1, <1>3 DEF OnePlace
    <3>2. CASE r # q
      BY <1>4, <2>1, <3>1, <3>2
    <3>3. CASE r = q
      <4>1. DOMAIN u[q] = 1 .. Len(u[q]) /\ Len(u[q]) \in Nat
        BY <1>3 DEF Tree
      <4>2. \A a \in 1 .. Len(u[q]) : u[q][a] # n
        <5>1. u[q] = kids[q] /\ ~Under(kids, q, n)
          BY <1>1, <1>3 DEF OnePlace
        <5> QED BY <4>1, <5>1 DEF Under
      <4>3. i \in 1 .. Len(u[q]) \/ i = Len(u[q]) + 1
        BY <1>4, <2>1, <3>3, <4>1
      <4>4. j \in 1 .. Len(u[q]) \/ j = Len(u[q]) + 1
        BY <1>4, <2>1, <3>3, <4>1
      <4> QED BY <1>4, <2>1, <3>1, <3>3, <4>1, <4>2, <4>3, <4>4
    <3> QED BY <3>2, <3>3
  <2>2. \A r, t \in Parent, m \in Node : Under(l, r, m) /\ Under(l, t, m) => r = t
    BY <1>1, <1>5 DEF OnePlace
  <2> QED BY <2>1, <2>2 DEF OnePlace
<1>7. n \in Subtree(n) /\ q # n
  BY SubtreeClosed
<1>8. Grounded(l)
  <2> SUFFICES ASSUME NEW g \in Gallery, NEW m \in Node, Under(l, g, m)
               PROVE  \E r \in Parent : Under(l, r, g)
    BY DEF Grounded
  <2>0. g \in Parent /\ g \in Node
    BY <1>1
  <2>1. CASE g = n
    BY <1>5, <2>0, <2>1
  <2>2. CASE g # n
    <3>1. \E r \in Parent : Under(kids, r, g)
      <4>1. CASE m = n
        <5>1. g = q /\ g # Root
          BY <1>1, <1>5, <2>0, <4>1
        <5> QED BY <5>1
      <4>2. CASE m # n
        <5>1. Under(kids, g, m)
          BY <1>5, <2>0, <4>2
        <5> QED BY <1>1, <5>1 DEF Grounded
      <4> QED BY <4>1, <4>2
    <3> QED BY <1>5, <2>0, <2>2, <3>1
  <2> QED BY <2>1, <2>2
<1>9. NoCircle(l)
  <2> SUFFICES ASSUME NEW S \in SUBSET Node, S # {}
               PROVE  \E m \in S : \A r \in Parent : Under(l, r, m) => r \notin S
    BY DEF NoCircle
  <2>1. CASE n \notin S
    <3>1. PICK m \in S : \A r \in Parent : Under(kids, r, m) => r \notin S
      BY <1>1 DEF NoCircle
    <3> QED BY <1>5, <2>1, <3>1
  <2>2. CASE n \in S /\ q \notin S
    BY <1>5, <2>2
  <2>3. CASE n \in S /\ q \in S
    <3>1. S \ Subtree(n) \in SUBSET Node /\ S \ Subtree(n) # {}
      BY <2>3
    <3>2. PICK m \in S \ Subtree(n) : \A r \in Parent : Under(kids, r, m) => r \notin S \ Subtree(n)
      BY <1>1, <3>1 DEF NoCircle
    <3>3. m # n /\ m \in Node
      BY <1>7, <3>2
    <3>4. ASSUME NEW r \in Parent, Under(l, r, m) PROVE r \notin S
      <4>1. Under(kids, r, m)
        BY <1>5, <3>3, <3>4
      <4>2. r \notin Subtree(n)
        BY <3>2, <3>3, <4>1, SubtreeClosed
      <4> QED BY <3>2, <4>1, <4>2
    <3> QED BY <3>2, <3>4
  <2> QED BY <2>1, <2>2, <2>3
<1>10. NamesApart(l, nx)
  <2>1. \A m \in Node : nx[m] = IF m = n THEN x ELSE nm[m]
    OBVIOUS
  <2> HIDE DEF nx
  <2>2. ASSUME NEW r \in Parent, NEW m \in Node, NEW o \in Node,
               Under(l, r, m), Under(l, r, o), nx[m] = nx[o]
        PROVE  m = o
    BY <1>1, <1>5, <2>1, <2>2 DEF NamesApart
  <2> QED BY <2>2 DEF NamesApart
<1>11. Present(l) = Present(kids)
  <2>1. \A m : m \in Present(l) <=> \E r \in Parent : Under(l, r, m)
    BY InPresent
  <2>2. \A m : m \in Present(kids) <=> \E r \in Parent : Under(kids, r, m)
    BY InPresent
  <2>3. \A m : (\E r \in Parent : Under(l, r, m)) \/ (\E r \in Parent : Under(kids, r, m)) => m \in Node
    BY <1>4, UnderNode
  <2> QED BY <1>5, <2>1, <2>2, <2>3
<1> QED BY <1>4, <1>6, <1>8, <1>9, <1>10, <1>11 DEF LiveTree, l, u

\* A node leaves the tree with everything below it.
LEMMA RemovedTree ==
    ASSUME kids \in Tree, NEW nm \in [Node -> Name], LiveTree(kids, nm),
           NEW p \in Parent, NEW n \in Node, Under(kids, p, n)
    PROVE  LET l == [q \in Parent |-> IF q \in Subtree(n) THEN << >> ELSE Unlinked(kids, p, n)[q]]
           IN  l \in Tree /\ LiveTree(l, nm) /\ Present(l) \subseteq Present(kids)
<1> DEFINE u == Unlinked(kids, p, n)
           l == [q \in Parent |-> IF q \in Subtree(n) THEN << >> ELSE u[q]]
<1>1. /\ OnePlace(kids) /\ Grounded(kids) /\ NoCircle(kids) /\ NamesApart(kids, nm)
      /\ Root \notin Node /\ Gallery \subseteq Node /\ Parent = Gallery \cup {Root}
  BY NodeAssumption DEF LiveTree, Node, Parent
<1>2. \A i, j \in DOMAIN kids[p] : kids[p][i] = kids[p][j] => i = j
  BY <1>1 DEF OnePlace
<1>3. /\ u \in Tree /\ \A r \in Parent \ {p} : u[r] = kids[r]
      /\ \A i, j \in DOMAIN u[p] : u[p][i] = u[p][j] => i = j
      /\ \A m : Under(u, p, m) <=> Under(kids, p, m) /\ m # n
  BY <1>2, UnlinkedDef
<1> HIDE DEF u
<1>4. l \in Tree
  <2>1. << >> \in Seq(Node)
    OBVIOUS
  <2> QED BY <1>3, <2>1 DEF Tree
<1>5. \A r \in Parent, m \in Node :
         Under(l, r, m) <=> r \notin Subtree(n) /\ m # n /\ Under(kids, r, m)
  <2>1. \A r \in Parent, m \in Node : Under(u, r, m) <=> Under(kids, r, m) /\ m # n
    <3>1. \A r \in Parent \ {p}, m \in Node : Under(u, r, m) <=> Under(kids, r, m)
      BY <1>3 DEF Under
    <3>2. \A r \in Parent \ {p} : ~Under(kids, r, n)
      BY <1>1 DEF OnePlace
    <3> QED BY <1>3, <3>1, <3>2
  <2>2. \A r \in Parent, m \in Node : Under(l, r, m) <=> r \notin Subtree(n) /\ Under(u, r, m)
    <3> SUFFICES ASSUME NEW r \in Parent, NEW m \in Node
                 PROVE  Under(l, r, m) <=> r \notin Subtree(n) /\ Under(u, r, m)
      OBVIOUS
    <3>1. CASE r \in Subtree(n)
      <4>1. l[r] = << >>
        BY <3>1
      <4> HIDE DEF l
      <4> QED BY <3>1, <4>1 DEF Under
    <3>2. CASE r \notin Subtree(n)
      <4>1. l[r] = u[r]
        BY <3>2
      <4> HIDE DEF l
      <4> QED BY <3>2, <4>1 DEF Under
    <3> QED BY <3>1, <3>2
  <2> QED BY <2>1, <2>2
<1>6. OnePlace(l)
  <2>1. ASSUME NEW r \in Parent PROVE \A i, j \in DOMAIN l[r] : l[r][i] = l[r][j] => i = j
    <3>1. \A i, j \in DOMAIN u[r] : u[r][i] = u[r][j] => i = j
      BY <1>1, <1>3 DEF OnePlace
    <3>2. l[r] = << >> \/ l[r] = u[r]
      OBVIOUS
    <3> HIDE DEF l
    <3> QED BY <3>1, <3>2
  <2> HIDE DEF l
  <2>2. \A r, t \in Parent, m \in Node : Under(l, r, m) /\ Under(l, t, m) => r = t
    BY <1>1, <1>5 DEF OnePlace
  <2> QED BY <2>1, <2>2 DEF OnePlace
<1> HIDE DEF l
<1>7. n \in Subtree(n) /\ \A r \in Parent, m \in Node : r \in Subtree(n) /\ Under(kids, r, m) => m \in Subtree(n)
  BY SubtreeClosed
<1>8. Grounded(l)
  <2> SUFFICES ASSUME NEW g \in Gallery, NEW m \in Node, Under(l, g, m)
               PROVE  \E r \in Parent : Under(l, r, g)
    BY DEF Grounded
  <2>1. g \in Parent /\ g \in Node /\ g \notin Subtree(n) /\ Under(kids, g, m)
    BY <1>1, <1>5
  <2>2. PICK r \in Parent : Under(kids, r, g)
    BY <1>1, <2>1 DEF Grounded
  <2> QED BY <1>5, <1>7, <2>1, <2>2
<1>9. NoCircle(l)
  BY <1>1, <1>5 DEF NoCircle
<1>10. NamesApart(l, nm)
  BY <1>1, <1>5 DEF NamesApart
<1>11. Present(l) \subseteq Present(kids)
  <2>1. ASSUME NEW m \in Present(l) PROVE m \in Present(kids)
    <3>1. PICK r \in Parent : Under(l, r, m)
      BY <2>1, InPresent
    <3>2. Under(kids, r, m)
      BY <1>4, <1>5, <3>1, UnderNode
    <3> QED BY <3>2, InPresent
  <2> QED BY <2>1
<1> QED BY <1>4, <1>6, <1>8, <1>9, <1>10, <1>11 DEF LiveTree, l, u

(***************************************************************************)
(* The table, and the tree that can be read back from it.                  *)
(***************************************************************************)

LEMMA FiniteMax ==
    ASSUME NEW S \in SUBSET Nat, S # {}, IsFiniteSet(S)
    PROVE  \E m \in S : \A i \in S : i <= m
<1> DEFINE Above(m) == {i \in S : i > m}
           T == {Above(m) : m \in S}
           R == StrictSubsetOrdering(S)
<1>1. T \subseteq SUBSET S /\ T # {}
  OBVIOUS
<1>2. IsWellFoundedOn(R, SUBSET S)
  BY FS_StrictSubsetOrderingWellFounded, FS_FiniteSubsetsOfFinite
<1>3. PICK t \in T : \A u \in T : ~(<<u, t>> \in R)
  <2> HIDE DEF T, R
  <2> QED BY <1>1, <1>2, WFMin, Zenon
<1>4. PICK m \in S : t = Above(m)
  BY <1>3
<1>5. ASSUME NEW i \in S, i > m PROVE FALSE
  <2>1. Above(i) \subseteq Above(m) /\ i \in Above(m) /\ i \notin Above(i)
    <3>1. i \in Nat /\ m \in Nat /\ \A j \in S : j \in Nat
      OBVIOUS
    <3>2. \A j \in S : j > i => j > m
      BY <1>5, <3>1
    <3>3. ~(i > i)
      BY <3>1
    <3>4. \A l, j : j \in Above(l) <=> j \in S /\ j > l
      OBVIOUS
    <3> HIDE DEF Above
    <3> QED BY <1>5, <3>2, <3>3, <3>4, Zenon
  <2>2. Above(i) \in T /\ Above(i) \in SUBSET S /\ Above(m) \in SUBSET S
    OBVIOUS
  <2> HIDE DEF T, Above
  <2>3. <<Above(i), Above(m)>> \in R
    BY <2>1, <2>2 DEF StrictSubsetOrdering
  <2> QED BY <1>3, <1>4, <2>2, <2>3
<1>6. \A i \in S : i <= m
  BY <1>5
<1> QED BY <1>6

\* A new row gets a rowid above every other's.
LEMMA NextRowidDef ==
    ASSUME NEW rs, IsFiniteSet(DOMAIN rs), \A n \in DOMAIN rs : rs[n].rowid \in Nat
    PROVE  NextRowid(rs) \in Nat /\ \A n \in DOMAIN rs : rs[n].rowid < NextRowid(rs)
<1>1. CASE DOMAIN rs = {}
  BY <1>1 DEF NextRowid
<1>2. CASE DOMAIN rs # {}
  <2> DEFINE I == {rs[n].rowid : n \in DOMAIN rs}
             f == [n \in DOMAIN rs |-> rs[n].rowid]
  <2>1. f \in Surjection(DOMAIN rs, I)
    BY DEF Surjection
  <2>2. IsFiniteSet(I)
    <3> HIDE DEF f, I
    <3> QED BY <2>1, FS_Surjection
  <2>3. I \in SUBSET Nat /\ I # {}
    BY <1>2
  <2>4. \E m \in I : \A i \in I : i <= m
    <3> HIDE DEF I
    <3> QED BY <2>2, <2>3, FiniteMax
  <2>5. \E m \in I : \A n \in DOMAIN rs : rs[n].rowid <= m
    BY <2>4
  <2> DEFINE c == CHOOSE m \in I : \A n \in DOMAIN rs : rs[n].rowid <= m
  <2>6. c \in I /\ \A n \in DOMAIN rs : rs[n].rowid <= c
    <3> HIDE DEF I
    <3> QED BY <2>5
  <2>7. NextRowid(rs) = 1 + c
    BY <1>2 DEF NextRowid
  <2> HIDE DEF c
  <2>8. c \in Nat
    BY <2>3, <2>6
  <2> QED BY <2>6, <2>7, <2>8
<1> QED BY <1>1, <1>2

\* The first j of distinct nodes are j.
LEMMA PrefixCount ==
    ASSUME NEW s \in Seq(Node), \A i, j \in DOMAIN s : s[i] = s[j] => i = j,
           NEW j \in 0 .. Len(s)
    PROVE  Cardinality({s[i] : i \in 1 .. j}) = j
<1> DEFINE S == {s[i] : i \in 1 .. j}
           f == [i \in 1 .. j |-> s[i]]
<1>1. j \in Nat /\ \A i \in 1 .. j : i \in DOMAIN s
  OBVIOUS
<1>2. f \in Bijection(1 .. j, S)
  <2>1. f \in [1 .. j -> S] /\ \A a, b \in 1 .. j : f[a] = f[b] => a = b
    BY <1>1
  <2>2. \A t \in S : \E i \in 1 .. j : f[i] = t
    OBVIOUS
  <2> QED BY <2>1, <2>2 DEF Bijection, Injection, Surjection, IsInjective
<1>3. ExistsBijection(1 .. j, S)
  BY <1>2 DEF ExistsBijection
<1> HIDE DEF S, f
<1> QED BY <1>1, <1>3, FS_CountingElements DEF S

\* The table a commit left is read back as the tree it mirrored.
LEMMA Reconstruct ==
    ASSUME NEW k \in Tree, NEW nm, LiveTree(k, nm), NEW rs, Mirrors(rs, k, nm), NEW p \in Parent
    PROVE  Ordered(rs, p) = k[p]
<1> DEFINE s == k[p]
           Sib == Siblings(rs, p)
           Before(n) == {m \in Sib : rs[m].order < rs[n].order}
<1>1. s \in Seq(Node) /\ DOMAIN s = 1 .. Len(s) /\ Len(s) \in Nat
  BY DEF Tree
<1>2. \A i \in 1 .. Len(s) : rs[s[i]].parent = p /\ rs[s[i]].order = i - 1 /\ s[i] \in DOMAIN rs
  BY <1>1, InPresent DEF Mirrors, Under
<1>3. \A i, j \in DOMAIN s : s[i] = s[j] => i = j
  BY DEF LiveTree, OnePlace
<1>4. ASSUME NEW n \in Sib PROVE \E i \in 1 .. Len(s) : n = s[i]
  <2>1. n \in DOMAIN rs /\ rs[n].parent = p
    BY DEF Siblings
  <2>2. PICK r \in Parent : Under(k, r, n)
    BY <2>1, InPresent DEF Mirrors
  <2>3. rs[n].parent = r
    BY <2>2 DEF Mirrors, Under
  <2> QED BY <1>1, <2>1, <2>2, <2>3 DEF Under
<1>5. Sib = {s[i] : i \in 1 .. Len(s)}
  <2>1. \A i \in 1 .. Len(s) : s[i] \in Sib
    BY <1>2 DEF Siblings
  <2> HIDE DEF Sib, s
  <2> QED BY <1>4, <2>1
<1> HIDE DEF s, Sib
<1>6. Cardinality(Sib) = Len(s)
  <2>1. Len(s) \in 0 .. Len(s)
    BY <1>1
  <2> QED BY <1>1, <1>3, <1>5, <2>1, PrefixCount
<1>7. ASSUME NEW j \in 1 .. Len(s) PROVE Cardinality(Before(s[j])) = j - 1
  <2>1. Before(s[j]) = {s[i] : i \in 1 .. j - 1}
    <3>1. ASSUME NEW i \in 1 .. Len(s) PROVE rs[s[i]].order < rs[s[j]].order <=> i <= j - 1
      BY <1>1, <1>2
    <3>2. ASSUME NEW n \in Before(s[j]) PROVE n \in {s[i] : i \in 1 .. j - 1}
      <4>1. PICK i \in 1 .. Len(s) : n = s[i]
        BY <1>4, <3>2
      <4>2. i \in 1 .. j - 1
        BY <1>1, <3>1, <3>2, <4>1
      <4> QED BY <4>1, <4>2
    <3>3. ASSUME NEW i \in 1 .. j - 1 PROVE s[i] \in Before(s[j])
      <4>1. i \in 1 .. Len(s) /\ i <= j - 1
        BY <1>1
      <4> QED BY <1>5, <3>1, <4>1
    <3> HIDE DEF Before
    <3> QED BY <3>2, <3>3
  <2>2. j - 1 \in 0 .. Len(s)
    BY <1>1
  <2> QED BY <1>1, <1>3, <2>1, <2>2, PrefixCount
<1>8. ASSUME NEW i \in 1 .. Len(s)
      PROVE  (CHOOSE n \in Sib : Cardinality(Before(n)) = i - 1) = s[i]
  <2>1. s[i] \in Sib /\ Cardinality(Before(s[i])) = i - 1
    BY <1>5, <1>7
  <2>2. ASSUME NEW n \in Sib, Cardinality(Before(n)) = i - 1 PROVE n = s[i]
    <3>1. PICK j \in 1 .. Len(s) : n = s[j]
      BY <1>4
    <3>2. j - 1 = i - 1
      BY <1>7, <2>2, <3>1
    <3> QED BY <1>1, <3>1, <3>2
  <2> HIDE DEF Before
  <2> QED BY <2>1, <2>2
<1>9. Ordered(rs, p) = [i \in 1 .. Len(s) |-> CHOOSE n \in Sib : Cardinality(Before(n)) = i - 1]
  BY <1>6 DEF Ordered, Sib
<1> HIDE DEF Before
<1>10. Ordered(rs, p) = [i \in 1 .. Len(s) |-> s[i]]
  BY <1>8, <1>9
<1> QED BY <1>1, <1>10 DEF s

\* Every committed table mirrors some live tree.
TableInv(rs) == \E k \in Tree, nm \in [Node -> Name] : LiveTree(k, nm) /\ Mirrors(rs, k, nm)

LEMMA TableTree ==
    ASSUME TableInv(rows) PROVE TableIsATree
<1>1. PICK k \in Tree, nm \in [Node -> Name] : LiveTree(k, nm) /\ Mirrors(rows, k, nm)
  BY DEF TableInv
<1>2. /\ OnePlace(k) /\ Grounded(k) /\ NoCircle(k) /\ NamesApart(k, nm)
      /\ Root \notin Node /\ Gallery \subseteq Node /\ Parent = Gallery \cup {Root}
  BY <1>1, NodeAssumption DEF LiveTree, Node, Parent
<1>3. ASSUME NEW n \in DOMAIN rows
      PROVE  /\ n \in Node /\ rows[n].parent \in Parent
             /\ \E i \in DOMAIN k[rows[n].parent] :
                   /\ k[rows[n].parent][i] = n /\ i \in Nat
                   /\ rows[n].order = i - 1 /\ rows[n].name = nm[n]
  <2>1. PICK p \in Parent : Under(k, p, n)
    BY <1>1, InPresent DEF Mirrors
  <2>2. PICK i \in DOMAIN k[p] : k[p][i] = n
    BY <2>1 DEF Under
  <2>3. i \in Nat
    BY <2>2 DEF Tree
  <2> QED BY <1>1, <2>1, <2>2, <2>3, UnderNode DEF Mirrors
<1>4. ASSUME NEW n \in DOMAIN rows PROVE rows[n].parent \in (DOMAIN rows \cap Gallery) \cup {Root}
  <2>1. rows[n].parent \in Parent /\ Under(k, rows[n].parent, n) /\ n \in Node
    BY <1>3 DEF Under
  <2>2. CASE rows[n].parent \in Gallery
    <3>1. \E p \in Parent : Under(k, p, rows[n].parent)
      BY <1>2, <2>1, <2>2 DEF Grounded
    <3> QED BY <1>1, <2>2, <3>1, InPresent DEF Mirrors
  <2> QED BY <1>2, <2>1, <2>2
<1>5. ASSUME NEW S \in SUBSET DOMAIN rows, S # {} PROVE \E n \in S : rows[n].parent \notin S
  <2>1. S \in SUBSET Node
    BY <1>3
  <2>2. PICK n \in S : \A p \in Parent : Under(k, p, n) => p \notin S
    BY <1>2, <1>5, <2>1 DEF NoCircle
  <2>3. rows[n].parent \in Parent /\ Under(k, rows[n].parent, n)
    BY <1>3 DEF Under
  <2> QED BY <2>2, <2>3
<1>6. ASSUME NEW n \in DOMAIN rows PROVE ~Clashes(rows, n, rows[n])
  <2> SUFFICES ASSUME NEW m \in DOMAIN rows \ {n}, rows[m].parent = rows[n].parent,
                      rows[m].name = rows[n].name \/ rows[m].order = rows[n].order
               PROVE  FALSE
    BY DEF Clashes
  <2> DEFINE p == rows[n].parent
  <2>1. p \in Parent /\ n \in Node /\ m \in Node
    BY <1>3
  <2>2. PICK i \in DOMAIN k[p] : k[p][i] = n /\ i \in Nat /\ rows[n].order = i - 1 /\ rows[n].name = nm[n]
    BY <1>3
  <2>3. PICK j \in DOMAIN k[p] : k[p][j] = m /\ j \in Nat /\ rows[m].order = j - 1 /\ rows[m].name = nm[m]
    BY <1>3
  <2> HIDE DEF p
  <2>4. CASE rows[m].name = rows[n].name
    <3>1. Under(k, p, n) /\ Under(k, p, m) /\ nm[n] = nm[m] /\ n # m
      BY <2>2, <2>3, <2>4 DEF Under
    <3> QED BY <1>2, <2>1, <3>1 DEF NamesApart
  <2>5. CASE rows[m].order = rows[n].order
    <3>1. i = j
      BY <2>2, <2>3, <2>5
    <3> QED BY <2>2, <2>3, <3>1
  <2> QED BY <2>4, <2>5
<1> QED BY <1>4, <1>5, <1>6 DEF TableIsATree

\* l visits what s visits and then the rest of w, each place once if they do.
Joined(l, s, w) ==
    /\ \A j \in DOMAIN l : (\E i \in DOMAIN s : l[j] = s[i]) \/ \E i \in DOMAIN w \ {1} : l[j] = w[i]
    /\ \A i \in DOMAIN s : \E j \in DOMAIN l : l[j] = s[i]
    /\ \A i \in DOMAIN w \ {1} : \E j \in DOMAIN l : l[j] = w[i]
    /\ /\ \A i, j \in DOMAIN s : s[i].node = s[j].node => i = j
       /\ \A i, j \in DOMAIN w : w[i].node = w[j].node => i = j
       /\ \A i \in DOMAIN s, j \in DOMAIN w \ {1} : s[i].node # w[j].node
       => \A i, j \in DOMAIN l : l[i].node = l[j].node => i = j

\* What the walk has still to visit after the next node, its children first.
LEMMA WalkDef ==
    ASSUME NEW w \in Seq(Visit), w # << >>, NEW s \in Seq(Visit)
    PROVE  s \o Tail(w) \in Seq(Visit) /\ Joined(s \o Tail(w), s, w)
<1> DEFINE t == Tail(w)
           l == s \o t
           N == Len(s)
           M == Len(w)
<1>1. /\ t \in Seq(Visit) /\ DOMAIN w = 1 .. M /\ M \in Nat /\ M >= 1
      /\ Len(t) = M - 1 /\ \A i \in 1 .. M - 1 : t[i] = w[i + 1]
  BY HeadTailProperties
<1>2. DOMAIN s = 1 .. N /\ N \in Nat
  OBVIOUS
<1> HIDE DEF t
<1>3. /\ l \in Seq(Visit) /\ Len(l) = N + Len(t)
      /\ \A i \in 1 .. N + Len(t) : l[i] = IF i <= N THEN s[i] ELSE t[i - N]
  BY <1>1, ConcatProperties
<1>4. DOMAIN l = 1 .. N + (M - 1)
  BY <1>1, <1>3
<1> HIDE DEF l, N, M
<1>5. ASSUME NEW j \in 1 .. N + (M - 1)
      PROVE  \/ j \in 1 .. N /\ l[j] = s[j]
             \/ j - N + 1 \in 2 .. M /\ l[j] = w[j - N + 1]
  <2>1. CASE j <= N
    BY <1>1, <1>2, <1>3, <2>1
  <2>2. CASE j > N
    <3>1. j - N \in 1 .. M - 1
      BY <1>1, <1>2, <2>2
    <3>2. l[j] = t[j - N]
      BY <1>1, <1>2, <1>3, <2>2
    <3> QED BY <1>1, <1>2, <3>1, <3>2
  <2> QED BY <1>2, <2>1, <2>2
<1>6. ASSUME NEW i \in 2 .. M PROVE N + i - 1 \in 1 .. N + (M - 1) /\ l[N + i - 1] = w[i]
  <2>1. N + i - 1 \in 1 .. N + (M - 1) /\ ~(N + i - 1 <= N) /\ i - 1 \in 1 .. M - 1 /\ (N + i - 1) - N = i - 1
    BY <1>1, <1>2
  <2>2. l[N + i - 1] = t[i - 1]
    BY <1>1, <1>3, <2>1
  <2> QED BY <1>1, <2>1, <2>2
<1>7. DOMAIN w \ {1} = 2 .. M
  BY <1>1
<1>8. ASSUME NEW i \in 1 .. N PROVE i \in 1 .. N + (M - 1) /\ l[i] = s[i]
  BY <1>1, <1>2, <1>3
<1>9. ASSUME \A i, j \in DOMAIN s : s[i].node = s[j].node => i = j,
             \A i, j \in DOMAIN w : w[i].node = w[j].node => i = j,
             \A i \in DOMAIN s, j \in DOMAIN w \ {1} : s[i].node # w[j].node,
             NEW i \in DOMAIN l, NEW j \in DOMAIN l, l[i].node = l[j].node
      PROVE  i = j
  <2>1. \/ i \in 1 .. N /\ l[i] = s[i]
        \/ i - N + 1 \in 2 .. M /\ l[i] = w[i - N + 1]
    BY <1>4, <1>5
  <2>2. \/ j \in 1 .. N /\ l[j] = s[j]
        \/ j - N + 1 \in 2 .. M /\ l[j] = w[j - N + 1]
    BY <1>4, <1>5
  <2>3. i \in Nat /\ j \in Nat
    BY <1>1, <1>2, <1>4
  <2>4. CASE i \in 1 .. N /\ l[i] = s[i] /\ j \in 1 .. N /\ l[j] = s[j]
    BY <1>2, <1>9, <2>4
  <2>5. CASE i - N + 1 \in 2 .. M /\ l[i] = w[i - N + 1] /\ j - N + 1 \in 2 .. M /\ l[j] = w[j - N + 1]
    <3>1. i - N + 1 = j - N + 1
      BY <1>7, <1>9, <2>5
    <3> QED BY <1>2, <2>3, <3>1
  <2>6. ~(i \in 1 .. N /\ l[i] = s[i] /\ j - N + 1 \in 2 .. M /\ l[j] = w[j - N + 1])
    BY <1>2, <1>7, <1>9
  <2>7. ~(j \in 1 .. N /\ l[j] = s[j] /\ i - N + 1 \in 2 .. M /\ l[i] = w[i - N + 1])
    BY <1>2, <1>7, <1>9
  <2> QED BY <2>1, <2>2, <2>4, <2>5, <2>6, <2>7
<1>10. \A j \in DOMAIN l : (\E i \in DOMAIN s : l[j] = s[i]) \/ \E i \in DOMAIN w \ {1} : l[j] = w[i]
  BY <1>2, <1>4, <1>5, <1>7
<1>11. \A i \in DOMAIN s : \E j \in DOMAIN l : l[j] = s[i]
  BY <1>2, <1>4, <1>8
<1>12. \A i \in DOMAIN w \ {1} : \E j \in DOMAIN l : l[j] = w[i]
  BY <1>4, <1>6, <1>7
<1>13. Joined(l, s, w)
  BY <1>9, <1>10, <1>11, <1>12 DEF Joined
<1> QED BY <1>3, <1>13 DEF l, t

(***************************************************************************)
(* The inductive invariant. While a transaction runs, the nodes written    *)
(* (live) and the nodes still to visit (walk) grow down from the root      *)
(* without meeting, and every row is either the mirror of a live node or a *)
(* row the last commit left, with its name and order vacated.              *)
(***************************************************************************)

\* What is still to visit is where the walk says, once, below a written node.
WalkInv ==
    /\ \A j \in DOMAIN walk :
          /\ walk[j].order + 1 \in DOMAIN kids[walk[j].parent]
          /\ kids[walk[j].parent][walk[j].order + 1] = walk[j].node
          /\ walk[j].node \notin live /\ walk[j].parent \in live \cup {Root}
    /\ \A i, j \in DOMAIN walk : walk[i].node = walk[j].node => i = j

\* A written node's children are written or still to visit, and its gallery is
\* written.
LiveInv ==
    /\ \A p \in Parent, n \in Node :
          p \in live \cup {Root} /\ Under(kids, p, n) =>
              n \in live \/ \E j \in DOMAIN walk : walk[j].node = n
    /\ \A p \in Parent, n \in live : Under(kids, p, n) => p \in live \cup {Root}

\* The table as the transaction sees it.
ViewInv ==
    /\ live \subseteq DOMAIN view
    /\ \A p \in Parent : \A i \in DOMAIN kids[p] :
          kids[p][i] \in live =>
              /\ view[kids[p][i]].parent = p /\ view[kids[p][i]].order = i - 1
              /\ view[kids[p][i]].name = name[kids[p][i]]
    /\ \A n \in DOMAIN view \ live :
          /\ n \in DOMAIN rows /\ view[n].parent = rows[n].parent
          /\ view[n].name = n /\ view[n].order = rows[n].order + Shift
    /\ \A n \in DOMAIN view \cap DOMAIN rows : view[n].rowid = rows[n].rowid
    /\ DOMAIN rows \subseteq DOMAIN view \/ walk = << >>

CommitInv == LiveTree(kids, undo) /\ WalkInv /\ LiveInv /\ ViewInv

Inv ==
    /\ TypeOK /\ LiveTree(kids, name) /\ TableInv(rows)
    /\ OkMeansMirrored /\ RefusesOnlyRemovals
    /\ phase = "commit" => CommitInv
    /\ phase # "commit" => live = {}

\* The new vault: an empty tree and an empty table.
LEMMA InvInit == Init => Inv
<1> SUFFICES ASSUME Init PROVE Inv
  OBVIOUS
<1>1. /\ kids = [p \in Parent |-> << >>] /\ kids \in Tree
      /\ name \in [Node -> Name] /\ undo = name
      /\ rows = << >> /\ DOMAIN rows = {} /\ view = << >> /\ live = {} /\ walk = << >>
      /\ used = {} /\ phase = "ready" /\ result = "ok" /\ faults = 0
  <2>1. (CHOOSE nm \in Name : TRUE) \in Name
    BY NameAssumption
  <2>2. << >> \in Seq(Node)
    OBVIOUS
  <2> QED BY <2>1, <2>2 DEF Init, Tree
<1>2. \A p \in Parent : \A n : ~Under(kids, p, n)
  BY <1>1 DEF Under
<1>3. Present(kids) = {}
  BY <1>2, InPresent
<1>4. LiveTree(kids, name)
  <2>1. OnePlace(kids)
    BY <1>1, <1>2 DEF OnePlace
  <2>2. Grounded(kids) /\ NamesApart(kids, name)
    BY <1>2, NodeAssumption DEF Grounded, NamesApart, Parent
  <2>3. NoCircle(kids)
    BY <1>2 DEF NoCircle
  <2> QED BY <2>1, <2>2, <2>3 DEF LiveTree
<1>5. Mirrors(rows, kids, name)
  BY <1>1, <1>3 DEF Mirrors
<1>6. TypeOK
  <2>1. Table(rows) /\ Table(view)
    BY <1>1 DEF Table
  <2>2. walk \in Seq([node : Node, parent : Parent, order : Nat])
    BY <1>1
  <2>3. 0 \in 0 .. MaxFaults
    BY FaultsAssumption
  <2> QED BY <1>1, <1>3, <2>1, <2>2, <2>3 DEF TypeOK, Tree
<1> QED BY <1>1, <1>4, <1>5, <1>6 DEF Inv, TableInv, OkMeansMirrored, RefusesOnlyRemovals

Vacated(r, n) == [r EXCEPT !.name = n, !.order = @ + Shift]

LEMMA VacatedRow ==
    ASSUME NEW r \in Row, NEW n \in Node
    PROVE  /\ Vacated(r, n) \in Row /\ Vacated(r, n).parent = r.parent /\ Vacated(r, n).name = n
           /\ Vacated(r, n).order = r.order + Shift /\ Vacated(r, n).rowid = r.rowid
<1> DEFINE o == r.order + Shift
           v == [r EXCEPT !.name = n, !.order = o]
<1>1. o \in Nat
  BY ShiftNat DEF Row
<1> HIDE DEF o
<1>2. Vacated(r, n) = v
  BY DEF o, Vacated
<1>3. /\ v \in Row /\ v.parent = r.parent /\ v.name = n
      /\ v.order = o /\ v.rowid = r.rowid
  BY <1>1 DEF Row
<1> HIDE DEF v
<1> QED BY <1>2, <1>3 DEF o

\* A transaction begins for a live tree: everything is vacated, nothing written.
LEMMA BeginStep ==
    ASSUME Inv, kids' \in Tree, name' \in [Node -> Name], undo' \in [Node -> Name],
           used \subseteq used', used' \subseteq Node, Present(kids') \subseteq used',
           LiveTree(kids', name'), LiveTree(kids', undo'),
           phase' = "commit", view' = Vacate(rows), live' = {}, walk' = Visits(kids', Root),
           result' = "none", UNCHANGED <<rows, faults>>
    PROVE  Inv'
<1>1. /\ Table(rows) /\ faults' \in 0 .. MaxFaults /\ \A n \in DOMAIN rows : rows[n].name \in Name
      /\ Root \in Parent /\ Root \notin Node /\ used \subseteq Node
  BY NodeAssumption DEF Inv, TypeOK, Parent
<1>2. /\ DOMAIN view' = DOMAIN rows
      /\ \A n \in DOMAIN rows :
            /\ view'[n] = Vacated(rows[n], n)
            /\ n \in Node /\ rows[n] \in Row
  BY <1>1 DEF Vacate, Vacated, Table
<1>3. \A n \in DOMAIN rows :
         /\ view'[n] \in Row /\ view'[n].parent = rows[n].parent /\ view'[n].name = n
         /\ view'[n].order = rows[n].order + Shift /\ view'[n].rowid = rows[n].rowid
  BY <1>2, VacatedRow
<1>4. /\ walk' \in Seq(Visit) /\ DOMAIN walk' = DOMAIN kids'[Root]
      /\ \A i \in DOMAIN kids'[Root] :
            walk'[i].node = kids'[Root][i] /\ walk'[i].parent = Root /\ walk'[i].order = i - 1
  BY <1>1, VisitsDef
<1>5. TypeOK'
  <2>1. Table(rows)' /\ Table(view)'
    BY <1>1, <1>2, <1>3 DEF Table
  <2>2. walk' \in Seq([node : Node, parent : Parent, order : Nat])
    BY <1>4 DEF Visit
  <2> QED BY <1>1, <2>1, <2>2 DEF TypeOK, Tree
<1>6. WalkInv'
  <2>1. \A i \in DOMAIN kids'[Root] : i - 1 + 1 = i
    BY <1>1 DEF Tree
  <2>2. \A i, j \in DOMAIN kids'[Root] : kids'[Root][i] = kids'[Root][j] => i = j
    BY <1>1 DEF LiveTree, OnePlace
  <2> QED BY <1>4, <2>1, <2>2 DEF WalkInv
<1>7. LiveInv'
  BY <1>1, <1>4 DEF LiveInv, Under
<1>8. ViewInv'
  BY <1>2, <1>3 DEF ViewInv
<1>9. TableInv(rows)' /\ OkMeansMirrored' /\ RefusesOnlyRemovals'
  <2>1. rows' = rows
    OBVIOUS
  <2> QED BY <2>1 DEF Inv, TableInv, OkMeansMirrored, RefusesOnlyRemovals
<1> QED BY <1>5, <1>6, <1>7, <1>8, <1>9 DEF Inv, CommitInv

(***************************************************************************)
(* The steps of the transaction.                                           *)
(***************************************************************************)

\* ROLLBACK: the table is as the last commit left it, the names as the edit
\* restores them.
LEMMA RollbackStep ==
    ASSUME Inv, phase = "commit", NEW r \in {"refused", "failed"}, End(r, rows),
           faults' \in 0 .. MaxFaults, r = "refused" => Stuck # {}
    PROVE  Inv'
<1>1. /\ phase' = "ready" /\ result' = r /\ rows' = rows /\ view' = rows /\ live' = {}
      /\ walk' = << >> /\ name' = undo /\ undo' = undo /\ kids' = kids /\ used' = used
  BY DEF End
<1>2. TypeOK /\ LiveTree(kids, undo) /\ TableInv(rows)
  BY DEF Inv, CommitInv
<1>3. TypeOK'
  <2>1. Table(rows)' /\ Table(view)'
    BY <1>1, <1>2 DEF TypeOK, Table
  <2>2. Present(kids') \subseteq used'
    BY <1>1, <1>2 DEF TypeOK
  <2>3. walk' \in Seq([node : Node, parent : Parent, order : Nat])
    BY <1>1
  <2> QED BY <1>1, <1>2, <2>1, <2>2, <2>3 DEF TypeOK
<1>4. LiveTree(kids, name)'
  BY <1>1, <1>2
<1>5. TableInv(rows)' /\ OkMeansMirrored'
  BY <1>1, <1>2 DEF TableInv, OkMeansMirrored
<1>6. RefusesOnlyRemovals'
  <2>1. Stuck' = Stuck
    BY <1>1 DEF Stuck
  <2> QED BY <1>1, <2>1 DEF RefusesOnlyRemovals
<1> QED BY <1>1, <1>3, <1>4, <1>5, <1>6 DEF Inv

\* When nothing is left to visit every node of the tree is written.
LEMMA AllVisited ==
    ASSUME Inv, phase = "commit", walk = << >>
    PROVE  live = Present(kids)
<1>1. /\ LiveInv /\ Grounded(kids) /\ NoCircle(kids) /\ kids \in Tree
      /\ live \subseteq Present(kids) /\ Root \notin Node /\ Parent = Gallery \cup {Root}
  BY NodeAssumption DEF Inv, CommitInv, LiveTree, TypeOK, Tree, Parent
<1>2. SUFFICES ASSUME Present(kids) \ live # {} PROVE FALSE
  BY <1>1
<1>3. Present(kids) \subseteq Node
  BY <1>1, InPresent, UnderNode
<1>4. PICK n \in Present(kids) \ live : \A p \in Parent : Under(kids, p, n) => p \notin Present(kids) \ live
  <2>1. Present(kids) \ live \in SUBSET Node
    BY <1>3
  <2> QED BY <1>1, <1>2, <2>1 DEF NoCircle
<1>5. PICK p \in Parent : Under(kids, p, n)
  BY <1>4, InPresent
<1>6. p \in live \cup {Root}
  <2>1. CASE p \in Gallery
    <3>1. p \in Present(kids)
      BY <1>1, <1>3, <1>4, <1>5, <2>1, InPresent DEF Grounded
    <3> QED BY <1>4, <1>5, <3>1
  <2> QED BY <1>1, <2>1
<1>7. n \in Node /\ n \notin live
  BY <1>3, <1>4
<1> QED BY <1>1, <1>5, <1>6, <1>7 DEF LiveInv

\* What a row that is about to be written would have to clash with.
LEMMA NoClash ==
    ASSUME Inv, phase = "commit", walk # << >>
    PROVE  LET v == Head(walk)
           IN  ~Clashes(view, v.node, [parent |-> v.parent, name |-> name[v.node], order |-> v.order])
<1> DEFINE v == Head(walk)
           row == [parent |-> v.parent, name |-> name[v.node], order |-> v.order]
<1>1. /\ v \in Visit /\ v.order + 1 \in DOMAIN kids[v.parent]
      /\ kids[v.parent][v.order + 1] = v.node
  <2>1. walk \in Seq(Visit)
    BY DEF Inv, TypeOK, Visit
  <2>2. v = walk[1] /\ 1 \in DOMAIN walk /\ v \in Visit
    BY <2>1
  <2> QED BY <2>2 DEF Inv, CommitInv, WalkInv
<1> HIDE DEF v
<1>2. v.node \in Node /\ v.parent \in Parent /\ v.order \in Nat
  BY <1>1 DEF Visit
<1>3. /\ kids \in Tree /\ name \in [Node -> Name] /\ live \subseteq Present(kids)
      /\ LiveTree(kids, name) /\ ViewInv /\ Table(rows) /\ Table(view)
  BY DEF Inv, CommitInv, TypeOK, Tree
<1>4. v.order < Shift
  <2>1. kids[v.parent] \in Seq(Node) /\ \A i, j \in DOMAIN kids[v.parent] :
           kids[v.parent][i] = kids[v.parent][j] => i = j
    BY <1>2, <1>3 DEF LiveTree, OnePlace, Tree
  <2>2. Len(kids[v.parent]) < Shift /\ Len(kids[v.parent]) \in Nat
    BY <2>1, LenBound
  <2>3. v.order + 1 <= Len(kids[v.parent])
    BY <1>1, <2>1
  <2> QED BY <1>2, <2>2, <2>3, ShiftNat
<1>5. SUFFICES ASSUME NEW m \in DOMAIN view \ {v.node}, view[m].parent = v.parent,
                      view[m].name = name[v.node] \/ view[m].order = v.order
               PROVE  FALSE
  <2>1. row.parent = v.parent /\ row.name = name[v.node] /\ row.order = v.order
    OBVIOUS
  <2> HIDE DEF row
  <2> QED BY <2>1 DEF Clashes, v, row
<1>6. Under(kids, v.parent, v.node)
  BY <1>1 DEF Under
<1>7. CASE m \in live
  <2>1. PICK p \in Parent : Under(kids, p, m)
    BY <1>3, <1>7, InPresent
  <2>2. PICK i \in DOMAIN kids[p] : kids[p][i] = m
    BY <2>1 DEF Under
  <2>3. p = v.parent /\ view[m].order = i - 1 /\ view[m].name = name[m]
    BY <1>3, <1>5, <1>7, <2>2 DEF ViewInv
  <2>4. i \in Nat /\ m \in Node
    BY <1>3, <2>1, <2>2, UnderNode DEF Tree
  <2>5. CASE view[m].name = name[v.node]
    BY <1>2, <1>3, <1>6, <2>1, <2>3, <2>4, <2>5 DEF LiveTree, NamesApart
  <2>6. CASE view[m].order = v.order
    <3>1. i = v.order + 1
      BY <1>2, <2>3, <2>4, <2>6
    <3> QED BY <1>1, <1>5, <2>2, <2>3, <3>1
  <2> QED BY <1>5, <2>5, <2>6
<1>8. CASE m \notin live
  <2>1. m \in DOMAIN rows /\ view[m].name = m /\ view[m].order = rows[m].order + Shift
    BY <1>3, <1>5, <1>8 DEF ViewInv
  <2>2. m \in Node /\ rows[m].order \in Nat
    BY <1>3, <2>1 DEF Inv, TypeOK, Table, Row
  <2>3. view[m].name # name[v.node]
    BY <1>2, <1>3, <2>1, <2>2, NameAssumption
  <2>4. view[m].order # v.order
    BY <1>2, <1>4, <2>1, <2>2, ShiftNat
  <2> QED BY <1>5, <2>3, <2>4
<1> QED BY <1>7, <1>8

\* One row written: the others stay, an existing one keeps its rowid.
LEMMA UpsertDef ==
    ASSUME TypeOK, NEW v \in Visit, v.node \in used
    PROVE  LET u == Upsert(view, v, name)
           IN  /\ Table(u) /\ DOMAIN u = DOMAIN view \cup {v.node}
               /\ \A m \in DOMAIN view \ {v.node} : u[m] = view[m]
               /\ u[v.node].parent = v.parent /\ u[v.node].order = v.order
               /\ u[v.node].name = name[v.node]
               /\ v.node \in DOMAIN view => u[v.node].rowid = view[v.node].rowid
<1> DEFINE u == Upsert(view, v, name)
           id == IF v.node \in DOMAIN view THEN view[v.node].rowid ELSE NextRowid(view)
           row == [parent |-> v.parent, name |-> name[v.node], order |-> v.order, rowid |-> id]
<1>1. /\ DOMAIN view \subseteq used /\ \A n \in DOMAIN view : view[n] \in Row /\ view[n].rowid \in Nat
      /\ \A n, m \in DOMAIN view : view[n].rowid = view[m].rowid => n = m
      /\ v.node \in Node /\ v.parent \in Parent /\ v.order \in Nat /\ name[v.node] \in Name
  BY DEF TypeOK, Table, Row, Visit
<1>2. NextRowid(view) \in Nat /\ \A n \in DOMAIN view : view[n].rowid < NextRowid(view)
  <2>1. DOMAIN view \in SUBSET Node
    BY <1>1 DEF TypeOK
  <2>2. IsFiniteSet(DOMAIN view)
    BY <2>1, FS_Subset, NodeAssumption
  <2> QED BY <1>1, <2>2, NextRowidDef
<1>3. id \in Nat /\ \A n \in DOMAIN view \ {v.node} : view[n].rowid # id
  <2>1. CASE v.node \in DOMAIN view
    BY <1>1, <2>1
  <2>2. CASE v.node \notin DOMAIN view
    <3>1. id = NextRowid(view)
      BY <2>2
    <3> HIDE DEF id
    <3> QED BY <1>1, <1>2, <3>1
  <2> QED BY <2>1, <2>2
<1>4. /\ DOMAIN u = DOMAIN view \cup {v.node}
      /\ \A m \in DOMAIN view \ {v.node} : u[m] = view[m]
      /\ u[v.node] = row
  BY DEF Upsert
<1>5. v.node \in DOMAIN view => id = view[v.node].rowid
  OBVIOUS
<1> HIDE DEF u, id
<1>6. /\ row \in Row /\ row.parent = v.parent /\ row.order = v.order
      /\ row.name = name[v.node] /\ row.rowid = id
  BY <1>1, <1>3 DEF Row
<1> HIDE DEF row
<1>7. Table(u)
  <2>1. DOMAIN u \subseteq used
    BY <1>1, <1>4
  <2>2. \A n \in DOMAIN u : u[n] \in Row
    BY <1>1, <1>4, <1>6
  <2>3. \A n, m \in DOMAIN u : u[n].rowid = u[m].rowid => n = m
    BY <1>1, <1>3, <1>4, <1>6
  <2> QED BY <2>1, <2>2, <2>3 DEF Table
<1> QED BY <1>4, <1>5, <1>6, <1>7 DEF u

\* store_one: the next node is written and its children are to visit.
LEMMA StoreStep == Inv /\ StoreNode => Inv'
<1> SUFFICES ASSUME Inv, StoreNode PROVE Inv'
  OBVIOUS
<1> DEFINE v == Head(walk)
           s == Visits(kids, v.node)
<1>1. /\ TypeOK /\ phase = "commit" /\ walk # << >> /\ walk \in Seq(Visit) /\ kids \in Tree
      /\ LiveTree(kids, name) /\ LiveTree(kids, undo) /\ WalkInv /\ LiveInv /\ ViewInv
      /\ Root \notin Node /\ Gallery \subseteq Node /\ Parent = Gallery \cup {Root}
  BY NodeAssumption DEF Inv, CommitInv, TypeOK, Tree, Visit, StoreNode, Node, Parent
<1>2. v = walk[1] /\ 1 \in DOMAIN walk /\ v \in Visit
  BY <1>1
<1>3. /\ v.order + 1 \in DOMAIN kids[v.parent] /\ kids[v.parent][v.order + 1] = v.node
      /\ v.node \notin live /\ v.parent \in live \cup {Root}
  BY <1>1, <1>2 DEF WalkInv
<1>4. /\ live' = live \cup {v.node} /\ view' = Upsert(view, v, name)
      /\ walk' = s \o Tail(walk)
      /\ kids' = kids /\ name' = name /\ used' = used /\ rows' = rows /\ undo' = undo
      /\ phase' = phase /\ result' = result /\ faults' = faults
  <2>1. ~Clashes(view, v.node, [parent |-> v.parent, name |-> name[v.node], order |-> v.order])
    BY <1>1, NoClash
  <2> QED BY <1>3, <2>1 DEF StoreNode, tree
<1> HIDE DEF v
<1>5. v.node \in Node /\ v.parent \in Parent /\ v.order \in Nat
  BY <1>2 DEF Visit
<1>6. Under(kids, v.parent, v.node)
  BY <1>3 DEF Under
<1>7. v.node \in Present(kids) /\ v.node \in used
  BY <1>1, <1>5, <1>6, InPresent DEF TypeOK
<1>8. /\ Table(view') /\ DOMAIN view' = DOMAIN view \cup {v.node}
      /\ \A m \in DOMAIN view \ {v.node} : view'[m] = view[m]
      /\ view'[v.node].parent = v.parent /\ view'[v.node].order = v.order
      /\ view'[v.node].name = name[v.node]
      /\ v.node \in DOMAIN view => view'[v.node].rowid = view[v.node].rowid
  BY <1>1, <1>2, <1>4, <1>7, UpsertDef
<1>9. /\ s \in Seq(Visit)
      /\ v.node \in Parent => /\ DOMAIN s = DOMAIN kids[v.node]
                              /\ \A i \in DOMAIN kids[v.node] :
                                    s[i].node = kids[v.node][i] /\ s[i].parent = v.node /\ s[i].order = i - 1
      /\ v.node \notin Parent => s = << >>
  BY <1>1, <1>5, VisitsDef
<1> HIDE DEF s
<1>10. \A i \in DOMAIN s : /\ v.node \in Parent /\ i \in DOMAIN kids[v.node] /\ i \in Nat
                           /\ s[i].node = kids[v.node][i] /\ s[i].parent = v.node /\ s[i].order = i - 1
                           /\ Under(kids, v.node, s[i].node) /\ s[i].node \in Node
  <2> SUFFICES ASSUME NEW i \in DOMAIN s
               PROVE  /\ v.node \in Parent /\ i \in DOMAIN kids[v.node] /\ i \in Nat
                      /\ s[i].node = kids[v.node][i] /\ s[i].parent = v.node /\ s[i].order = i - 1
                      /\ Under(kids, v.node, s[i].node) /\ s[i].node \in Node
    OBVIOUS
  <2>1. v.node \in Parent /\ i \in Nat
    BY <1>9
  <2>2. /\ i \in DOMAIN kids[v.node]
        /\ s[i].node = kids[v.node][i] /\ s[i].parent = v.node /\ s[i].order = i - 1
    BY <1>9, <2>1
  <2>3. Under(kids, v.node, s[i].node)
    BY <2>2 DEF Under
  <2> QED BY <1>1, <2>1, <2>2, <2>3, UnderNode
<1>11. walk' \in Seq(Visit) /\ Joined(walk', s, walk)
  BY <1>1, <1>4, <1>9, WalkDef
<1>12. \A i \in DOMAIN walk : /\ walk[i].parent \in Parent /\ walk[i].node \in Node
                              /\ Under(kids, walk[i].parent, walk[i].node)
  <2> SUFFICES ASSUME NEW i \in DOMAIN walk
               PROVE  /\ walk[i].parent \in Parent /\ walk[i].node \in Node
                      /\ Under(kids, walk[i].parent, walk[i].node)
    OBVIOUS
  <2>1. walk[i] \in Visit
    BY <1>1
  <2> QED BY <1>1, <2>1 DEF WalkInv, Under, Visit
<1>13. WalkInv'
  <2>1. ASSUME NEW i \in DOMAIN s
        PROVE  /\ s[i].order + 1 \in DOMAIN kids[s[i].parent] /\ kids[s[i].parent][s[i].order + 1] = s[i].node
               /\ s[i].node \notin live' /\ s[i].parent \in live' \cup {Root}
    <3>1. s[i].order + 1 = i
      BY <1>10
    <3>2. s[i].node # v.node
      <4>1. ASSUME s[i].node = v.node PROVE FALSE
        <5>1. Under(kids, v.node, v.node) /\ v.node \in Parent
          BY <1>10, <4>1
        <5>2. {v.node} \in SUBSET Node /\ {v.node} # {}
          BY <1>5
        <5>3. \E n \in {v.node} : \A p \in Parent : Under(kids, p, n) => p \notin {v.node}
          BY <1>1, <5>2 DEF LiveTree, NoCircle
        <5> QED BY <5>1, <5>3
      <4> QED BY <4>1
    <3>3. s[i].node \notin live
      BY <1>1, <1>3, <1>5, <1>10 DEF LiveInv
    <3> QED BY <1>4, <1>10, <3>1, <3>2, <3>3
  <2>2. ASSUME NEW i \in DOMAIN walk \ {1}
        PROVE  /\ walk[i].order + 1 \in DOMAIN kids[walk[i].parent]
               /\ kids[walk[i].parent][walk[i].order + 1] = walk[i].node
               /\ walk[i].node \notin live' /\ walk[i].parent \in live' \cup {Root}
    <3>1. walk[i].node # v.node
      BY <1>1, <1>2 DEF WalkInv
    <3> QED BY <1>1, <1>4, <3>1 DEF WalkInv
  <2>3. \A i, j \in DOMAIN s : s[i].node = s[j].node => i = j
    BY <1>1, <1>10 DEF LiveTree, OnePlace
  <2>4. \A i \in DOMAIN s, j \in DOMAIN walk \ {1} : s[i].node # walk[j].node
    <3> SUFFICES ASSUME NEW i \in DOMAIN s, NEW j \in DOMAIN walk \ {1}, s[i].node = walk[j].node
                 PROVE  FALSE
      OBVIOUS
    <3>1. walk[j].parent = v.node
      BY <1>1, <1>10, <1>12 DEF LiveTree, OnePlace
    <3> QED BY <1>1, <1>3, <1>5, <3>1 DEF WalkInv
  <2>5. \A i, j \in DOMAIN walk' : walk'[i].node = walk'[j].node => i = j
    BY <1>1, <1>11, <2>3, <2>4 DEF WalkInv, Joined
  <2>6. ASSUME NEW j \in DOMAIN walk'
        PROVE  /\ walk'[j].order + 1 \in DOMAIN kids[walk'[j].parent]
               /\ kids[walk'[j].parent][walk'[j].order + 1] = walk'[j].node
               /\ walk'[j].node \notin live' /\ walk'[j].parent \in live' \cup {Root}
    <3>1. CASE \E i \in DOMAIN s : walk'[j] = s[i]
      BY <2>1, <3>1
    <3>2. CASE \E i \in DOMAIN walk \ {1} : walk'[j] = walk[i]
      BY <2>2, <3>2
    <3> QED BY <1>11, <3>1, <3>2 DEF Joined
  <2> QED BY <1>4, <2>5, <2>6 DEF WalkInv
<1>14. LiveInv'
  <2>1. ASSUME NEW p \in Parent, NEW n \in Node, p \in live' \cup {Root}, Under(kids, p, n)
        PROVE  n \in live' \/ \E j \in DOMAIN walk' : walk'[j].node = n
    <3>1. CASE p = v.node
      <4>1. PICK i \in DOMAIN kids[p] : kids[p][i] = n
        BY <2>1 DEF Under
      <4>2. i \in DOMAIN s /\ s[i].node = n
        BY <1>9, <3>1, <4>1
      <4> QED BY <1>11, <4>2 DEF Joined
    <3>2. CASE p # v.node
      <4>1. n \in live \/ \E j \in DOMAIN walk : walk[j].node = n
        BY <1>1, <1>4, <2>1, <3>2 DEF LiveInv
      <4>2. ASSUME NEW j \in DOMAIN walk, walk[j].node = n, n # v.node
            PROVE  \E i \in DOMAIN walk' : walk'[i].node = n
        <5>1. j # 1
          BY <1>2, <4>2
        <5> QED BY <1>11, <4>2, <5>1 DEF Joined
      <4> QED BY <1>4, <4>1, <4>2
    <3> QED BY <3>1, <3>2
  <2>2. ASSUME NEW p \in Parent, NEW n \in live', Under(kids, p, n) PROVE p \in live' \cup {Root}
    <3>1. CASE n = v.node
      <4>1. p = v.parent
        BY <1>1, <1>5, <1>6, <2>2, <3>1 DEF LiveTree, OnePlace
      <4> QED BY <1>3, <1>4, <4>1
    <3>2. CASE n # v.node
      BY <1>1, <1>4, <2>2, <3>2 DEF LiveInv
    <3> QED BY <3>1, <3>2
  <2> QED BY <1>4, <2>1, <2>2 DEF LiveInv
<1>15. ViewInv'
  <2>1. live' \subseteq DOMAIN view'
    BY <1>1, <1>4, <1>8 DEF ViewInv
  <2>2. ASSUME NEW p \in Parent, NEW i \in DOMAIN kids[p], kids[p][i] \in live'
        PROVE  /\ view'[kids[p][i]].parent = p /\ view'[kids[p][i]].order = i - 1
               /\ view'[kids[p][i]].name = name[kids[p][i]]
    <3>1. CASE kids[p][i] = v.node
      <4>1. Under(kids, p, v.node)
        BY <3>1 DEF Under
      <4>2. p = v.parent
        BY <1>1, <1>5, <1>6, <4>1 DEF LiveTree, OnePlace
      <4>3. i = v.order + 1
        BY <1>1, <1>3, <3>1, <4>2 DEF LiveTree, OnePlace
      <4>4. v.order = i - 1
        BY <1>5, <4>3
      <4> QED BY <1>8, <3>1, <4>2, <4>4
    <3>2. CASE kids[p][i] # v.node
      <4>1. kids[p][i] \in live /\ kids[p][i] \in DOMAIN view
        BY <1>1, <1>4, <2>2, <3>2 DEF ViewInv
      <4>2. view'[kids[p][i]] = view[kids[p][i]]
        BY <1>8, <3>2, <4>1
      <4> QED BY <1>1, <4>1, <4>2 DEF ViewInv
    <3> QED BY <3>1, <3>2
  <2>3. ASSUME NEW n \in DOMAIN view' \ live'
        PROVE  /\ n \in DOMAIN rows /\ view'[n].parent = rows[n].parent
               /\ view'[n].name = n /\ view'[n].order = rows[n].order + Shift
    <3>1. n \in DOMAIN view \ live /\ n # v.node
      BY <1>4, <1>8
    <3>2. view'[n] = view[n]
      BY <1>8, <3>1
    <3> QED BY <1>1, <3>1, <3>2 DEF ViewInv
  <2>4. ASSUME NEW n \in DOMAIN view' \cap DOMAIN rows PROVE view'[n].rowid = rows[n].rowid
    <3>1. n \in DOMAIN view
      BY <1>1 DEF ViewInv
    <3>2. view'[n].rowid = view[n].rowid
      BY <1>8, <3>1
    <3> QED BY <1>1, <3>1, <3>2 DEF ViewInv
  <2>5. DOMAIN rows \subseteq DOMAIN view'
    BY <1>1, <1>8 DEF ViewInv
  <2> QED BY <1>4, <2>1, <2>2, <2>3, <2>4, <2>5 DEF ViewInv
<1>16. TypeOK'
  <2>1. Table(rows)'
    BY <1>1, <1>4 DEF TypeOK, Table
  <2>2. Table(view)'
    BY <1>4, <1>8 DEF Table
  <2>3. Present(kids') \subseteq used' /\ live' \subseteq Present(kids')
    BY <1>1, <1>4, <1>7 DEF TypeOK
  <2>4. walk' \in Seq([node : Node, parent : Parent, order : Nat])
    BY <1>11 DEF Visit
  <2> QED BY <1>1, <1>4, <2>1, <2>2, <2>3, <2>4 DEF TypeOK
<1>17. TableInv(rows)' /\ OkMeansMirrored' /\ RefusesOnlyRemovals'
  <2>1. TableInv(rows)'
    BY <1>4 DEF Inv, TableInv
  <2>2. Stuck' = Stuck
    BY <1>4 DEF Stuck
  <2> QED BY <1>4, <2>1, <2>2 DEF Inv, OkMeansMirrored, RefusesOnlyRemovals
<1> QED BY <1>1, <1>4, <1>13, <1>14, <1>15, <1>16, <1>17 DEF Inv, CommitInv

\* One row deleted, or refused because a row below it has still to go.
LEMMA DropStep == \A n \in Node : Inv /\ DropRow(n) => Inv'
<1> SUFFICES ASSUME NEW n \in Node, Inv, DropRow(n) PROVE Inv'
  OBVIOUS
<1>1. /\ TypeOK /\ phase = "commit" /\ walk = << >> /\ live = Present(kids)
      /\ WalkInv /\ LiveInv /\ ViewInv /\ TableInv(rows) /\ kids \in Tree /\ Root \notin Node
      /\ n \in DOMAIN view \ live /\ n \in DOMAIN rows
      /\ \A m \in DOMAIN view \ live : view[n].rowid <= view[m].rowid
  BY AllVisited, NodeAssumption DEF Inv, CommitInv, ViewInv, TypeOK, Tree, DropRow, Removed
<1>2. CASE \E m \in DOMAIN view : view[m].parent = n
  <2>1. PICK m \in DOMAIN view : view[m].parent = n
    BY <1>2
  <2>2. m \notin live
    <3>1. ASSUME m \in live PROVE FALSE
      <4>1. PICK p \in Parent : Under(kids, p, m)
        BY <1>1, <3>1, InPresent
      <4>2. p \in live \cup {Root}
        BY <1>1, <3>1, <4>1 DEF LiveInv
      <4>3. view[m].parent = p
        BY <1>1, <3>1, <4>1 DEF ViewInv, Under
      <4> QED BY <1>1, <2>1, <4>2, <4>3
    <3> QED BY <3>1
  <2>3. m \in DOMAIN rows /\ rows[m].parent = n
    BY <1>1, <2>1, <2>2 DEF ViewInv
  <2>4. m # n
    <3>1. TableIsATree
      BY <1>1, TableTree
    <3>2. {n} \in SUBSET DOMAIN rows /\ {n} # {}
      BY <1>1
    <3>3. \E o \in {n} : rows[o].parent \notin {n}
      BY <3>1, <3>2 DEF TableIsATree
    <3> QED BY <2>3, <3>3
  <2>5. view[n].rowid = rows[n].rowid /\ view[m].rowid = rows[m].rowid
    BY <1>1, <2>1, <2>3 DEF ViewInv
  <2>6. rows[n].rowid \in Nat /\ rows[m].rowid \in Nat /\ rows[n].rowid # rows[m].rowid
    BY <1>1, <2>3, <2>4 DEF TypeOK, Table, Row
  <2>7. rows[n].rowid < rows[m].rowid
    BY <1>1, <2>1, <2>2, <2>5, <2>6
  <2>8. n \in Stuck
    BY <1>1, <2>2, <2>3, <2>7 DEF Stuck
  <2>9. End("refused", rows) /\ faults' = faults
    BY <1>2 DEF DropRow
  <2>10. faults' \in 0 .. MaxFaults
    BY <1>1, <2>9 DEF TypeOK
  <2> QED BY <1>1, <2>8, <2>9, <2>10, RollbackStep
<1>3. CASE ~\E m \in DOMAIN view : view[m].parent = n
  <2>1. /\ view' = [m \in DOMAIN view \ {n} |-> view[m]]
        /\ kids' = kids /\ name' = name /\ used' = used /\ rows' = rows /\ live' = live
        /\ walk' = walk /\ undo' = undo /\ phase' = phase /\ result' = result /\ faults' = faults
    BY <1>3 DEF DropRow, tree
  <2>2. DOMAIN view' = DOMAIN view \ {n} /\ \A m \in DOMAIN view' : view'[m] = view[m]
    BY <2>1
  <2>3. ViewInv'
    <3>1. live' \subseteq DOMAIN view'
      BY <1>1, <2>1, <2>2 DEF ViewInv
    <3>2. ASSUME NEW p \in Parent, NEW i \in DOMAIN kids[p], kids[p][i] \in live
          PROVE  /\ view'[kids[p][i]].parent = p /\ view'[kids[p][i]].order = i - 1
                 /\ view'[kids[p][i]].name = name[kids[p][i]]
      <4>1. view'[kids[p][i]] = view[kids[p][i]]
        BY <2>1, <2>2, <3>1, <3>2
      <4> QED BY <1>1, <3>2, <4>1 DEF ViewInv
    <3>3. \A m \in DOMAIN view' \ live' :
             /\ m \in DOMAIN rows /\ view'[m].parent = rows[m].parent
             /\ view'[m].name = m /\ view'[m].order = rows[m].order + Shift
      BY <1>1, <2>1, <2>2 DEF ViewInv
    <3>4. \A m \in DOMAIN view' \cap DOMAIN rows : view'[m].rowid = rows[m].rowid
      BY <1>1, <2>2 DEF ViewInv
    <3> QED BY <1>1, <2>1, <3>1, <3>2, <3>3, <3>4 DEF ViewInv
  <2>4. WalkInv' /\ LiveInv'
    <3>1. WalkInv'
      BY <1>1, <2>1 DEF WalkInv
    <3>2. LiveInv'
      BY <1>1, <2>1 DEF LiveInv
    <3> QED BY <3>1, <3>2
  <2>5. TypeOK'
    <3>1. Table(rows)'
      BY <1>1, <2>1 DEF TypeOK, Table
    <3>2. Table(view)'
      BY <1>1, <2>1, <2>2 DEF TypeOK, Table
    <3>3. Present(kids') \subseteq used' /\ live' \subseteq Present(kids')
      BY <1>1, <2>1 DEF TypeOK
    <3>4. walk' \in Seq([node : Node, parent : Parent, order : Nat])
      BY <1>1, <2>1 DEF TypeOK
    <3> QED BY <1>1, <2>1, <3>1, <3>2, <3>3, <3>4 DEF TypeOK
  <2>6. TableInv(rows)' /\ OkMeansMirrored' /\ RefusesOnlyRemovals'
    <3>1. TableInv(rows)'
      BY <1>1, <2>1 DEF TableInv
    <3>2. Stuck' = Stuck
      BY <2>1 DEF Stuck
    <3> QED BY <2>1, <3>1, <3>2 DEF Inv, OkMeansMirrored, RefusesOnlyRemovals
  <2>7. LiveTree(kids, name)' /\ LiveTree(kids, undo)'
    BY <1>1, <2>1 DEF Inv, CommitInv
  <2> QED BY <1>1, <2>1, <2>3, <2>4, <2>5, <2>6, <2>7 DEF Inv, CommitInv
<1> QED BY <1>2, <1>3

\* COMMIT: the foreign key holds, and the table mirrors the tree.
LEMMA CommitStep == Inv /\ CommitEnds => Inv'
<1> SUFFICES ASSUME Inv, CommitEnds PROVE Inv'
  OBVIOUS
<1>1. /\ TypeOK /\ phase = "commit" /\ walk = << >> /\ live = Present(kids)
      /\ LiveInv /\ ViewInv /\ kids \in Tree /\ LiveTree(kids, name) /\ LiveTree(kids, undo)
      /\ DOMAIN view = live
  BY AllVisited DEF Inv, CommitInv, ViewInv, TypeOK, Tree, CommitEnds, Removed
<1>2. ASSUME NEW n \in DOMAIN view
      PROVE  /\ n \in Node /\ view[n].name = name[n]
             /\ view[n].parent \in DOMAIN view \cup {Root}
  <2>1. PICK p \in Parent : Under(kids, p, n)
    BY <1>1, InPresent
  <2>2. p \in live \cup {Root}
    BY <1>1, <2>1 DEF LiveInv
  <2>3. view[n].parent = p /\ view[n].name = name[n]
    BY <1>1, <2>1 DEF ViewInv, Under
  <2> QED BY <1>1, <2>1, <2>2, <2>3, UnderNode
<1>3. PICK r \in {"ok", "failed"} : End(r, view) /\ faults' \in 0 .. MaxFaults
  <2>1. faults \in 0 .. MaxFaults /\ MaxFaults \in Nat
    BY <1>1, FaultsAssumption DEF TypeOK
  <2>2. CASE End("ok", view) /\ UNCHANGED faults
    BY <2>1, <2>2
  <2>3. CASE End("failed", view) /\ faults < MaxFaults /\ faults' = faults + 1
    BY <2>1, <2>3
  <2> QED BY <1>2, <2>2, <2>3 DEF CommitEnds
<1>4. /\ phase' = "ready" /\ result' = r /\ rows' = view /\ view' = view /\ live' = {}
      /\ walk' = << >> /\ kids' = kids /\ used' = used
      /\ name' = IF r = "ok" THEN name ELSE undo
      /\ undo' = name'
  BY <1>3 DEF End
<1>5. Mirrors(view, kids, name)
  <2>1. \A p \in Parent : \A i \in DOMAIN kids[p] : kids[p][i] \in live
    BY <1>1, InPresent DEF Under
  <2> QED BY <1>1, <2>1 DEF Mirrors, ViewInv
<1>6. TypeOK'
  <2>1. Table(rows)' /\ Table(view)'
    BY <1>1, <1>4 DEF TypeOK, Table
  <2>2. \A n \in DOMAIN rows' : rows'[n].name \in Name
    BY <1>1, <1>2, <1>4 DEF TypeOK
  <2>3. Present(kids') \subseteq used' /\ live' \subseteq Present(kids')
    BY <1>1, <1>4 DEF TypeOK
  <2>4. walk' \in Seq([node : Node, parent : Parent, order : Nat])
    BY <1>4
  <2>5. name' \in [Node -> Name] /\ undo' \in [Node -> Name]
    BY <1>1, <1>4 DEF TypeOK
  <2>6. result' \in {"none", "ok", "refused", "failed"}
    BY <1>3, <1>4
  <2>7. kids' \in [Parent -> Seq(Node)] /\ used' \subseteq Node /\ phase' \in {"ready", "commit", "shut"}
    BY <1>1, <1>4 DEF TypeOK
  <2> QED BY <1>3, <2>1, <2>2, <2>3, <2>4, <2>5, <2>6, <2>7 DEF TypeOK
<1>7. LiveTree(kids, name)'
  BY <1>1, <1>4
<1>8. TableInv(rows)'
  <2>1. name \in [Node -> Name]
    BY <1>1 DEF TypeOK
  <2> QED BY <1>1, <1>4, <1>5, <2>1 DEF TableInv
<1>9. OkMeansMirrored' /\ RefusesOnlyRemovals'
  <2>1. OkMeansMirrored'
    BY <1>4, <1>5 DEF OkMeansMirrored
  <2>2. result' # "refused"
    BY <1>3, <1>4
  <2> QED BY <2>1, <2>2 DEF RefusesOnlyRemovals
<1> QED BY <1>4, <1>6, <1>7, <1>8, <1>9 DEF Inv

LEMMA SystemFailsStep == Inv /\ SystemFails => Inv'
<1> SUFFICES ASSUME Inv, SystemFails PROVE Inv'
  OBVIOUS
<1>1. phase = "commit" /\ End("failed", rows)
  BY DEF SystemFails
<1>2. faults' \in 0 .. MaxFaults
  <2>1. faults \in 0 .. MaxFaults /\ MaxFaults \in Nat
    BY FaultsAssumption DEF Inv, TypeOK
  <2> QED BY <2>1 DEF SystemFails
<1> QED BY <1>1, <1>2, RollbackStep

\* unlock: the tree is the one the table mirrors, or the vault stays shut.
LEMMA ReopenStep == Inv /\ Reopen => Inv'
<1> SUFFICES ASSUME Inv, Reopen PROVE Inv'
  OBVIOUS
<1>1. TypeOK /\ phase # "commit" /\ live = {} /\ LiveTree(kids, name) /\ TableInv(rows)
  BY DEF Inv, Reopen
<1>2. /\ undo' = name' /\ rows' = rows /\ view' = view /\ live' = live /\ walk' = walk /\ faults' = faults
  BY DEF Reopen
<1>4. CASE TooDeep(rows)
  <2>1. phase' = "shut" /\ result' = "refused" /\ kids' = kids /\ name' = name /\ used' = used
    BY <1>4 DEF Reopen, tree
  <2>2. Table(rows)' /\ Table(view)'
    BY <1>1, <1>2, <2>1 DEF TypeOK, Table
  <2>3. TypeOK'
    BY <1>1, <1>2, <2>1, <2>2 DEF TypeOK
  <2>4. TableInv(rows)' /\ LiveTree(kids, name)' /\ OkMeansMirrored' /\ RefusesOnlyRemovals'
    BY <1>1, <1>2, <2>1 DEF TableInv, OkMeansMirrored, RefusesOnlyRemovals
  <2> QED BY <1>1, <1>2, <2>1, <2>3, <2>4 DEF Inv
<1>5. CASE ~TooDeep(rows)
  <2>1. /\ phase' = "ready" /\ result' = "ok" /\ used' = used
        /\ kids' = [p \in Parent |-> Ordered(rows, p)]
        /\ name' = [n \in Node |-> IF n \in DOMAIN rows THEN rows[n].name ELSE name[n]]
    BY <1>5 DEF Reopen
  <2>2. PICK k \in Tree, nm \in [Node -> Name] : LiveTree(k, nm) /\ Mirrors(rows, k, nm)
    BY <1>1 DEF TableInv
  <2>3. kids' = k
    <3>1. \A p \in Parent : Ordered(rows, p) = k[p]
      BY <2>2, Reconstruct
    <3>2. k = [p \in Parent |-> k[p]]
      BY DEF Tree
    <3> QED BY <2>1, <3>1, <3>2
  <2>4. name' \in [Node -> Name]
    BY <1>1, <2>1 DEF TypeOK
  <2>5. \A p \in Parent, n \in Node : Under(k, p, n) => n \in DOMAIN rows /\ rows[n].name = nm[n] /\ name'[n] = nm[n]
    <3> SUFFICES ASSUME NEW p \in Parent, NEW n \in Node, Under(k, p, n)
                 PROVE  n \in DOMAIN rows /\ rows[n].name = nm[n] /\ name'[n] = nm[n]
      OBVIOUS
    <3>1. n \in DOMAIN rows /\ rows[n].name = nm[n]
      BY <2>2, InPresent DEF Mirrors, Under
    <3> QED BY <2>1, <3>1
  <2>6. LiveTree(k, name')
    <3>1. NamesApart(k, name')
      BY <2>2, <2>5 DEF LiveTree, NamesApart
    <3> QED BY <2>2, <3>1 DEF LiveTree
  <2>7. Mirrors(rows, k, name')
    <3>1. \A p \in Parent : \A i \in DOMAIN k[p] : name'[k[p][i]] = nm[k[p][i]]
      BY <2>5, UnderNode DEF Under
    <3> QED BY <2>2, <3>1 DEF Mirrors
  <2>8. TypeOK'
    <3>1. Table(rows)' /\ Table(view)'
      BY <1>1, <1>2, <2>1 DEF TypeOK, Table
    <3>2. Present(kids') \subseteq used'
      BY <1>1, <2>1, <2>2, <2>3 DEF TypeOK, Table, Mirrors
    <3>3. kids' \in [Parent -> Seq(Node)]
      BY <2>3 DEF Tree
    <3> QED BY <1>1, <1>2, <2>1, <2>4, <3>1, <3>2, <3>3 DEF TypeOK
  <2>9. TableInv(rows)' /\ LiveTree(kids, name)' /\ OkMeansMirrored' /\ RefusesOnlyRemovals'
    BY <1>1, <1>2, <2>1, <2>3, <2>6, <2>7 DEF TableInv, OkMeansMirrored, RefusesOnlyRemovals
  <2> QED BY <1>1, <1>2, <2>1, <2>8, <2>9 DEF Inv
<1> QED BY <1>4, <1>5

(***************************************************************************)
(* The edits: each leaves a live tree and begins a transaction for it.     *)
(***************************************************************************)

\* A gallery of the tree, and a name none of its children has, in terms of Under.
LEMMA EditGuards ==
    ASSUME Inv
    PROVE  /\ \A p \in Parent : InTree(p) <=> p = Root \/ \E r \in Parent : Under(kids, r, p)
           /\ \A p \in Parent, nm \in Name :
                 nm \notin Taken(p) <=> \A m \in Node : Under(kids, p, m) => name[m] # nm
           /\ \A n \in Node : n \notin used => \A r \in Parent : ~Under(kids, r, n)
           /\ kids \in Tree /\ name \in [Node -> Name] /\ LiveTree(kids, name)
           /\ used \subseteq Node /\ Present(kids) \subseteq used /\ Node = Gallery \cup Media
<1>1. /\ kids \in Tree /\ name \in [Node -> Name] /\ LiveTree(kids, name)
      /\ used \subseteq Node /\ Present(kids) \subseteq used
  BY DEF Inv, TypeOK, Tree
<1>2. \A p \in Parent : InTree(p) <=> p = Root \/ \E r \in Parent : Under(kids, r, p)
  BY InPresent DEF InTree
<1>3. \A p \in Parent, nm \in Name :
         nm \notin Taken(p) <=> \A m \in Node : Under(kids, p, m) => name[m] # nm
  BY <1>1, InToSet, UnderNode DEF Taken
<1>4. \A n \in Node : n \notin used => \A r \in Parent : ~Under(kids, r, n)
  BY <1>1, InPresent
<1> QED BY <1>1, <1>2, <1>3, <1>4 DEF Node

\* One node more.
LEMMA LinkedPresent ==
    ASSUME NEW k \in Tree, NEW p \in Parent, NEW n \in Node
    PROVE  Linked(k, p, n) \in Tree /\ Present(Linked(k, p, n)) = Present(k) \cup {n}
<1>1. Linked(k, p, n) \in Tree
  BY LinkedDef
<1>2. \A q \in Parent, m \in Node : Under(Linked(k, p, n), q, m) <=> Under(k, q, m) \/ (q = p /\ m = n)
  BY LinkedUnder
<1>3. ASSUME NEW m PROVE m \in Present(Linked(k, p, n)) <=> m \in Present(k) \cup {n}
  <2>1. CASE m \in Node
    BY <1>2, <2>1, InPresent
  <2>2. CASE m \notin Node
    BY <1>1, <2>2, InPresent, UnderNode
  <2> QED BY <2>1, <2>2
<1> QED BY <1>1, <1>3

\* create_gallery and attach_staged.
LEMMA AddStep ==
    ASSUME Inv, NEW p \in Parent, NEW n \in Node, NEW nm \in Name,
           InTree(p), n \notin used, nm \notin Taken(p),
           kids' = Linked(kids, p, n), name' = [name EXCEPT ![n] = nm],
           used' = used \cup {n}, Begin(name')
    PROVE  Inv'
<1>1. LiveTree(kids', name')
  BY EditGuards, LinkedTree
<1>2. kids' \in Tree /\ Present(kids') \subseteq used'
  BY EditGuards, LinkedPresent
<1>3. name' \in [Node -> Name] /\ used \subseteq used' /\ used' \subseteq Node
  BY EditGuards
<1> QED BY <1>1, <1>2, <1>3, BeginStep DEF Begin

LEMMA CreatePathStep ==
    ASSUME Inv, NEW p \in Parent, NEW g \in Gallery, NEW h \in Gallery \ {g},
           NEW nm \in Name, NEW nm2 \in Name, CreatePath(p, g, h, nm, nm2)
    PROVE  Inv'
<1> DEFINE k == Linked(kids, p, g)
           nx == [name EXCEPT ![g] = nm]
<1>1. /\ InTree(p) /\ g \notin used /\ h \notin used /\ nm \notin Taken(p)
      /\ kids' = Linked(k, g, h) /\ name' = [nx EXCEPT ![h] = nm2]
      /\ used' = used \cup {g, h} /\ Begin(name')
      /\ g \in Node /\ h \in Node /\ g # h /\ g \in Parent
  BY DEF CreatePath, Node, Parent
<1>2. LiveTree(k, nx)
  BY <1>1, EditGuards, LinkedTree
<1>3. k \in Tree /\ Present(k) = Present(kids) \cup {g} /\ nx \in [Node -> Name]
  BY <1>1, EditGuards, LinkedPresent
<1>4. \A q \in Parent, m \in Node : Under(k, q, m) <=> Under(kids, q, m) \/ (q = p /\ m = g)
  BY <1>1, EditGuards, LinkedUnder
<1> HIDE DEF k, nx
<1>5. Under(k, p, g) /\ \A r \in Parent : ~Under(k, r, h)
  BY <1>1, <1>4, EditGuards
<1>6. \A m \in Node : ~Under(k, g, m)
  <2>1. g # p
    BY <1>1, EditGuards, NodeAssumption
  <2>2. \A m \in Node : ~Under(kids, g, m)
    <3>1. Grounded(kids)
      BY EditGuards DEF LiveTree
    <3> QED BY <1>1, <3>1, EditGuards DEF Grounded
  <2> QED BY <1>1, <1>4, <2>1, <2>2
<1>7. LiveTree(kids', name')
  BY <1>1, <1>2, <1>3, <1>5, <1>6, LinkedTree
<1>8. kids' \in Tree /\ Present(kids') = Present(k) \cup {h}
  BY <1>1, <1>3, LinkedPresent
<1>9. /\ name' \in [Node -> Name] /\ used \subseteq used' /\ used' \subseteq Node
      /\ Present(kids') \subseteq used'
  BY <1>1, <1>3, <1>8, EditGuards
<1> QED BY <1>1, <1>7, <1>8, <1>9, BeginStep DEF Begin

LEMMA RenameStep ==
    ASSUME Inv, NEW p \in Parent, NEW n \in Node, NEW nm \in Name, Rename(p, n, nm)
    PROVE  Inv'
<1>1. /\ n \in ToSet(kids[p]) /\ nm \notin Taken(p)
      /\ name' = [name EXCEPT ![n] = nm] /\ kids' = kids /\ used' = used /\ Begin(name')
  BY DEF Rename
<1>2. LiveTree(kids, name')
  BY <1>1, EditGuards, InToSet, RenamedTree
<1>3. name' \in [Node -> Name]
  BY <1>1, EditGuards
<1> QED BY <1>1, <1>2, <1>3, EditGuards, BeginStep DEF Begin

LEMMA SwapStep ==
    ASSUME Inv, NEW p \in Parent, NEW n \in Node, NEW m \in Node \ {n}, SwapNames(p, n, m)
    PROVE  Inv'
<1>1. /\ n \in ToSet(kids[p]) /\ m \in ToSet(kids[p])
      /\ name' = [name EXCEPT ![n] = name[m], ![m] = name[n]]
      /\ kids' = kids /\ used' = used /\ Begin(name)
  BY DEF SwapNames
<1>2. LiveTree(kids, name')
  BY <1>1, EditGuards, InToSet, SwappedTree
<1>3. name' \in [Node -> Name]
  BY <1>1, EditGuards
<1> QED BY <1>1, <1>2, <1>3, EditGuards, BeginStep DEF Begin

LEMMA MoveStep ==
    ASSUME Inv, NEW p \in Parent, NEW n \in Node, NEW q \in Parent, NEW nm \in Name,
           MoveWithin(p, n, q, nm)
    PROVE  Inv'
<1>1. /\ InTree(q) /\ p # q /\ n \in ToSet(kids[p]) /\ nm \notin Taken(q) /\ q \notin Subtree(n)
      /\ kids' = Linked(Unlinked(kids, p, n), q, n) /\ name' = [name EXCEPT ![n] = nm]
      /\ used' = used /\ Begin(name')
  BY DEF MoveWithin
<1>2. kids' \in Tree /\ LiveTree(kids', name') /\ Present(kids') = Present(kids)
  <2>1. /\ kids \in Tree /\ name \in [Node -> Name] /\ LiveTree(kids, name) /\ Under(kids, p, n)
        /\ q = Root \/ \E r \in Parent : Under(kids, r, q)
        /\ \A m \in Node : Under(kids, q, m) => name[m] # nm
    BY <1>1, EditGuards, InToSet
  <2>2. /\ Linked(Unlinked(kids, p, n), q, n) \in Tree
        /\ LiveTree(Linked(Unlinked(kids, p, n), q, n), [name EXCEPT ![n] = nm])
        /\ Present(Linked(Unlinked(kids, p, n), q, n)) = Present(kids)
    BY <1>1, <2>1, MovedTree
  <2> QED BY <1>1, <2>2
<1>3. name' \in [Node -> Name]
  BY <1>1, EditGuards
<1> QED BY <1>1, <1>2, <1>3, EditGuards, BeginStep DEF Begin

LEMMA RemoveStep ==
    ASSUME Inv, NEW p \in Parent, NEW n \in Node, RemoveNode(p, n)
    PROVE  Inv'
<1>1. /\ n \in ToSet(kids[p])
      /\ kids' = [q \in Parent |-> IF q \in Subtree(n) THEN << >> ELSE Unlinked(kids, p, n)[q]]
      /\ name' = name /\ used' = used /\ Begin(name)
  BY DEF RemoveNode
<1>2. kids' \in Tree /\ LiveTree(kids', name) /\ Present(kids') \subseteq Present(kids)
  BY <1>1, EditGuards, InToSet, RemovedTree
<1> QED BY <1>1, <1>2, EditGuards, BeginStep DEF Begin

(***************************************************************************)
(* The theorems.                                                           *)
(***************************************************************************)

LEMMA InvStep == Inv /\ [Next]_vars => Inv'
<1> SUFFICES ASSUME Inv, [Next]_vars PROVE Inv'
  OBVIOUS
<1>1. CASE Edit
  <2>1. PICK p \in Parent :
        \/ \E g \in Gallery, nm \in Name : CreateGallery(p, g, nm)
        \/ \E g \in Gallery : \E h \in Gallery \ {g} : \E nm, nm2 \in Name :
              CreatePath(p, g, h, nm, nm2)
        \/ \E m \in Media, nm \in Name : AddMedia(p, m, nm)
        \/ \E n \in Node, nm \in Name : Rename(p, n, nm)
        \/ \E n \in Node : \E m \in Node \ {n} : SwapNames(p, n, m)
        \/ \E n \in Node, q \in Parent, nm \in Name : MoveWithin(p, n, q, nm)
        \/ \E n \in Node : RemoveNode(p, n)
    BY <1>1 DEF Edit
  <2>2. ASSUME NEW g \in Gallery, NEW nm \in Name, CreateGallery(p, g, nm) PROVE Inv'
    <3>1. g \in Node
      BY DEF Node
    <3> QED BY <2>2, <3>1, AddStep DEF CreateGallery
  <2>3. ASSUME NEW g \in Gallery, NEW h \in Gallery \ {g}, NEW nm \in Name, NEW nm2 \in Name,
               CreatePath(p, g, h, nm, nm2)
        PROVE  Inv'
    BY <2>3, CreatePathStep
  <2>4. ASSUME NEW m \in Media, NEW nm \in Name, AddMedia(p, m, nm) PROVE Inv'
    <3>1. m \in Node
      BY DEF Node
    <3> QED BY <2>4, <3>1, AddStep DEF AddMedia
  <2>5. ASSUME NEW n \in Node, NEW nm \in Name, Rename(p, n, nm) PROVE Inv'
    BY <2>5, RenameStep
  <2>6. ASSUME NEW n \in Node, NEW m \in Node \ {n}, SwapNames(p, n, m) PROVE Inv'
    BY <2>6, SwapStep
  <2>7. ASSUME NEW n \in Node, NEW q \in Parent, NEW nm \in Name, MoveWithin(p, n, q, nm) PROVE Inv'
    BY <2>7, MoveStep
  <2>8. ASSUME NEW n \in Node, RemoveNode(p, n) PROVE Inv'
    BY <2>8, RemoveStep
  <2> QED BY <2>1, <2>2, <2>3, <2>4, <2>5, <2>6, <2>7, <2>8
<1>2. CASE StoreNode
  BY <1>2, StoreStep
<1>3. CASE \E n \in Node : DropRow(n)
  BY <1>3, DropStep
<1>4. CASE CommitEnds
  BY <1>4, CommitStep
<1>5. CASE SystemFails
  BY <1>5, SystemFailsStep
<1>6. CASE Reopen
  BY <1>6, ReopenStep
<1>7. CASE UNCHANGED vars
  <2>1. /\ kids' = kids /\ name' = name /\ used' = used /\ rows' = rows /\ view' = view /\ live' = live
        /\ walk' = walk /\ undo' = undo /\ phase' = phase /\ result' = result /\ faults' = faults
    BY <1>7 DEF vars
  <2>2. TypeOK'
    BY <2>1 DEF Inv, TypeOK, Table
  <2>3. TableInv(rows)' /\ LiveTree(kids, name)' /\ LiveTree(kids, undo)' <=>
           TableInv(rows) /\ LiveTree(kids, name) /\ LiveTree(kids, undo)
    BY <2>1 DEF TableInv
  <2>4. WalkInv' <=> WalkInv
    BY <2>1 DEF WalkInv
  <2>5. LiveInv' <=> LiveInv
    BY <2>1 DEF LiveInv
  <2>6. ViewInv' <=> ViewInv
    BY <2>1 DEF ViewInv
  <2>7. Stuck' = Stuck
    BY <2>1 DEF Stuck
  <2>8. TableInv(rows)' /\ LiveTree(kids, name)' /\ OkMeansMirrored' /\ RefusesOnlyRemovals'
    BY <2>1, <2>7 DEF Inv, TableInv, OkMeansMirrored, RefusesOnlyRemovals
  <2>9. phase' = "commit" => CommitInv'
    BY <2>1, <2>4, <2>5, <2>6 DEF Inv, CommitInv
  <2> QED BY <2>1, <2>2, <2>8, <2>9 DEF Inv
<1> QED BY <1>1, <1>2, <1>3, <1>4, <1>5, <1>6, <1>7 DEF Next

\* Whatever edits, failures and unlocks the vault sees, the invariant holds:
\* sync_metadata's two passes keep the rows of the temporary table and the
\* vacated ones apart.
THEOREM InvCorrect == Spec => []Inv
<1>1. Init => Inv
  BY InvInit
<1>2. Inv /\ [Next]_vars => Inv'
  BY InvStep
<1> QED BY <1>1, <1>2, PTL DEF Spec

\* Every variable keeps its type; a committed table holds no placeholder name.
THEOREM TypeCorrect == Spec => []TypeOK
<1>1. Inv => TypeOK
  BY DEF Inv
<1> QED BY <1>1, InvCorrect, PTL

\* A commit or an unlock that reported success left the table and the live tree
\* the same (sync_metadata, ReadSession::unlock).
THEOREM OkMeansMirroredTheorem == Spec => []OkMeansMirrored
<1>1. Inv => OkMeansMirrored
  BY DEF Inv
<1> QED BY <1>1, InvCorrect, PTL

\* The committed table is always a tree, whatever was refused or failed on the way.
THEOREM TableIsATreeTheorem == Spec => []TableIsATree
<1>1. Inv => TableIsATree
  BY TableTree DEF Inv
<1> QED BY <1>1, InvCorrect, PTL

\* A commit that the table refuses is one that removes a gallery before its
\* contents: no rename, swap, move or reorder is ever refused.
THEOREM RefusesOnlyRemovalsTheorem == Spec => []RefusesOnlyRemovals
<1>1. Inv => RefusesOnlyRemovals
  BY DEF Inv
<1> QED BY <1>1, InvCorrect, PTL
=============================================================================
