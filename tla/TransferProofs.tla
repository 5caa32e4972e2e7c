--------------------------- MODULE TransferProofs ---------------------------
(***************************************************************************)
(* What Transfer keeps for every set of vaults, trees, requests, batch     *)
(* sizes, failures and crashes: vaults remain trees, and what they held at *)
(* the start is on disk in one of them at every moment.                    *)
(***************************************************************************)
EXTENDS Transfer, FiniteSetTheorems, SequenceTheorems, WellFoundedInduction, TLAPS

(***************************************************************************)
(* Paths.                                                                  *)
(***************************************************************************)

\* One path is a prefix of another if they agree where both are defined.
LEMMA PrefixDef ==
    ASSUME NEW p \in Path, NEW q \in Path
    PROVE  IsPrefix(p, q) <=> Len(p) <= Len(q) /\ \A i \in 1 .. Len(p) : p[i] = q[i]
<1> USE DEF Path
<1>1. Len(p) \in Nat /\ Len(q) \in Nat
  OBVIOUS
<1>2. CASE Len(p) <= Len(q)
  <2>1. SubSeq(p, 1, Len(p)) = p
    BY SubSeqFull
  <2>2. \A i \in 1 .. Len(p) : q[i] \in Nat
    BY <1>1, <1>2
  <2>3. /\ SubSeq(q, 1, Len(p)) \in Seq(Nat)
        /\ Len(SubSeq(q, 1, Len(p))) = Len(p)
        /\ \A i \in 1 .. Len(p) : SubSeq(q, 1, Len(p))[i] = q[i]
    <3>1. /\ SubSeq(q, 1, Len(p)) \in Seq(Nat)
          /\ Len(SubSeq(q, 1, Len(p))) = IF 1 <= Len(p) THEN Len(p) - 1 + 1 ELSE 0
          /\ \A i \in 1 .. Len(p) - 1 + 1 : SubSeq(q, 1, Len(p))[i] = q[1 + i - 1]
      BY <1>1, <2>2, SubSeqProperties
    <3> QED BY <1>1, <3>1
  <2>4. ASSUME \A i \in 1 .. Len(p) : p[i] = q[i] PROVE p = SubSeq(q, 1, Len(p))
    BY <2>3, <2>4, SeqEqual
  <2> QED BY <1>2, <2>1, <2>3, <2>4 DEF IsPrefix
<1> QED BY <1>1, <1>2 DEF IsPrefix

\* A sequence without its last element, and with another last element.
LEMMA SeqFront ==
    ASSUME NEW S, NEW q \in Seq(S), q # << >>
    PROVE  /\ Front(q) \in Seq(S) /\ Len(q) \in Nat \ {0} /\ Len(Front(q)) = Len(q) - 1
           /\ \A i \in 1 .. Len(q) - 1 : Front(q)[i] = q[i]
           /\ Last(q) = q[Len(q)] /\ Last(q) \in S
<1>1. Len(q) \in Nat \ {0}
  BY EmptySeq
<1>2. \A i \in 1 .. Len(q) - 1 : q[i] \in S
  BY <1>1
<1> DEFINE f == SubSeq(q, 1, Len(q) - 1)
<1>3. /\ f \in Seq(S)
      /\ Len(f) = IF 1 <= Len(q) - 1 THEN Len(q) - 1 - 1 + 1 ELSE 0
      /\ \A i \in 1 .. Len(q) - 1 - 1 + 1 : f[i] = q[1 + i - 1]
  BY <1>1, <1>2, SubSeqProperties
<1>4. Front(q) = f /\ Last(q) = q[Len(q)]
  BY DEF Front, Last
<1> HIDE DEF f
<1>5. Len(f) = Len(q) - 1
  <2> DEFINE n == Len(q)
  <2>1. n \in Nat \ {0} /\ Len(f) = IF 1 <= n - 1 THEN n - 1 - 1 + 1 ELSE 0
    BY <1>1, <1>3
  <2> HIDE DEF n
  <2>2. Len(f) = n - 1
    BY <2>1
  <2> QED BY <2>2 DEF n
<1>6. \A i \in 1 .. Len(q) - 1 : f[i] = q[i]
  BY <1>1, <1>3
<1>7. q[Len(q)] \in S
  BY <1>1
<1> QED BY <1>1, <1>3, <1>4, <1>5, <1>6, <1>7

LEMMA SeqAppend ==
    ASSUME NEW S, NEW q \in Seq(S), NEW f \in S
    PROVE  /\ Append(q, f) \in Seq(S) /\ Len(Append(q, f)) = Len(q) + 1 /\ Len(q) \in Nat
           /\ Append(q, f)[Len(q) + 1] = f /\ \A i \in 1 .. Len(q) : Append(q, f)[i] = q[i]
           /\ Append(q, f) # << >> /\ Last(Append(q, f)) = f
<1> DEFINE r == Append(q, f)
<1>1. /\ r \in Seq(S) /\ Len(r) = Len(q) + 1 /\ Len(q) \in Nat
      /\ \A i \in 1 .. Len(q) : r[i] = q[i]
      /\ r[Len(q) + 1] = f
  BY AppendProperties
<1>2. Last(r) = r[Len(r)]
  BY DEF Last
<1> HIDE DEF r
<1>3. r # << >>
  BY <1>1, EmptySeq
<1> QED BY <1>1, <1>2, <1>3 DEF r

\* The path of a node's gallery.
LEMMA FrontDef ==
    ASSUME NEW p \in Path, p # << >>
    PROVE  /\ Front(p) \in Path /\ Len(p) \in Nat \ {0} /\ Len(Front(p)) = Len(p) - 1
           /\ \A i \in 1 .. Len(p) - 1 : Front(p)[i] = p[i]
           /\ Last(p) \in Nat
BY SeqFront DEF Path

\* The place of a node in a subtree that moved.
LEMMA RebasedDef ==
    ASSUME NEW p \in Path, NEW from \in Path, NEW to \in Path, IsPrefix(from, p)
    PROVE  /\ Rebased(p, from, to) \in Path
           /\ Len(Rebased(p, from, to)) = Len(to) + Len(p) - Len(from)
           /\ \A i \in 1 .. Len(to) : Rebased(p, from, to)[i] = to[i]
           /\ \A i \in Len(to) + 1 .. Len(to) + Len(p) - Len(from) :
                 Rebased(p, from, to)[i] = p[i - Len(to) + Len(from)]
           /\ IsPrefix(to, Rebased(p, from, to))
<1> USE DEF Path
<1> DEFINE m == Len(from) + 1
           n == Len(p)
           tail == SubSeq(p, m, n)
<1>1. Len(p) \in Nat /\ Len(from) \in Nat /\ Len(to) \in Nat /\ Len(from) <= Len(p)
  BY PrefixDef
<1>2. \A i \in m .. n : p[i] \in Nat
  BY <1>1
<1>3. /\ tail \in Seq(Nat)
      /\ Len(tail) = IF m <= n THEN n - m + 1 ELSE 0
      /\ \A i \in 1 .. n - m + 1 : tail[i] = p[m + i - 1]
  BY <1>1, <1>2, SubSeqProperties
<1>4. Len(tail) = Len(p) - Len(from) /\ \A i \in 1 .. Len(p) - Len(from) : tail[i] = p[Len(from) + i]
  BY <1>1, <1>3
<1>5. /\ to \o tail \in Seq(Nat)
      /\ Len(to \o tail) = Len(to) + Len(tail)
      /\ \A i \in 1 .. Len(to) + Len(tail) :
            (to \o tail)[i] = IF i <= Len(to) THEN to[i] ELSE tail[i - Len(to)]
  BY <1>3, ConcatProperties
<1>6. Rebased(p, from, to) = to \o tail
  BY DEF Rebased
<1> HIDE DEF tail, m, n
<1>7. \A i \in 1 .. Len(to) : (to \o tail)[i] = to[i]
  BY <1>1, <1>4, <1>5
<1>8. \A i \in Len(to) + 1 .. Len(to) + Len(p) - Len(from) :
          (to \o tail)[i] = p[i - Len(to) + Len(from)]
  <2> TAKE i \in Len(to) + 1 .. Len(to) + Len(p) - Len(from)
  <2>1. i \in 1 .. Len(to) + Len(tail) /\ ~(i <= Len(to)) /\ i - Len(to) \in 1 .. Len(p) - Len(from)
        /\ Len(from) + (i - Len(to)) = i - Len(to) + Len(from)
    BY <1>1, <1>4
  <2>2. (to \o tail)[i] = tail[i - Len(to)]
    BY <1>5, <2>1
  <2>3. tail[i - Len(to)] = p[Len(from) + (i - Len(to))]
    BY <1>4, <2>1
  <2> QED BY <2>1, <2>2, <2>3
<1>9. IsPrefix(to, to \o tail)
  <2> DEFINE all == to \o tail
  <2>1. all \in Path /\ Len(to) <= Len(all) /\ \A i \in 1 .. Len(to) : all[i] = to[i]
    BY <1>1, <1>4, <1>5, <1>7
  <2> HIDE DEF all
  <2>2. IsPrefix(to, all)
    BY <1>1, <2>1, PrefixDef
  <2> QED BY <2>2 DEF all
<1> QED BY <1>1, <1>4, <1>5, <1>6, <1>7, <1>8, <1>9

LEMMA PrefixReflexive == \A p \in Path : IsPrefix(p, p) /\ IsPrefix(<< >>, p)
<1> TAKE p \in Path
<1>1. Len(p) \in Nat /\ << >> \in Path /\ Len(<< >>) = 0
  BY DEF Path
<1> QED BY <1>1, PrefixDef

LEMMA PrefixTransitive ==
    ASSUME NEW p \in Path, NEW q \in Path, NEW r \in Path, IsPrefix(p, q), IsPrefix(q, r)
    PROVE  IsPrefix(p, r)
<1>1. Len(p) \in Nat /\ Len(q) \in Nat /\ Len(r) \in Nat
  BY DEF Path
<1> QED BY <1>1, PrefixDef

\* Two prefixes of a path: one is a prefix of the other.
LEMMA PrefixesCompare ==
    ASSUME NEW p \in Path, NEW q \in Path, NEW r \in Path, IsPrefix(p, r), IsPrefix(q, r)
    PROVE  IsPrefix(p, q) \/ IsPrefix(q, p)
<1>1. Len(p) \in Nat /\ Len(q) \in Nat /\ Len(r) \in Nat
  BY DEF Path
<1> QED BY <1>1, PrefixDef

LEMMA PrefixAntisymmetric ==
    ASSUME NEW p \in Path, NEW q \in Path, IsPrefix(p, q), IsPrefix(q, p) \/ Len(q) <= Len(p)
    PROVE  p = q
<1>1. Len(p) \in Nat /\ Len(q) \in Nat
  BY DEF Path
<1>2. Len(p) = Len(q) /\ \A i \in 1 .. Len(p) : p[i] = q[i]
  BY <1>1, PrefixDef
<1> QED BY <1>2, SeqEqual DEF Path

\* A prefix of a path other than the path is one of its gallery's.
LEMMA PrefixOfFront ==
    ASSUME NEW p \in Path, NEW q \in Path, IsPrefix(p, q), p # q
    PROVE  q # << >> /\ IsPrefix(p, Front(q))
<1>1. Len(p) \in Nat /\ Len(q) \in Nat /\ Len(p) <= Len(q)
  BY PrefixDef DEF Path
<1>2. Len(p) # Len(q)
  BY <1>1, PrefixAntisymmetric
<1>3. q # << >>
  BY <1>1, <1>2, EmptySeq DEF Path
<1> QED BY <1>1, <1>2, <1>3, PrefixDef, FrontDef

LEMMA FrontIsPrefix ==
    ASSUME NEW p \in Path, p # << >>
    PROVE  IsPrefix(Front(p), p) /\ Front(p) # p
BY FrontDef, PrefixDef

\* The gallery of what moved, and that different nodes stay different.
LEMMA RebasedFront ==
    ASSUME NEW p \in Path, NEW from \in Path, NEW to \in Path, IsPrefix(from, p), p # from
    PROVE  /\ Rebased(p, from, to) # << >>
           /\ Front(Rebased(p, from, to)) = Rebased(Front(p), from, to)
<1>1. p # << >> /\ IsPrefix(from, Front(p)) /\ Front(p) \in Path
  BY PrefixOfFront, FrontDef
<1>2. Len(p) \in Nat /\ Len(from) \in Nat /\ Len(to) \in Nat /\ Len(from) <= Len(p)
  BY PrefixDef DEF Path
<1>3. Len(Front(p)) = Len(p) - 1 /\ \A i \in 1 .. Len(p) - 1 : Front(p)[i] = p[i]
  BY <1>1, FrontDef
<1>4. Len(from) <= Len(p) - 1
  BY <1>1, <1>3, PrefixDef
<1> DEFINE a == Rebased(p, from, to)
           b == Rebased(Front(p), from, to)
<1>5. /\ a \in Path /\ Len(a) = Len(to) + Len(p) - Len(from)
      /\ \A i \in 1 .. Len(to) : a[i] = to[i]
      /\ \A i \in Len(to) + 1 .. Len(to) + Len(p) - Len(from) : a[i] = p[i - Len(to) + Len(from)]
  BY RebasedDef
<1>6. /\ b \in Path /\ Len(b) = Len(to) + (Len(p) - 1) - Len(from)
      /\ \A i \in 1 .. Len(to) : b[i] = to[i]
      /\ \A i \in Len(to) + 1 .. Len(to) + (Len(p) - 1) - Len(from) :
            b[i] = Front(p)[i - Len(to) + Len(from)]
  <2> DEFINE f == Front(p)
  <2>1. /\ b \in Path /\ Len(b) = Len(to) + Len(f) - Len(from)
        /\ \A i \in 1 .. Len(to) : b[i] = to[i]
        /\ \A i \in Len(to) + 1 .. Len(to) + Len(f) - Len(from) : b[i] = f[i - Len(to) + Len(from)]
    BY <1>1, RebasedDef
  <2> QED BY <1>3, <2>1
<1> HIDE DEF a, b
<1>7. a # << >>
  BY <1>2, <1>4, <1>5, EmptySeq DEF Path
<1>8. Front(a) \in Path /\ Len(Front(a)) = Len(a) - 1 /\ \A i \in 1 .. Len(a) - 1 : Front(a)[i] = a[i]
  BY <1>5, <1>7, FrontDef
<1>9. \A i \in 1 .. Len(b) : Front(a)[i] = b[i]
  <2> TAKE i \in 1 .. Len(b)
  <2>1. i \in Nat /\ i \in 1 .. Len(a) - 1 /\ Front(a)[i] = a[i]
    BY <1>2, <1>5, <1>6, <1>8
  <2>2. CASE i <= Len(to)
    BY <1>2, <1>5, <1>6, <2>1, <2>2
  <2>3. CASE i > Len(to)
    <3>1. i \in Len(to) + 1 .. Len(to) + Len(p) - Len(from)
          /\ i \in Len(to) + 1 .. Len(to) + (Len(p) - 1) - Len(from)
          /\ i - Len(to) + Len(from) \in 1 .. Len(p) - 1
      BY <1>2, <1>6, <2>1, <2>3
    <3>2. a[i] = p[i - Len(to) + Len(from)] /\ b[i] = Front(p)[i - Len(to) + Len(from)]
      BY <1>5, <1>6, <3>1
    <3>3. Front(p)[i - Len(to) + Len(from)] = p[i - Len(to) + Len(from)]
      BY <1>3, <3>1
    <3> QED BY <2>1, <3>2, <3>3
  <2> QED BY <1>2, <2>1, <2>2, <2>3
<1>10. Front(a) = b
  <2>1. Len(Front(a)) = Len(b)
    BY <1>2, <1>5, <1>6, <1>8
  <2>2. \A i \in 1 .. Len(Front(a)) : Front(a)[i] = b[i]
    BY <1>9, <2>1
  <2> QED BY <1>6, <1>8, <2>1, <2>2, SeqEqual, Zenon DEF Path
<1> QED BY <1>7, <1>10 DEF a, b

LEMMA RebasedInjective ==
    ASSUME NEW p \in Path, NEW q \in Path, NEW from \in Path, NEW to \in Path,
           IsPrefix(from, p), IsPrefix(from, q), Rebased(p, from, to) = Rebased(q, from, to)
    PROVE  p = q
<1>1. /\ Len(p) \in Nat /\ Len(q) \in Nat /\ Len(from) \in Nat /\ Len(to) \in Nat
      /\ Len(from) <= Len(p) /\ Len(from) <= Len(q)
  BY PrefixDef DEF Path
<1>2. Len(p) = Len(q)
  BY <1>1, RebasedDef, SMTT(30)
<1>3. \A i \in 1 .. Len(from) : p[i] = q[i]
  BY PrefixDef
<1>4. \A i \in Len(from) + 1 .. Len(p) : p[i] = q[i]
  <2> TAKE i \in Len(from) + 1 .. Len(p)
  <2> DEFINE j == i - Len(from) + Len(to)
  <2>1. j \in Len(to) + 1 .. Len(to) + Len(p) - Len(from) /\ j - Len(to) + Len(from) = i
    BY <1>1
  <2> HIDE DEF j
  <2>2. Rebased(p, from, to)[j] = p[j - Len(to) + Len(from)]
        /\ Rebased(q, from, to)[j] = q[j - Len(to) + Len(from)]
    <3>1. \A k \in Len(to) + 1 .. Len(to) + Len(p) - Len(from) :
             Rebased(p, from, to)[k] = p[k - Len(to) + Len(from)]
      BY RebasedDef, Zenon
    <3>2. \A k \in Len(to) + 1 .. Len(to) + Len(q) - Len(from) :
             Rebased(q, from, to)[k] = q[k - Len(to) + Len(from)]
      BY RebasedDef, Zenon
    <3> QED BY <1>2, <2>1, <3>1, <3>2, Zenon
  <2> QED BY <2>1, <2>2
<1>5. \A i \in 1 .. Len(p) : p[i] = q[i]
  BY <1>1, <1>3, <1>4
<1> QED BY <1>2, <1>5, SeqEqual DEF Path

(***************************************************************************)
(* Trees.                                                                  *)
(***************************************************************************)

Tree(H, t) == t \subseteq Node(H) /\ IsTree(t) /\ IsFiniteSet(t)

\* What a path holds, in terms of nodes.
LEMMA HeldDef ==
    \A t, p, c : c \in Held(t, p) <=> \E n \in t : n.at = p /\ c \in n.holds
BY DEF Held

LEMMA ContentDef == \A t, c : c \in Content(t) <=> \E n \in t : c \in n.holds
BY DEF Content

LEMMA HeldInContent == \A t, p : Held(t, p) \subseteq Content(t)
BY HeldDef, ContentDef, Zenon

\* A smaller tree holds less.
LEMMA HeldShrinks == \A t, u, p : t \subseteq u => Held(t, p) \subseteq Held(u, p)
<1> TAKE t, u, p
<1> HAVE t \subseteq u
<1> SUFFICES ASSUME NEW c \in Held(t, p) PROVE c \in Held(u, p)
  OBVIOUS
<1> QED BY HeldDef

LEMMA ContentShrinks == \A t, u : t \subseteq u => Content(t) \subseteq Content(u)
<1> TAKE t, u
<1> HAVE t \subseteq u
<1> SUFFICES ASSUME NEW c \in Content(t) PROVE c \in Content(u)
  OBVIOUS
<1> QED BY ContentDef, Zenon

\* The image of a finite set is finite.
LEMMA ImageFinite ==
    ASSUME NEW S, NEW f, IsFiniteSet(S)
    PROVE  IsFiniteSet({f[x] : x \in S})
<1> DEFINE T == {f[x] : x \in S}
           g == [x \in S |-> f[x]]
<1>1. g \in Surjection(S, T)
  <2>1. g \in [S -> T]
    OBVIOUS
  <2>2. \A y \in T : \E x \in S : g[x] = y
    OBVIOUS
  <2> QED BY <2>1, <2>2 DEF Surjection
<1> QED BY <1>1, FS_Surjection

\* A set of paths has a shortest one.
LEMMA Shortest ==
    ASSUME NEW S, S # {}, S \subseteq Path
    PROVE  \E p \in S : \A q \in S : Len(p) <= Len(q)
<1> DEFINE T == {Len(p) : p \in S}
           R == {ss \in Nat \X Nat : ss[1] < ss[2]}
<1>1. T \subseteq Nat /\ T # {}
  <2>1. \A p \in S : Len(p) \in Nat
    BY DEF Path
  <2> QED BY <2>1
<1>2. IsWellFoundedOn(R, Nat)
  BY NatLessThanWellFounded, Zenon DEF OpToRel
<1>3. PICK m \in T : \A u \in T : ~(<<u, m>> \in R)
  <2> HIDE DEF T, R
  <2> QED BY <1>1, <1>2, WFMin, Zenon
<1>4. \A u \in T : m <= u
  <2> SUFFICES ASSUME NEW u \in T PROVE m <= u
    OBVIOUS
  <2> HIDE DEF T
  <2>1. u \in Nat /\ m \in Nat
    BY <1>1, <1>3
  <2>2. <<u, m>> \notin {ss \in Nat \X Nat : ss[1] < ss[2]}
    BY <1>3
  <2> QED BY <2>1, <2>2
<1>5. PICK p \in S : m = Len(p)
  BY <1>3
<1> QED BY <1>4, <1>5

\* A gallery without children has nothing below it, at any depth: what lies
\* below it has a shortest path, whose gallery would be shorter still.
LEMMA ChildlessIsLeaf ==
    ASSUME NEW H, NEW t, Tree(H, t), NEW p \in Path, Children(t, p) = {}
    PROVE  \A n \in t : IsPrefix(p, n.at) => n.at = p
<1> SUFFICES ASSUME \E n \in t : IsPrefix(p, n.at) /\ n.at # p PROVE FALSE
  BY Zenon
<1> DEFINE below == {n.at : n \in {m \in t : IsPrefix(p, m.at) /\ m.at # p}}
<1>1. below # {} /\ below \subseteq Path
  BY DEF Tree, Node
<1>2. PICK q \in below : \A r \in below : Len(q) <= Len(r)
  <2> HIDE DEF below
  <2> QED BY <1>1, Shortest
<1>3. PICK n \in t : n.at = q /\ IsPrefix(p, q) /\ q # p
  BY <1>2
<1>4. q \in Path
  BY <1>1, <1>2
<1>5. q # << >> /\ IsPrefix(p, Front(q)) /\ Front(q) \in Path /\ Len(Front(q)) = Len(q) - 1 /\ Len(q) \in Nat
  BY <1>3, <1>4, PrefixOfFront, FrontDef
<1>6. PICK g \in t : g.at = Front(q)
  BY <1>3, <1>5, Zenon DEF Tree, IsTree, Gallery
<1>7. Front(q) \notin below
  BY <1>2, <1>5
<1>8. Front(q) = p
  BY <1>5, <1>6, <1>7
<1>9. Len(n.at) = Len(p) + 1
  BY <1>3, <1>5, <1>8
<1>10. n \in Children(t, p)
  BY <1>3, <1>9 DEF Children, Under
<1> QED BY <1>10

\* What is below a path is there only if the path is: every step up from a node
\* is a gallery's place.
LEMMA NothingBelow ==
    ASSUME NEW H, NEW t, Tree(H, t), NEW p \in Path, ~Taken(t, p)
    PROVE  \A n \in t : ~IsPrefix(p, n.at)
<1> SUFFICES ASSUME \E n \in t : IsPrefix(p, n.at) PROVE FALSE
  BY Zenon
<1> DEFINE below == {n.at : n \in {m \in t : IsPrefix(p, m.at)}}
<1>1. below # {} /\ below \subseteq Path
  BY DEF Tree, Node
<1>2. PICK q \in below : \A r \in below : Len(q) <= Len(r)
  <2> HIDE DEF below
  <2> QED BY <1>1, Shortest
<1>3. PICK n \in t : n.at = q /\ IsPrefix(p, q)
  BY <1>2
<1>4. q \in Path /\ p # q
  BY <1>1, <1>2, <1>3 DEF Taken
<1>5. q # << >> /\ IsPrefix(p, Front(q)) /\ Front(q) \in Path /\ Len(Front(q)) = Len(q) - 1 /\ Len(q) \in Nat
  BY <1>3, <1>4, PrefixOfFront, FrontDef
<1>6. PICK g \in t : g.at = Front(q)
  BY <1>3, <1>5, Zenon DEF Tree, IsTree, Gallery
<1> QED BY <1>2, <1>5, <1>6

\* A set of nodes is a tree of H, in the terms in which the steps below show it.
LEMMA TreeIf ==
    ASSUME NEW H, NEW t,
           t \subseteq Node(H), IsFiniteSet(t), Gallery(t, << >>),
           \A n \in t : n.at # << >> => Gallery(t, Front(n.at)),
           \A n, m \in t : n.at = m.at => n = m,
           \A n \in t : n.what = "media" => Cardinality(n.holds) = 1
    PROVE  Tree(H, t)
BY DEF Tree, IsTree, Media

LEMMA TreeThen ==
    ASSUME NEW H, NEW t, Tree(H, t)
    PROVE  /\ t \subseteq Node(H) /\ IsFiniteSet(t) /\ Gallery(t, << >>) /\ Taken(t, << >>)
           /\ \A n \in t : n.at # << >> => Gallery(t, Front(n.at))
           /\ \A n, m \in t : n.at = m.at => n = m
           /\ \A n \in t : n.what = "media" => Cardinality(n.holds) = 1
           /\ \A n \in t : n.at \in Path /\ n.what \in {"gallery", "media"} /\ n.holds \subseteq H
BY DEF Tree, IsTree, Media, Node, Gallery, Taken

LEMMA NothingIsFinite == IsFiniteSet({}) /\ Cardinality({}) = 0
BY FS_EmptySet

\* A node added where nothing was, in a gallery.
LEMMA TreeAdded ==
    ASSUME NEW H, NEW t, Tree(H, t), NEW m \in Node(H), ~Taken(t, m.at),
           Gallery(t, Front(m.at)), m.what = "media" => Cardinality(m.holds) = 1
    PROVE  Tree(H, t \cup {m})
<1> DEFINE u == t \cup {m}
<1> USE TreeThen
<1>1. u \subseteq Node(H)
  OBVIOUS
<1>2. IsFiniteSet(u)
  BY FS_AddElement
<1>3. \A p : Gallery(t, p) => Gallery(u, p)
  BY DEF Gallery
<1>4. Gallery(u, << >>)
  BY <1>3
<1>5. \A n \in u : n.at # << >> => Gallery(u, Front(n.at))
  BY <1>3
<1>6. \A n, o \in u : n.at = o.at => n = o
  BY DEF Taken
<1>7. \A n \in u : n.what = "media" => Cardinality(n.holds) = 1
  OBVIOUS
<1> HIDE DEF u
<1> QED BY <1>1, <1>2, <1>4, <1>5, <1>6, <1>7, TreeIf DEF u

\* ensure_gallery_path gives a tree in which the gallery is, and nothing else
\* has changed.
LEMMA EnsuredIsTree ==
    ASSUME NEW H, NEW t, Tree(H, t), NEW p \in Path, MayEnsure(t, p)
    PROVE  /\ Tree(H, Ensured(t, p)) /\ Gallery(Ensured(t, p), p) /\ t \subseteq Ensured(t, p)
           /\ \A q : Held(Ensured(t, p), q) = Held(t, q)
<1>1. CASE Taken(t, p)
  BY <1>1 DEF Ensured, MayEnsure
<1>2. CASE ~Taken(t, p)
  <2> DEFINE m == [what |-> "gallery", at |-> p, holds |-> {}]
             u == t \cup {m}
  <2>1. m \in Node(H) /\ m.at = p /\ m.what = "gallery" /\ m.holds = {}
    BY DEF Node
  <2>2. Ensured(t, p) = u
    BY <1>2 DEF Ensured
  <2> HIDE DEF m
  <2>3. Tree(H, u)
    BY <1>2, <2>1, TreeAdded DEF MayEnsure
  <2>4. Gallery(u, p)
    BY <2>1 DEF Gallery
  <2>5. \A q : Held(u, q) = Held(t, q)
    BY <2>1 DEF Held
  <2> QED BY <2>2, <2>3, <2>4, <2>5
<1> QED BY <1>1, <1>2

\* merge_tag_provenance adds to what one gallery holds.
LEMMA MergedIsTree ==
    ASSUME NEW H, NEW t, Tree(H, t), NEW p \in Path, Gallery(t, p), NEW tags, tags \subseteq H
    PROVE  /\ Tree(H, Merged(t, p, tags))
           /\ \A q : Held(t, q) \subseteq Held(Merged(t, p, tags), q)
           /\ tags \subseteq Held(Merged(t, p, tags), p)
           /\ \A q : q # p => Held(Merged(t, p, tags), q) = Held(t, q)
<1> DEFINE f == [n \in t |-> IF n.at = p THEN [n EXCEPT !.holds = @ \cup tags] ELSE n]
           u == Merged(t, p, tags)
<1> USE TreeThen
<1>1. u = {f[n] : n \in t}
  BY DEF Merged
<1>2. \A n \in t : /\ f[n].at = n.at /\ f[n].what = n.what /\ n.holds \subseteq f[n].holds
                   /\ n.at # p => f[n] = n
                   /\ n.at = p => f[n].holds = n.holds \cup tags
                   /\ f[n] \in Node(H)
  BY DEF Node
<1>3. IsFiniteSet(u)
  <2> HIDE DEF f, u
  <2> QED BY <1>1, ImageFinite
<1>4. \A n \in t : n.at = p => n.what = "gallery"
  BY DEF Gallery
<1> HIDE DEF f, u
<1>5. u \subseteq Node(H)
  BY <1>1, <1>2
<1>6. \A q : Gallery(t, q) => Gallery(u, q)
  BY <1>1, <1>2 DEF Gallery
<1>7. \A n \in u : n.at # << >> => Gallery(u, Front(n.at))
  BY <1>1, <1>2, <1>6
<1>8. \A n, m \in u : n.at = m.at => n = m
  BY <1>1, <1>2
<1>9. \A n \in u : n.what = "media" => Cardinality(n.holds) = 1
  BY <1>1, <1>2, <1>4
<1>10. Tree(H, u)
  BY <1>3, <1>5, <1>6, <1>7, <1>8, <1>9, TreeIf
<1>11. \A q : Held(t, q) \subseteq Held(u, q)
  <2> SUFFICES ASSUME NEW q, NEW c \in Held(t, q) PROVE c \in Held(u, q)
    OBVIOUS
  <2>1. PICK n \in t : n.at = q /\ c \in n.holds
    BY HeldDef
  <2>2. f[n] \in u /\ f[n].at = q /\ c \in f[n].holds
    BY <1>1, <1>2, <2>1
  <2> QED BY <2>2, HeldDef
<1>12. tags \subseteq Held(u, p)
  <2> SUFFICES ASSUME NEW c \in tags PROVE c \in Held(u, p)
    OBVIOUS
  <2>1. PICK n \in t : n.at = p
    BY DEF Gallery
  <2>2. f[n] \in u /\ f[n].at = p /\ c \in f[n].holds
    BY <1>1, <1>2, <2>1
  <2> QED BY <2>2, HeldDef
<1>13. \A q : q # p => Held(u, q) \subseteq Held(t, q)
  <2> SUFFICES ASSUME NEW q, q # p, NEW c \in Held(u, q) PROVE c \in Held(t, q)
    OBVIOUS
  <2>1. PICK m \in u : m.at = q /\ c \in m.holds
    BY HeldDef
  <2>2. m \in t
    BY <1>1, <1>2, <2>1
  <2> QED BY <2>1, <2>2, HeldDef
<1>14. ASSUME NEW q, q # p PROVE Held(u, q) = Held(t, q)
  <2>1. Held(t, q) \subseteq Held(u, q)
    BY <1>11, Zenon
  <2>2. Held(u, q) \subseteq Held(t, q)
    BY <1>13, <1>14, Zenon
  <2> QED BY <2>1, <2>2, Zenon
<1>15. \A q : q # p => Held(u, q) = Held(t, q)
  BY <1>14, Zenon
<1> QED BY <1>10, <1>11, <1>12, <1>15, Zenon DEF u

\* remove_media_batch takes media, and a tree is left.
LEMMA WithoutMediaIsTree ==
    ASSUME NEW H, NEW t, Tree(H, t), NEW gone
    PROVE  Tree(H, WithoutMedia(t, gone))
<1> DEFINE u == WithoutMedia(t, gone)
<1> USE TreeThen
<1>1. u \subseteq t
  BY DEF WithoutMedia
<1>2. IsFiniteSet(u)
  BY <1>1, FS_Subset
<1>3. \A q : Gallery(t, q) => Gallery(u, q)
  BY DEF Gallery, WithoutMedia
<1> HIDE DEF u
<1>4. Tree(H, u)
  BY <1>1, <1>2, <1>3, TreeIf
<1> QED BY <1>4 DEF u

\* remove_gallery takes a gallery other than the root with all that is below it.
LEMMA WithoutIsTree ==
    ASSUME NEW H, NEW t, Tree(H, t), NEW p \in Path, p # << >>
    PROVE  Tree(H, t \ Under(t, p))
<1> DEFINE u == t \ Under(t, p)
<1> USE TreeThen
<1>1. u \subseteq t /\ \A n \in t : n \in u <=> ~IsPrefix(p, n.at)
  BY DEF Under
<1>2. IsFiniteSet(u)
  BY <1>1, FS_Subset
<1>3. Gallery(u, << >>)
  <2>1. ~IsPrefix(p, << >>)
    <3>1. << >> \in Path /\ IsPrefix(<< >>, p)
      BY PrefixReflexive DEF Path
    <3> QED BY <3>1, PrefixAntisymmetric
  <2> HIDE DEF u
  <2> QED BY <1>1, <2>1 DEF Gallery
<1> HIDE DEF u
<1>4. \A n \in u : n.at # << >> => Gallery(u, Front(n.at))
  <2> SUFFICES ASSUME NEW n \in u, n.at # << >> PROVE Gallery(u, Front(n.at))
    OBVIOUS
  <2>1. n \in t /\ n.at \in Path /\ ~IsPrefix(p, n.at)
    BY <1>1
  <2>2. PICK g \in t : g.at = Front(n.at) /\ g.what = "gallery"
    BY <2>1 DEF Gallery
  <2>3. Front(n.at) \in Path /\ IsPrefix(Front(n.at), n.at)
    BY <2>1, FrontDef, FrontIsPrefix
  <2>4. ~IsPrefix(p, Front(n.at))
    BY <2>1, <2>3, PrefixTransitive
  <2> QED BY <1>1, <2>2, <2>4 DEF Gallery
<1>5. Tree(H, u)
  BY <1>1, <1>2, <1>3, <1>4, TreeIf
<1> QED BY <1>5 DEF u

LEMMA RebasedRoot == \A p, to \in Path : Rebased(p, p, to) = to
<1> SUFFICES ASSUME NEW p \in Path, NEW to \in Path PROVE Rebased(p, p, to) = to
  OBVIOUS
<1> DEFINE q == Rebased(p, p, to)
<1>1. Len(p) \in Nat /\ Len(to) \in Nat /\ IsPrefix(p, p)
  BY PrefixReflexive DEF Path
<1>2. q \in Path /\ Len(q) = Len(to) + Len(p) - Len(p) /\ IsPrefix(to, q)
  BY <1>1, RebasedDef, Zenon
<1> HIDE DEF q
<1>3. Len(q) <= Len(to)
  BY <1>1, <1>2
<1>4. to = q
  BY <1>2, <1>3, PrefixAntisymmetric, Zenon
<1> QED BY <1>4 DEF q

\* move_node_within takes a subtree to a free place outside it: a tree with the
\* same content, in which what was not under `from` is where it was.
LEMMA MovedWithinIsTree ==
    ASSUME NEW H, NEW t, Tree(H, t), NEW s, s.from \in Path, s.to \in Path, MayMoveWithin(t, s)
    PROVE  /\ Tree(H, MovedWithin(t, s))
           /\ Content(MovedWithin(t, s)) = Content(t)
           /\ \A q \in Path : ~IsPrefix(s.from, q) =>
                 /\ Held(t, q) \subseteq Held(MovedWithin(t, s), q)
                 /\ ~IsPrefix(s.to, q) => Held(MovedWithin(t, s), q) \subseteq Held(t, q)
<1> DEFINE a == s.from
           b == s.to
           f == [n \in t |-> IF IsPrefix(a, n.at) THEN [n EXCEPT !.at = Rebased(n.at, a, b)] ELSE n]
           u == MovedWithin(t, s)
<1>1. /\ t \subseteq Node(H) /\ IsFiniteSet(t) /\ Gallery(t, << >>) /\ Taken(t, << >>)
      /\ \A n \in t : n.at # << >> => Gallery(t, Front(n.at))
      /\ \A n, m \in t : n.at = m.at => n = m
      /\ \A n \in t : n.what = "media" => Cardinality(n.holds) = 1
      /\ \A n \in t : n.at \in Path /\ n.what \in {"gallery", "media"} /\ n.holds \subseteq H
  BY TreeThen, Zenon
<1>2. a \in Path /\ b \in Path /\ Gallery(t, Front(b)) /\ ~Taken(t, b) /\ ~IsPrefix(a, b) /\ u = {f[n] : n \in t}
  BY DEF MayMoveWithin, MovedWithin
<1> HIDE DEF a, b
<1>3. \A n \in t : IsPrefix(a, n.at) => /\ Rebased(n.at, a, b) \in Path
                                        /\ IsPrefix(b, Rebased(n.at, a, b))
  BY <1>1, <1>2, RebasedDef
<1>4. \A n \in t : /\ f[n].what = n.what /\ f[n].holds = n.holds
                   /\ f[n].at = IF IsPrefix(a, n.at) THEN Rebased(n.at, a, b) ELSE n.at
                   /\ ~IsPrefix(a, n.at) => f[n] = n
                   /\ f[n] \in Node(H)
  BY <1>1, <1>3 DEF Node
<1>5. IsFiniteSet(u)
  <2> HIDE DEF f, u
  <2> QED BY <1>1, <1>2, ImageFinite
<1>6. \A n \in t : ~IsPrefix(b, n.at)
  BY <1>2, NothingBelow
<1> HIDE DEF f, u
<1>7. u \subseteq Node(H)
  BY <1>2, <1>4
<1>8. b # << >> /\ ~IsPrefix(a, Front(b)) /\ ~IsPrefix(a, << >>)
  <2>1. b # << >>
    BY <1>1, <1>2
  <2>2. IsPrefix(Front(b), b) /\ Front(b) \in Path /\ IsPrefix(<< >>, b) /\ << >> \in Path
    <3>1. << >> \in Path
      BY DEF Path
    <3>2. IsPrefix(<< >>, b)
      BY <1>2, PrefixReflexive
    <3>3. IsPrefix(Front(b), b) /\ Front(b) \in Path
      BY <1>2, <2>1, FrontIsPrefix, FrontDef
    <3> QED BY <3>1, <3>2, <3>3
  <2> QED BY <1>2, <2>1, <2>2, PrefixTransitive, Zenon
<1>9. \A n \in t : n.what = "gallery" =>
         Gallery(u, IF IsPrefix(a, n.at) THEN Rebased(n.at, a, b) ELSE n.at)
  BY <1>2, <1>4 DEF Gallery
<1>10. \A p : Gallery(t, p) /\ ~IsPrefix(a, p) => Gallery(u, p)
  BY <1>9 DEF Gallery
<1>11. \A p : Gallery(t, p) /\ IsPrefix(a, p) => Gallery(u, Rebased(p, a, b))
  BY <1>9 DEF Gallery
<1>12. ASSUME NEW n \in t, f[n].at # << >> PROVE Gallery(u, Front(f[n].at))
  <2>1. n.at \in Path
    BY <1>1
  <2>2. CASE ~IsPrefix(a, n.at)
    <3>1. n.at # << >> /\ f[n].at = n.at /\ Gallery(t, Front(n.at))
      BY <1>1, <1>4, <1>12, <2>2
    <3>2. Front(n.at) \in Path /\ IsPrefix(Front(n.at), n.at)
      BY <2>1, <3>1, FrontDef, FrontIsPrefix
    <3>3. ~IsPrefix(a, Front(n.at))
      BY <1>2, <2>1, <2>2, <3>2, PrefixTransitive
    <3> QED BY <1>10, <3>1, <3>3
  <2>3. CASE n.at = a
    <3>1. f[n].at = b
      <4>1. IsPrefix(a, a) /\ Rebased(a, a, b) = b
        BY <1>2, PrefixReflexive, RebasedRoot, Zenon
      <4> QED BY <1>4, <2>3, <4>1
    <3> QED BY <1>2, <1>8, <1>10, <3>1
  <2>4. CASE IsPrefix(a, n.at) /\ n.at # a
    <3>1. f[n].at = Rebased(n.at, a, b)
      BY <1>4, <2>4
    <3>2. Front(Rebased(n.at, a, b)) = Rebased(Front(n.at), a, b)
      BY <1>2, <2>1, <2>4, RebasedFront, Zenon
    <3>3. n.at # << >> /\ IsPrefix(a, Front(n.at))
      BY <1>2, <2>1, <2>4, PrefixOfFront, Zenon
    <3>4. Gallery(t, Front(n.at))
      BY <1>1, <3>3
    <3> QED BY <1>11, <3>1, <3>2, <3>3, <3>4
  <2> QED BY <2>2, <2>3, <2>4
<1>13. ASSUME NEW n \in t, NEW m \in t, f[n].at = f[m].at PROVE f[n] = f[m]
  <2>1. CASE IsPrefix(a, n.at) /\ IsPrefix(a, m.at)
    <3>1. Rebased(n.at, a, b) = Rebased(m.at, a, b)
      BY <1>4, <1>13, <2>1
    <3>2. n.at = m.at
      BY <1>1, <1>2, <2>1, <3>1, RebasedInjective
    <3> QED BY <1>1, <3>2
  <2>2. CASE ~IsPrefix(a, n.at) /\ ~IsPrefix(a, m.at)
    BY <1>1, <1>4, <1>13, <2>2
  <2>3. CASE IsPrefix(a, n.at) /\ ~IsPrefix(a, m.at)
    BY <1>3, <1>4, <1>6, <1>13, <2>3
  <2>4. CASE ~IsPrefix(a, n.at) /\ IsPrefix(a, m.at)
    BY <1>3, <1>4, <1>6, <1>13, <2>4
  <2> QED BY <2>1, <2>2, <2>3, <2>4
<1>14. Tree(H, u)
  <2>1. Gallery(u, << >>)
    BY <1>1, <1>8, <1>10
  <2>2. \A n \in u : n.at # << >> => Gallery(u, Front(n.at))
    BY <1>2, <1>12
  <2>3. \A n, m \in u : n.at = m.at => n = m
    BY <1>2, <1>13
  <2>4. \A n \in u : n.what = "media" => Cardinality(n.holds) = 1
    BY <1>1, <1>2, <1>4
  <2> QED BY <1>5, <1>7, <2>1, <2>2, <2>3, <2>4, TreeIf
<1>15. Content(u) = Content(t)
  <2>1. \A c : c \in Content(u) <=> \E m \in u : c \in m.holds
    BY ContentDef
  <2>2. \A c : c \in Content(t) <=> \E m \in t : c \in m.holds
    BY ContentDef
  <2>3. \A c : (\E m \in u : c \in m.holds) <=> \E m \in t : c \in m.holds
    BY <1>2, <1>4
  <2>4. \A c : c \in Content(u) <=> c \in Content(t)
    BY <2>1, <2>2, <2>3
  <2> QED BY <2>4
<1>16. ASSUME NEW q \in Path, ~IsPrefix(a, q), NEW c \in Held(t, q) PROVE c \in Held(u, q)
  <2>1. PICK n \in t : n.at = q /\ c \in n.holds
    BY HeldDef
  <2>2. n \in u
    BY <1>2, <1>4, <1>16, <2>1
  <2> QED BY <2>1, <2>2, HeldDef
<1>17. ASSUME NEW q \in Path, ~IsPrefix(b, q), NEW c \in Held(u, q) PROVE c \in Held(t, q)
  <2>1. PICK m \in u : m.at = q /\ c \in m.holds
    BY HeldDef
  <2>2. PICK n \in t : m = f[n]
    BY <1>2
  <2>3. m = n
    BY <1>3, <1>4, <1>17, <2>1, <2>2
  <2> QED BY <2>1, <2>3, HeldDef
<1> QED BY <1>14, <1>15, <1>16, <1>17 DEF u, a, b

(***************************************************************************)
(* Types.                                                                  *)
(***************************************************************************)

Trees(H, f) == f \in [Vault -> SUBSET Node(H)] /\ \A v \in Vault : Tree(H, f[v])

Phases == {"idle", "copy", "flush", "last", "watermark", "remove", "prune", "within", "ok", "error"}
Step == [what : {"gallery", "media"}, from : Path, to : Path]
Ctx == [pc : Phases, kind : {"none", "images", "gallery"}, from : Path, todo : SUBSET Step,
        pending : SUBSET Path, moved : SUBSET Path, dirty : BOOLEAN, failed : BOOLEAN,
        heeds : BOOLEAN, bad : SUBSET Path, prune : SUBSET (Path \ {<< >>})]
Frame == [step : {"merge", "media", "list", "subs"}, at : Path \ {<< >>}, to : Path,
          subs : SUBSET (Path \ {<< >>}), heeds : BOOLEAN]

\* The context of a driver: what waits for a commit is a batch that the next
\* copy may still join, and makes the destination dirty.
CopyTyped(c) ==
    /\ c \in Ctx /\ IsFiniteSet(c.todo) /\ IsFiniteSet(c.pending) /\ IsFiniteSet(c.moved)
    /\ Cardinality(c.pending) <= Batch
    /\ c.pc = "copy" => Cardinality(c.pending) < Batch
    /\ c.pending # {} => c.dirty

JobTyped ==
    /\ job \in [phase : {"idle", "running", "ended"}, cancel : BOOLEAN, error : BOOLEAN]
    /\ Running => task \in Task
CallersTyped == (Running => rest \subseteq task.paths) /\ stack \in Seq(Frame)
CountersTyped ==
    /\ tally \in [done : Nat, failed : Nat, skipped : Nat]
    /\ faults \in 0 .. MaxFaults /\ crashes \in 0 .. MaxCrashes /\ jobs \in 0 .. MaxJobs
Types ==
    /\ Trees(had, live) /\ Trees(had, disk)
    /\ JobTyped /\ CopyTyped(copy) /\ CallersTyped /\ CountersTyped

LEMMA OneTreeSet ==
    ASSUME NEW H, NEW f, Trees(H, f), NEW v \in Vault, NEW t, Tree(H, t)
    PROVE  Trees(H, [f EXCEPT ![v] = t])
BY DEF Trees, Tree

LEMMA TypesOfTask ==
    ASSUME NEW t \in Task
    PROVE  /\ t.src \in Vault /\ t.dst \in Vault /\ t.to \in Path
           /\ t.paths \subseteq Path \ {<< >>} /\ IsFiniteSet(t.paths)
BY TaskAssumption

\* The two ends of the task of a running job.
LEMMA RunningTypes ==
    Types /\ Running => /\ src \in Vault /\ dst \in Vault /\ task.to \in Path
                        /\ rest \subseteq Path \ {<< >>}
                        /\ Tree(had, live[src]) /\ Tree(had, live[dst])
                        /\ Tree(had, disk[src]) /\ Tree(had, disk[dst])
<1> HAVE Types /\ Running
<1>1. task \in Task /\ rest \subseteq task.paths
  BY DEF Types, JobTyped, CallersTyped
<1>2. src \in Vault /\ dst \in Vault /\ task.to \in Path /\ task.paths \subseteq Path \ {<< >>}
  BY <1>1, TypesOfTask DEF src, dst
<1> QED BY <1>1, <1>2 DEF Types, Trees

\* The galleries and files of a subtree are steps of its transfer.
LEMMA SubtreeTypes ==
    ASSUME NEW H, NEW t, Tree(H, t), NEW p \in Path, NEW to \in Path
    PROVE  /\ SubtreeSteps(t, p, to) \subseteq Step /\ IsFiniteSet(SubtreeSteps(t, p, to))
           /\ p # << >> => SubtreeGalleries(t, p) \subseteq Path \ {<< >>}
<1> DEFINE f == [n \in Under(t, p) |-> StepOf(n.what, n.at, p, to)]
<1>1. \A n \in t : n.at \in Path /\ n.what \in {"gallery", "media"}
  BY TreeThen
<1>2. Under(t, p) \subseteq t /\ \A n \in Under(t, p) : IsPrefix(p, n.at)
  BY DEF Under
<1>3. IsFiniteSet(Under(t, p))
  BY <1>2, TreeThen, FS_Subset
<1>4. SubtreeSteps(t, p, to) = {f[n] : n \in Under(t, p)}
  BY DEF SubtreeSteps
<1>5. \A n \in Under(t, p) : f[n] \in Step
  <2> SUFFICES ASSUME NEW n \in Under(t, p) PROVE StepOf(n.what, n.at, p, to) \in Step
    OBVIOUS
  <2>1. n.at \in Path /\ n.what \in {"gallery", "media"} /\ IsPrefix(p, n.at)
    BY <1>1, <1>2
  <2>2. Rebased(n.at, p, to) \in Path
    BY <2>1, RebasedDef, Zenon
  <2> HIDE DEF f
  <2> QED BY <2>1, <2>2 DEF Step, StepOf
<1>6. IsFiniteSet(SubtreeSteps(t, p, to))
  <2> HIDE DEF f
  <2> QED BY <1>3, <1>4, ImageFinite
<1>7. SubtreeSteps(t, p, to) \subseteq Step
  <2> HIDE DEF f
  <2> QED BY <1>4, <1>5
<1>8. ASSUME p # << >> PROVE SubtreeGalleries(t, p) \subseteq Path \ {<< >>}
  <2> SUFFICES ASSUME NEW n \in Under(t, p) PROVE n.at \in Path /\ n.at # << >>
    BY DEF SubtreeGalleries, Paths, Galleries
  <2>1. n.at \in Path /\ IsPrefix(p, n.at)
    BY <1>1, <1>2
  <2>2. << >> \in Path /\ IsPrefix(<< >>, p)
    BY PrefixReflexive DEF Path
  <2> QED BY <1>8, <2>1, <2>2, PrefixAntisymmetric
<1> QED BY <1>6, <1>7, <1>8

\* The files of one gallery likewise; each lies below it.
LEMMA MediaStepsTypes ==
    ASSUME NEW H, NEW t, Tree(H, t), NEW p \in Path, NEW to \in Path
    PROVE  /\ MediaSteps(t, p, to) \subseteq Step /\ IsFiniteSet(MediaSteps(t, p, to))
           /\ \A s \in MediaSteps(t, p, to) : IsStrictPrefix(p, s.from) /\ IsPrefix(to, s.to)
<1> DEFINE C == Paths(Media(Children(t, p)))
           f == [q \in C |-> StepOf("media", q, p, to)]
<1>1. \A q \in C : \E n \in t : n.at = q /\ IsPrefix(p, n.at) /\ Len(n.at) = Len(p) + 1
  BY DEF Paths, Media, Children, Under
<1>2. \A q \in C : q \in Path /\ IsPrefix(p, q) /\ q # p
  <2>1. Len(p) \in Nat
    BY DEF Path
  <2>2. \A n \in t : n.at \in Path
    BY TreeThen
  <2> HIDE DEF C
  <2> QED BY <1>1, <2>1, <2>2
<1>3. IsFiniteSet(C)
  <2>1. IsFiniteSet(Media(Children(t, p)))
    <3>1. Media(Children(t, p)) \subseteq t
      BY DEF Media, Children, Under
    <3> QED BY <3>1, TreeThen, FS_Subset
  <2> DEFINE M == Media(Children(t, p))
             g == [n \in M |-> n.at]
  <2>2. C = {g[n] : n \in M}
    BY DEF Paths
  <2> HIDE DEF M, g, C
  <2>3. IsFiniteSet({g[n] : n \in M})
    BY <2>1, ImageFinite DEF M
  <2> QED BY <2>2, <2>3
<1>4. MediaSteps(t, p, to) = {f[q] : q \in C}
  BY DEF MediaSteps
<1>5. \A q \in C : f[q] \in Step /\ f[q].from = q /\ IsPrefix(to, f[q].to)
  <2> SUFFICES ASSUME NEW q \in C
               PROVE  /\ StepOf("media", q, p, to) \in Step
                      /\ StepOf("media", q, p, to).from = q
                      /\ IsPrefix(to, StepOf("media", q, p, to).to)
    OBVIOUS
  <2>1. q \in Path /\ IsPrefix(p, q)
    BY <1>2
  <2>2. Rebased(q, p, to) \in Path /\ IsPrefix(to, Rebased(q, p, to))
    BY <2>1, RebasedDef, Zenon
  <2> HIDE DEF C, f
  <2> QED BY <2>1, <2>2 DEF Step, StepOf
<1>6. IsFiniteSet(MediaSteps(t, p, to))
  <2> HIDE DEF C, f
  <2> QED BY <1>3, <1>4, ImageFinite
<1> HIDE DEF C, f
<1> QED BY <1>2, <1>4, <1>5, <1>6 DEF IsStrictPrefix

LEMMA IdleTyped == CopyTyped(Idle)
BY NothingIsFinite, BoundsAssumption DEF CopyTyped, Idle, Ctx, Phases, Path

\* A driver starts without a batch.
LEMMA ImagesTyped ==
    ASSUME NEW within \in BOOLEAN, NEW steps, steps \subseteq Step, IsFiniteSet(steps),
           NEW heeds \in BOOLEAN
    PROVE  CopyTyped(Images(within, steps, heeds))
<1> DEFINE c == Images(within, steps, heeds)
<1>0. << >> \in Path /\ steps \in SUBSET Step
  BY DEF Path
<1>1. c \in Ctx
  BY <1>0 DEF Images, Idle, Ctx, Phases
<1>2. c.todo = steps /\ c.pending = {} /\ c.moved = {}
  BY DEF Images, Idle
<1> HIDE DEF c
<1> QED BY <1>1, <1>2, NothingIsFinite, BoundsAssumption DEF CopyTyped, c

LEMMA SubtreeTyped ==
    ASSUME Types, Running, NEW p \in Path, p # << >>, NEW to \in Path, NEW heeds \in BOOLEAN
    PROVE  CopyTyped(Subtree(p, to, heeds))
<1> DEFINE c == Subtree(p, to, heeds)
           one == StepOf("gallery", p, p, to)
<1>1. Tree(had, live[src])
  BY RunningTypes
<1>2. SubtreeSteps(live[src], p, to) \in SUBSET Step /\ IsFiniteSet(SubtreeSteps(live[src], p, to))
      /\ SubtreeGalleries(live[src], p) \in SUBSET (Path \ {<< >>})
  BY <1>1, SubtreeTypes
<1>3. {one} \in SUBSET Step /\ IsFiniteSet({one})
  <2>1. Rebased(p, p, to) \in Path
    BY RebasedRoot
  <2>2. one \in Step
    BY <2>1 DEF Step, StepOf
  <2> HIDE DEF one
  <2> QED BY <2>2, FS_Singleton
<1>4. c.pending = {} /\ c.moved = {} /\ c.todo \in {{one}, SubtreeSteps(live[src], p, to)}
  BY DEF Subtree, Idle
<1>6. IsFiniteSet(c.todo)
  <2> HIDE DEF c, one
  <2> QED BY <1>2, <1>3, <1>4, Zenon
<1>5. c \in Ctx
  <2> HIDE DEF one
  <2>1. CASE Within
    BY <1>3, <2>1 DEF Subtree, Idle, Ctx, Phases, one
  <2>2. CASE ~Within
    BY <1>2, <2>2 DEF Subtree, Idle, Ctx, Phases
  <2> QED BY <2>1, <2>2
<1> HIDE DEF c, one
<1> QED BY <1>4, <1>5, <1>6, NothingIsFinite, BoundsAssumption DEF CopyTyped, c

\* A driver has one step less to take.
LEMMA SkippedTyped ==
    ASSUME NEW c, CopyTyped(c), NEW s
    PROVE  CopyTyped(Skipped(c, s)) /\ Skipped(c, s).pending = c.pending
<1>1. IsFiniteSet(c.todo \ {s}) /\ c.todo \ {s} \subseteq c.todo
  BY FS_RemoveElement DEF CopyTyped
<1> QED BY <1>1 DEF CopyTyped, Skipped, Ctx

\* The answer of a commit empties the batch.
LEMMA FlushedTyped ==
    ASSUME NEW c, CopyTyped(c), NEW ok \in BOOLEAN, NEW pc \in Phases
    PROVE  CopyTyped([Flushed(c, ok) EXCEPT !.pc = pc])
<1> DEFINE d == [Flushed(c, ok) EXCEPT !.pc = pc]
<1>1. IsFiniteSet(c.moved \cup c.pending)
  BY FS_Union DEF CopyTyped
<1>2. d \in Ctx
  BY DEF Flushed, CopyTyped, Ctx
<1>3. d.todo = c.todo /\ d.pending = {} /\ d.moved \in {c.moved, c.moved \cup c.pending}
  BY DEF Flushed, CopyTyped, Ctx
<1> HIDE DEF d
<1> QED BY <1>1, <1>2, <1>3, NothingIsFinite, BoundsAssumption DEF CopyTyped, d

(***************************************************************************)
(* Type correctness, one part at a time.                                   *)
(***************************************************************************)

LEMMA CommitTyped ==
    ASSUME NEW v \in Vault, NEW t, Tree(had, t), Trees(had, disk), NEW outcome, Commit(v, t, outcome)
    PROVE  Trees(had, disk')
<1>1. disk' = disk \/ disk' = [disk EXCEPT ![v] = t]
  BY DEF Commit
<1> QED BY <1>1, OneTreeSet

\* Every step leaves trees of what there was, in memory and on disk.
LEMMA TreesStep ==
    ASSUME Types, [Next]_vars
    PROVE  Trees(had, live') /\ Trees(had, disk') /\ had' = had
<1> USE DEF Live
<1>0. Trees(had, live) /\ Trees(had, disk) /\ CopyTyped(copy) /\ stack \in Seq(Frame)
  BY DEF Types, CallersTyped
<1>r. ASSUME Running
      PROVE  /\ src \in Vault /\ dst \in Vault
             /\ Tree(had, live[src]) /\ Tree(had, live[dst])
  BY <1>r, RunningTypes
<1>s. \A s \in copy.todo : s.from \in Path /\ s.to \in Path
  BY <1>0 DEF CopyTyped, Ctx, Step
<1>h. \A t, p : Tree(had, t) => Held(t, p) \subseteq had
  <2> SUFFICES ASSUME NEW t, NEW p, Tree(had, t), NEW c \in Held(t, p) PROVE c \in had
    OBVIOUS
  <2> QED BY HeldDef, TreeThen
<1>1. ASSUME NEW s \in copy.todo, CopyGallery(s) PROVE Trees(had, live') /\ Trees(had, disk') /\ had' = had
  <2>1. Running /\ MayEnsure(live[dst], s.to)
        /\ live' = [live EXCEPT ![dst] = Merged(Ensured(live[dst], s.to), s.to, Held(live[src], s.from))]
        /\ disk' = disk /\ had' = had
    BY <1>1 DEF CopyGallery, Copies, trees, bounds
  <2> DEFINE u == Ensured(live[dst], s.to)
  <2>2. Tree(had, u) /\ Gallery(u, s.to)
    BY <1>r, <1>s, <2>1, EnsuredIsTree
  <2>3. Held(live[src], s.from) \subseteq had
    BY <1>h, <1>r, <2>1
  <2> HIDE DEF u
  <2>4. Tree(had, Merged(u, s.to, Held(live[src], s.from)))
    BY <1>s, <2>2, <2>3, MergedIsTree
  <2> QED BY <1>0, <1>r, <2>1, <2>4, OneTreeSet DEF u
<1>2. ASSUME NEW s \in copy.todo, CopyGalleryFails(s) PROVE Trees(had, live') /\ Trees(had, disk') /\ had' = had
  <2>1. Running /\ disk' = disk /\ had' = had
    BY <1>2 DEF CopyGalleryFails, Copies, trees, bounds
  <2>2. PICK ensured \in {FALSE, MayEnsure(live[dst], s.to)} :
           live' = [live EXCEPT ![dst] = IF ensured THEN Ensured(live[dst], s.to) ELSE live[dst]]
    BY <1>2 DEF CopyGalleryFails
  <2>3. Tree(had, IF ensured THEN Ensured(live[dst], s.to) ELSE live[dst])
    BY <1>r, <1>s, <2>1, <2>2, EnsuredIsTree
  <2> QED BY <1>0, <1>r, <2>1, <2>2, <2>3, OneTreeSet
<1>3. ASSUME NEW s \in copy.todo, CopyMedia(s) PROVE Trees(had, live') /\ Trees(had, disk') /\ had' = had
  <2> DEFINE m == [what |-> "media", at |-> s.to, holds |-> Held(live[src], s.from)]
  <2>1. /\ Running /\ disk' = disk /\ had' = had
        /\ MediaAt(live[src], s.from) /\ ~Taken(live[dst], s.to) /\ Gallery(live[dst], Front(s.to))
        /\ live' = [live EXCEPT ![dst] = live[dst] \cup {m}]
    BY <1>3 DEF CopyMedia, Copies, trees, bounds
  <2>2. m \in Node(had)
    BY <1>h, <1>r, <1>s, <2>1 DEF Node
  <2>3. Cardinality(m.holds) = 1
    <3>1. PICK n \in live[src] : n.at = s.from /\ n.what = "media"
      BY <2>1 DEF MediaAt
    <3>2. {o \in live[src] : o.at = s.from} = {n}
      BY <1>r, <2>1, <3>1, TreeThen
    <3>3. m.holds = n.holds
      BY <3>2 DEF Held
    <3> QED BY <1>r, <2>1, <3>1, <3>3, TreeThen
  <2>4. Tree(had, live[dst] \cup {m})
    <3>1. m.at = s.to
      OBVIOUS
    <3> HIDE DEF m
    <3> QED BY <1>r, <2>1, <2>2, <2>3, <3>1, TreeAdded
  <2> HIDE DEF m
  <2> QED BY <1>0, <1>r, <2>1, <2>4, OneTreeSet
<1>4. ASSUME Flush PROVE Trees(had, live') /\ Trees(had, disk') /\ had' = had
  <2>1. Running /\ live' = live /\ had' = had
    BY <1>4 DEF Flush, trees, bounds
  <2>2. disk' = disk \/ \E outcome \in Outcome : Commit(dst, live[dst], outcome)
    BY <1>4 DEF Flush
  <2> QED BY <1>0, <1>r, <2>1, <2>2, CommitTyped
<1>5. ASSUME LowerWatermark PROVE Trees(had, live') /\ Trees(had, disk') /\ had' = had
  <2>1. Running /\ live' = live /\ had' = had
    BY <1>5 DEF LowerWatermark, trees, bounds
  <2>2. disk' = disk \/ \E outcome \in Outcome : Commit(dst, live[dst], outcome)
    BY <1>5 DEF LowerWatermark
  <2> QED BY <1>0, <1>r, <2>1, <2>2, CommitTyped
<1>6. ASSUME RemoveMoved PROVE Trees(had, live') /\ Trees(had, disk') /\ had' = had
  <2> DEFINE kept == WithoutMedia(live[src], copy.moved)
  <2>1. Running /\ had' = had
    BY <1>6 DEF RemoveMoved, bounds
  <2>2. \/ live' = live /\ disk' = disk
        \/ /\ live' = [live EXCEPT ![src] = kept]
           /\ \E outcome \in Outcome : Commit(src, kept, outcome)
    BY <1>6 DEF RemoveMoved, trees
  <2>3. Tree(had, kept)
    <3>1. Tree(had, live[src])
      BY <1>r, <2>1
    <3> QED BY <3>1, WithoutMediaIsTree, Zenon
  <2> HIDE DEF kept
  <2> QED BY <1>0, <1>r, <2>1, <2>2, <2>3, CommitTyped, OneTreeSet
<1>7. ASSUME Prune PROVE Trees(had, live') /\ Trees(had, disk') /\ had' = had
  <2>1. Running /\ had' = had
    BY <1>7 DEF Prune, bounds
  <2>2. \/ live' = live /\ disk' = disk
        \/ \E p \in copy.prune :
             /\ live' = [live EXCEPT ![src] = live[src] \ Under(live[src], p)]
             /\ \E outcome \in Outcome : Commit(src, live[src] \ Under(live[src], p), outcome)
    BY <1>7 DEF Prune, trees
  <2>3. ASSUME NEW p \in copy.prune,
               live' = [live EXCEPT ![src] = live[src] \ Under(live[src], p)],
               NEW outcome \in Outcome, Commit(src, live[src] \ Under(live[src], p), outcome)
        PROVE  Trees(had, live') /\ Trees(had, disk')
    <3> DEFINE t == live[src] \ Under(live[src], p)
    <3>1. p \in Path /\ p # << >>
      BY <1>0 DEF CopyTyped, Ctx
    <3>2. Tree(had, t)
      BY <1>r, <2>1, <3>1, WithoutIsTree
    <3> HIDE DEF t
    <3>3. Trees(had, live')
      BY <1>0, <1>r, <2>1, <2>3, <3>2, OneTreeSet DEF t
    <3>4. Trees(had, disk')
      BY <1>0, <1>r, <2>1, <2>3, <3>2, CommitTyped DEF t
    <3> QED BY <3>3, <3>4
  <2> QED BY <1>0, <2>1, <2>2, <2>3
<1>8. ASSUME NEW s \in copy.todo, MoveWithin(s) PROVE Trees(had, live') /\ Trees(had, disk') /\ had' = had
  <2>1. Running /\ had' = had
    BY <1>8 DEF MoveWithin, bounds
  <2>2. \/ live' = live /\ disk' = disk
        \/ /\ MayMoveWithin(live[src], s)
           /\ live' = [live EXCEPT ![src] = MovedWithin(live[src], s)]
           /\ \E outcome \in Outcome : Commit(src, MovedWithin(live[src], s), outcome)
    BY <1>8 DEF MoveWithin, trees
  <2>3. MayMoveWithin(live[src], s) => Tree(had, MovedWithin(live[src], s))
    BY <1>r, <1>s, <2>1, MovedWithinIsTree
  <2> QED BY <1>0, <1>r, <2>1, <2>2, <2>3, CommitTyped, OneTreeSet
<1>9. ASSUME CombineTags PROVE Trees(had, live') /\ Trees(had, disk') /\ had' = had
  <2> DEFINE t == Merged(live[dst], Top.to, Held(live[src], Top.at))
  <2>1. Running /\ had' = had /\ stack # << >>
    BY <1>9 DEF CombineTags, Combines, bounds
  <2>2. \/ live' = live /\ disk' = disk
        \/ /\ Gallery(live[dst], Top.to)
           /\ live' = live \/ live' = [live EXCEPT ![dst] = t]
           /\ \E outcome \in Outcome : Commit(dst, t, outcome)
    BY <1>9 DEF CombineTags, trees
  <2>3. Gallery(live[dst], Top.to) => Tree(had, t)
    <3>1. Top.to \in Path
      <4>1. Top \in Frame
        BY <1>0, <2>1, EmptySeq DEF Top, Last
      <4> QED BY <4>1 DEF Frame
    <3>2. Held(live[src], Top.at) \subseteq had
      BY <1>h, <1>r, <2>1
    <3> QED BY <1>r, <2>1, <3>1, <3>2, MergedIsTree
  <2> HIDE DEF t
  <2> QED BY <1>0, <1>r, <2>1, <2>2, <2>3, CommitTyped, OneTreeSet
<1>10. ASSUME CombineEnds PROVE Trees(had, live') /\ Trees(had, disk') /\ had' = had
  <2> DEFINE t == live[src] \ Under(live[src], Top.at)
  <2>1. Running /\ had' = had /\ stack # << >>
    BY <1>10 DEF CombineEnds, Combines, bounds
  <2>2. \/ live' = live /\ disk' = disk
        \/ /\ live' = [live EXCEPT ![src] = t]
           /\ \E outcome \in Outcome : Commit(src, t, outcome)
    BY <1>10 DEF CombineEnds, trees
  <2>3. Tree(had, t)
    <3>1. Top.at \in Path /\ Top.at # << >>
      <4>1. Top \in Frame
        BY <1>0, <2>1, EmptySeq DEF Top, Last
      <4> QED BY <4>1 DEF Frame
    <3> QED BY <1>r, <2>1, <3>1, WithoutIsTree
  <2> HIDE DEF t
  <2> QED BY <1>0, <1>r, <2>1, <2>2, <2>3, CommitTyped, OneTreeSet
<1>11. ASSUME Crash PROVE Trees(had, live') /\ Trees(had, disk') /\ had' = had
  BY <1>0, <1>11 DEF Crash
<1>12. ASSUME UNCHANGED <<live, disk, had>> PROVE Trees(had, live') /\ Trees(had, disk') /\ had' = had
  BY <1>0, <1>12
<1>13. ASSUME \/ \E s \in copy.todo : SkipMedia(s) \/ CopyMediaFails(s)
              \/ CopyEnds \/ MoveWithinEnds \/ Return \/ \E p \in rest : NextGallery(p)
              \/ CombineMedia \/ CombineList \/ \E p \in Top.subs : CombineChild(p)
              \/ \E t \in Task : Launch(t)
              \/ Cancel \/ JobEnds \/ UNCHANGED vars
       PROVE  UNCHANGED <<live, disk, had>>
  BY <1>13 DEF SkipMedia, CopyMediaFails, CopyEnds, MoveWithinEnds, Return, NextGallery, CombineMedia,
               CombineList, CombineChild, Launch, Cancel, JobEnds, vars, trees, bounds
<1> QED BY <1>1, <1>2, <1>3, <1>4, <1>5, <1>6, <1>7, <1>8, <1>9, <1>10, <1>11, <1>12, <1>13 DEF Next

\* The frame that runs, and the stack with another in its place.
LEMMA StackTypes ==
    ASSUME stack \in Seq(Frame), stack # << >>
    PROVE  /\ Top \in Frame /\ Top = stack[Len(stack)] /\ Len(stack) \in Nat \ {0}
           /\ Front(stack) \in Seq(Frame) /\ Len(Front(stack)) = Len(stack) - 1
           /\ \A i \in 1 .. Len(stack) - 1 : Front(stack)[i] = stack[i]
           /\ \A f \in Frame :
                /\ WithTop(f) \in Seq(Frame) /\ Len(WithTop(f)) = Len(stack)
                /\ WithTop(f)[Len(stack)] = f
                /\ \A i \in 1 .. Len(stack) - 1 : WithTop(f)[i] = stack[i]
<1>1. /\ Top \in Frame /\ Top = stack[Len(stack)] /\ Len(stack) \in Nat \ {0}
      /\ Front(stack) \in Seq(Frame) /\ Len(Front(stack)) = Len(stack) - 1
      /\ \A i \in 1 .. Len(stack) - 1 : Front(stack)[i] = stack[i]
  BY SeqFront DEF Top
<1>2. ASSUME NEW f \in Frame
      PROVE  /\ WithTop(f) \in Seq(Frame) /\ Len(WithTop(f)) = Len(stack)
             /\ WithTop(f)[Len(stack)] = f
             /\ \A i \in 1 .. Len(stack) - 1 : WithTop(f)[i] = stack[i]
  <2> DEFINE g == Front(stack)
             r == Append(g, f)
             n == Len(stack)
  <2>1. /\ r \in Seq(Frame) /\ Len(r) = Len(g) + 1
        /\ r[Len(g) + 1] = f /\ \A i \in 1 .. Len(g) : r[i] = g[i]
    BY <1>1, SeqAppend
  <2>2. WithTop(f) = r
    BY DEF WithTop
  <2>3. n \in Nat \ {0} /\ Len(g) = n - 1 /\ \A i \in 1 .. n - 1 : g[i] = stack[i]
    BY <1>1
  <2> HIDE DEF g, r, n
  <2>4. Len(g) + 1 = n
    BY <2>3
  <2>5. /\ r \in Seq(Frame) /\ Len(r) = n /\ r[n] = f /\ \A i \in 1 .. n - 1 : r[i] = stack[i]
    BY <2>1, <2>3, <2>4
  <2> QED BY <2>2, <2>5 DEF n
<1> QED BY <1>1, <1>2

LEMMA JobStep ==
    ASSUME Types, [Next]_vars
    PROVE  JobTyped'
<1>0. JobTyped
  BY DEF Types
<1>1. ASSUME NEW t \in Task, Launch(t) PROVE JobTyped'
  BY <1>1 DEF Launch, JobTyped, Running
<1>2. ASSUME \/ \E p \in rest : NextGallery(p)
             \/ Return \/ CombineTags \/ CombineEnds
      PROVE  JobTyped'
  <2>1. Running /\ task' = task /\ (job' = job \/ \E e \in BOOLEAN : Unless(e))
    BY <1>2 DEF NextGallery, Return, CombineTags, CombineEnds, Combines, GiveUp, asked
  <2> QED BY <1>0, <2>1 DEF Unless, JobTyped, Running
<1>3. ASSUME Cancel \/ JobEnds PROVE JobTyped'
  BY <1>0, <1>3 DEF Cancel, JobEnds, JobTyped, Running, asked
<1>4. ASSUME Crash PROVE JobTyped'
  BY <1>0, <1>4 DEF Crash, JobTyped, Running
<1>5. ASSUME \/ \E s \in copy.todo :
                   CopyGallery(s) \/ CopyGalleryFails(s) \/ CopyMedia(s) \/ SkipMedia(s)
                   \/ CopyMediaFails(s) \/ MoveWithin(s)
             \/ CopyEnds \/ Flush \/ LowerWatermark \/ RemoveMoved \/ Prune \/ MoveWithinEnds
             \/ CombineMedia \/ CombineList \/ \E p \in Top.subs : CombineChild(p)
             \/ UNCHANGED vars
      PROVE  JobTyped'
  <2>1. job' = job /\ task' = task
    BY <1>5 DEF CopyGallery, CopyGalleryFails, CopyMedia, SkipMedia, CopyMediaFails, MoveWithin, CopyEnds,
                Flush, LowerWatermark, RemoveMoved, Prune, MoveWithinEnds, CombineMedia, CombineList,
                CombineChild, vars, asked
  <2> QED BY <1>0, <2>1 DEF JobTyped, Running
<1> QED BY <1>1, <1>2, <1>3, <1>4, <1>5 DEF Next

LEMMA CallersStep ==
    ASSUME Types, [Next]_vars
    PROVE  CallersTyped'
<1>0. CallersTyped /\ stack \in Seq(Frame)
  BY DEF Types, CallersTyped
<1>e. << >> \in Seq(Frame)
  OBVIOUS
<1>f. ASSUME NEW p \in Path, p # << >>, NEW to \in Path, NEW heeds \in BOOLEAN
      PROVE  CombineFrame(p, to, heeds) \in Frame
  BY <1>f DEF CombineFrame, Frame
<1>1. ASSUME NEW t \in Task, Launch(t) PROVE CallersTyped'
  <2>1. rest' \subseteq t.paths /\ task' = t
    BY <1>1 DEF Launch
  <2>2. stack' = << >> \/ \E p \in t.paths : stack' = << CombineFrame(p, t.to, TRUE) >>
    BY <1>1 DEF Launch
  <2>3. stack' \in Seq(Frame)
    <3>1. ASSUME NEW p \in t.paths PROVE << CombineFrame(p, t.to, TRUE) >> \in Seq(Frame)
      <4>1. p \in Path /\ p # << >> /\ t.to \in Path
        BY TypesOfTask
      <4>2. CombineFrame(p, t.to, TRUE) \in Frame
        BY <1>f, <4>1
      <4> DEFINE f == CombineFrame(p, t.to, TRUE)
      <4>3. f \in Frame
        BY <4>2
      <4> HIDE DEF f
      <4>4. << f >> \in Seq(Frame)
        BY <4>3
      <4> QED BY <4>4 DEF f
    <3> QED BY <1>e, <2>2, <3>1
  <2> QED BY <2>1, <2>3 DEF CallersTyped
<1>2. ASSUME NEW p \in rest, NextGallery(p) PROVE CallersTyped'
  <2> DEFINE to == Append(task.to, Last(p))
             alone == Cardinality(task.paths) = 1
  <2>1. Running /\ task' = task /\ rest' = rest \ {p}
    BY <1>2 DEF NextGallery, asked
  <2>2. stack' = stack \/ stack' = << CombineFrame(p, to, alone) >>
    BY <1>2 DEF NextGallery
  <2>3. p \in Path /\ p # << >> /\ to \in Path /\ alone \in BOOLEAN
    <3>1. p \in Path /\ p # << >> /\ task.to \in Path
      BY <2>1, RunningTypes
    <3>2. Last(p) \in Nat
      BY <3>1, FrontDef
    <3> QED BY <3>1, <3>2 DEF Path
  <2>4. CombineFrame(p, to, alone) \in Frame
    <3> HIDE DEF to, alone
    <3> QED BY <1>f, <2>3
  <2>5. << CombineFrame(p, to, alone) >> \in Seq(Frame)
    <3> HIDE DEF to, alone
    <3> QED BY <2>4
  <2>6. stack' \in Seq(Frame)
    <3> HIDE DEF to, alone
    <3> QED BY <1>0, <2>2, <2>5
  <2> QED BY <1>0, <2>1, <2>6 DEF CallersTyped, Running
<1>3. ASSUME CombineTags \/ CombineMedia PROVE CallersTyped'
  <2>1. Running /\ task' = task /\ rest' = rest /\ stack # << >>
    BY <1>3 DEF CombineTags, CombineMedia, Combines, asked
  <2>2. \/ stack' = << >>
        \/ stack' = WithTop([Top EXCEPT !.step = "media"])
        \/ stack' = WithTop([Top EXCEPT !.step = "list"])
    BY <1>3 DEF CombineTags, CombineMedia, GiveUp
  <2>3. [Top EXCEPT !.step = "media"] \in Frame /\ [Top EXCEPT !.step = "list"] \in Frame
    BY <1>0, <2>1, StackTypes DEF Frame
  <2>4. stack' \in Seq(Frame)
    BY <1>0, <1>e, <2>1, <2>2, <2>3, StackTypes
  <2> QED BY <1>0, <2>1, <2>4 DEF CallersTyped, Running
<1>4. ASSUME CombineList PROVE CallersTyped'
  <2> DEFINE below == Paths(Galleries(Children(live[src], Top.at)))
             f == [Top EXCEPT !.step = "subs", !.subs = below]
  <2>1. Running /\ task' = task /\ rest' = rest /\ stack # << >> /\ stack' = WithTop(f)
    BY <1>4 DEF CombineList, Combines, asked, callers
  <2>2. Top \in Frame
    BY <1>0, <2>1, StackTypes
  <2>3. below \subseteq Path \ {<< >>}
    <3> SUFFICES ASSUME NEW n \in Children(live[src], Top.at) PROVE n.at \in Path \ {<< >>}
      BY DEF Paths, Galleries
    <3>1. n \in live[src] /\ Len(n.at) = Len(Top.at) + 1 /\ Len(Top.at) \in Nat
      BY <2>2 DEF Children, Under, Frame, Path
    <3>2. n.at \in Path
      BY <2>1, <3>1, RunningTypes, TreeThen
    <3> QED BY <3>1, <3>2, EmptySeq DEF Path
  <2> HIDE DEF below
  <2>4. f \in Frame
    BY <2>2, <2>3 DEF Frame
  <2> HIDE DEF f
  <2>5. stack' \in Seq(Frame)
    BY <1>0, <2>1, <2>4, StackTypes
  <2> QED BY <1>0, <2>1, <2>5 DEF CallersTyped, Running
<1>5. ASSUME stack # << >>, NEW p \in Top.subs, CombineChild(p) PROVE CallersTyped'
  <2> DEFINE f == [Top EXCEPT !.subs = @ \ {p}]
             to == Rebased(p, Top.at, Top.to)
  <2>1. Running /\ task' = task /\ rest' = rest
    BY <1>5 DEF CombineChild, Combines, asked
  <2>2. stack' = WithTop(f) \/ stack' = Append(WithTop(f), CombineFrame(p, to, Top.heeds))
    BY <1>5 DEF CombineChild
  <2>3. Top \in Frame /\ f \in Frame
    BY <1>0, <1>5, StackTypes DEF Frame
  <2>4. WithTop(f) \in Seq(Frame)
    <3> HIDE DEF f
    <3> QED BY <1>0, <1>5, <2>3, StackTypes
  <2>5. to \in Path => CombineFrame(p, to, Top.heeds) \in Frame
    BY <2>3 DEF CombineFrame, Frame
  <2>6. to \in Path
    <3>1. p \in Path /\ Top.at \in Path /\ Top.to \in Path
      BY <2>3 DEF Frame
    <3> QED BY <3>1 DEF Rebased, Path
  <2> HIDE DEF f, to
  <2>7. stack' \in Seq(Frame)
    BY <2>2, <2>4, <2>5, <2>6, SeqAppend
  <2> QED BY <1>0, <2>1, <2>7 DEF CallersTyped, Running
<1>6. ASSUME CombineEnds PROVE CallersTyped'
  <2>1. Running /\ task' = task /\ rest' = rest /\ stack # << >>
        /\ (stack' = << >> \/ stack' = Front(stack))
    BY <1>6 DEF CombineEnds, Combines, GiveUp, asked
  <2>2. stack' \in Seq(Frame)
    BY <1>0, <1>e, <2>1, StackTypes
  <2> QED BY <1>0, <2>1, <2>2 DEF CallersTyped, Running
<1>7. ASSUME JobEnds \/ Crash PROVE CallersTyped'
  BY <1>0, <1>7, <1>e DEF JobEnds, Crash, CallersTyped, asked
<1>8. ASSUME Return \/ Cancel PROVE CallersTyped'
  <2>1. rest' = rest /\ stack' = stack /\ task' = task /\ Running
    BY <1>8 DEF Return, Cancel, asked, callers
  <2> QED BY <1>0, <2>1 DEF CallersTyped
<1>9. ASSUME \/ \E s \in copy.todo :
                   CopyGallery(s) \/ CopyGalleryFails(s) \/ CopyMedia(s) \/ SkipMedia(s)
                   \/ CopyMediaFails(s) \/ MoveWithin(s)
             \/ CopyEnds \/ Flush \/ LowerWatermark \/ RemoveMoved \/ Prune \/ MoveWithinEnds
             \/ UNCHANGED vars
      PROVE  CallersTyped'
  <2>1. rest' = rest /\ stack' = stack /\ task' = task /\ job' = job
    BY <1>9 DEF CopyGallery, CopyGalleryFails, CopyMedia, SkipMedia, CopyMediaFails, MoveWithin, CopyEnds,
                Flush, LowerWatermark, RemoveMoved, Prune, MoveWithinEnds, vars, asked, callers
  <2> QED BY <1>0, <2>1 DEF CallersTyped, Running
<1> QED BY <1>1, <1>2, <1>3, <1>4, <1>5, <1>6, <1>7, <1>8, <1>9 DEF Next

LEMMA PhaseTyped ==
    ASSUME NEW c, CopyTyped(c), NEW pc \in Phases \ {"copy"}
    PROVE  CopyTyped([c EXCEPT !.pc = pc])
BY DEF CopyTyped, Ctx

LEMMA CopyStep ==
    ASSUME Types, [Next]_vars
    PROVE  CopyTyped(copy')
<1>0. CopyTyped(copy) /\ stack \in Seq(Frame)
  BY DEF Types, CallersTyped
<1>s. \A s \in copy.todo : CopyTyped(Skipped(copy, s)) /\ s.from \in Path /\ s.to \in Path
  BY <1>0, SkippedTyped DEF CopyTyped, Ctx, Step
<1>1. ASSUME NEW s \in copy.todo, CopyGallery(s) PROVE CopyTyped(copy')
  <2>1. copy' = [Skipped(copy, s) EXCEPT !.dirty = TRUE]
    BY <1>1 DEF CopyGallery
  <2> DEFINE c == Skipped(copy, s)
  <2>2. CopyTyped(c)
    BY <1>s
  <2> HIDE DEF c
  <2>3. CopyTyped([c EXCEPT !.dirty = TRUE])
    BY <2>2 DEF CopyTyped, Ctx
  <2> QED BY <2>1, <2>3 DEF c
<1>2. ASSUME NEW s \in copy.todo, CopyGalleryFails(s) PROVE CopyTyped(copy')
  <2> DEFINE branch == {u \in copy.todo : IsPrefix(s.from, u.from)}
             root == s.from = copy.from
  <2>1. copy.pc = "copy"
    BY <1>2 DEF CopyGalleryFails, Copies
  <2>2. PICK ensured \in {FALSE, MayEnsure(live[dst], s.to)} :
           copy' = [copy EXCEPT !.todo = @ \ branch, !.bad = @ \cup {s.from},
                      !.dirty = @ \/ ensured, !.pc = IF root THEN "error" ELSE "copy"]
    BY <1>2 DEF CopyGalleryFails
  <2>3. ensured \in BOOLEAN
    BY DEF MayEnsure
  <2>4. IsFiniteSet(copy.todo \ branch) /\ copy.todo \ branch \subseteq copy.todo
    <3> HIDE DEF branch
    <3> QED BY <1>0, FS_Difference DEF CopyTyped
  <2>5. s.from \in Path
    BY <1>s
  <2>6. copy.dirty \in BOOLEAN /\ (copy.dirty \/ ensured) \in BOOLEAN
    BY <1>0, <2>3 DEF CopyTyped, Ctx
  <2> HIDE DEF branch, root
  <2>7. copy' \in Ctx
    BY <1>0, <2>2, <2>4, <2>5, <2>6 DEF CopyTyped, Ctx, Phases
  <2>8. /\ copy'.todo = copy.todo \ branch /\ copy'.pending = copy.pending /\ copy'.moved = copy.moved
        /\ copy'.dirty = (copy.dirty \/ ensured)
    BY <1>0, <2>2 DEF CopyTyped, Ctx
  <2> QED BY <1>0, <2>1, <2>4, <2>6, <2>7, <2>8 DEF CopyTyped
<1>3. ASSUME NEW s \in copy.todo, CopyMedia(s) PROVE CopyTyped(copy')
  <2> DEFINE full == Cardinality(copy.pending) + 1 >= Batch
             c == Skipped(copy, s)
  <2>1. copy.pc = "copy"
        /\ copy' = [c EXCEPT !.pending = @ \cup {s.from}, !.dirty = TRUE,
                             !.pc = IF full THEN "flush" ELSE "copy"]
    BY <1>3 DEF CopyMedia, Copies
  <2>2. CopyTyped(c) /\ c.pending = copy.pending /\ s.from \in Path
    BY <1>0, <1>s, SkippedTyped
  <2>3. IsFiniteSet(c.pending \cup {s.from})
    BY <2>2, FS_AddElement DEF CopyTyped
  <2>4. /\ Cardinality(copy.pending) \in Nat
        /\ \/ Cardinality(c.pending \cup {s.from}) = Cardinality(copy.pending)
           \/ Cardinality(c.pending \cup {s.from}) = Cardinality(copy.pending) + 1
    BY <2>2, FS_AddElement, FS_CardinalityType DEF CopyTyped
  <2>5. Cardinality(copy.pending) < Batch /\ Batch \in Nat
    BY <1>0, <2>1, BoundsAssumption DEF CopyTyped
  <2>6. Cardinality(c.pending \cup {s.from}) <= Batch /\ (~full => Cardinality(c.pending \cup {s.from}) < Batch)
    BY <2>4, <2>5
  <2> HIDE DEF full, c
  <2>7. copy' \in Ctx
    BY <2>1, <2>2 DEF CopyTyped, Ctx, Phases
  <2>8. /\ copy'.todo = c.todo /\ copy'.pending = c.pending \cup {s.from} /\ copy'.moved = c.moved
        /\ copy'.dirty = TRUE /\ copy'.pc = IF full THEN "flush" ELSE "copy"
    BY <2>1, <2>2 DEF CopyTyped, Ctx
  <2> QED BY <2>2, <2>3, <2>6, <2>7, <2>8 DEF CopyTyped
<1>4. ASSUME NEW s \in copy.todo, SkipMedia(s) \/ CopyMediaFails(s) PROVE CopyTyped(copy')
  BY <1>4, <1>s DEF SkipMedia, CopyMediaFails
<1>5. ASSUME NEW s \in copy.todo, MoveWithin(s) PROVE CopyTyped(copy')
  <2>1. \E pc \in {"within", "ok", "error"} : copy' = [Skipped(copy, s) EXCEPT !.pc = pc]
    BY <1>5 DEF MoveWithin
  <2>2. \A pc \in {"within", "ok", "error"} : CopyTyped([Skipped(copy, s) EXCEPT !.pc = pc])
    <3>1. {"within", "ok", "error"} \subseteq Phases \ {"copy"}
      BY DEF Phases
    <3> QED BY <1>s, <3>1, PhaseTyped, Zenon
  <2> QED BY <2>1, <2>2, Zenon
<1>6. ASSUME Flush PROVE CopyTyped(copy')
  <2> DEFINE next == IF copy.pc = "flush" THEN "copy" ELSE "watermark"
  <2>1. CASE ~copy.dirty /\ copy' = [copy EXCEPT !.pc = next]
    <3>1. copy.pending = {}
      BY <1>0, <2>1 DEF CopyTyped
    <3>2. copy' \in Ctx /\ copy'.pending = {} /\ copy'.todo = copy.todo /\ copy'.moved = copy.moved
      BY <1>0, <2>1, <3>1 DEF CopyTyped, Ctx, Phases
    <3> QED BY <1>0, <3>2, NothingIsFinite, BoundsAssumption DEF CopyTyped
  <2>2. ASSUME NEW outcome \in Outcome, copy' = [Flushed(copy, outcome = "ok") EXCEPT !.pc = next]
        PROVE  CopyTyped(copy')
    <3>1. next \in Phases /\ (outcome = "ok") \in BOOLEAN
      BY DEF Phases
    <3> DEFINE ok == outcome = "ok"
    <3> HIDE DEF next, ok
    <3> QED BY <1>0, <2>2, <3>1, FlushedTyped DEF ok
  <2> QED BY <1>6, <2>1, <2>2 DEF Flush
<1>7. ASSUME CopyEnds \/ LowerWatermark \/ MoveWithinEnds PROVE CopyTyped(copy')
  <2>1. \E pc \in {"last", "remove", "ok"} : copy' = [copy EXCEPT !.pc = pc]
    BY <1>7 DEF CopyEnds, LowerWatermark, MoveWithinEnds
  <2>2. \A pc \in {"last", "remove", "ok"} : CopyTyped([copy EXCEPT !.pc = pc])
    <3>1. {"last", "remove", "ok"} \subseteq Phases \ {"copy"}
      BY DEF Phases
    <3> QED BY <1>0, <3>1, PhaseTyped, Zenon
  <2> QED BY <2>1, <2>2, Zenon
<1>8. ASSUME RemoveMoved PROVE CopyTyped(copy')
  <2> DEFINE pc == AfterRemoval(copy)
  <2>1. copy' = [copy EXCEPT !.pc = pc, !.moved = {}]
    BY <1>8 DEF RemoveMoved
  <2>2. pc \in Phases \ {"copy"}
    BY DEF AfterRemoval, Phases
  <2> HIDE DEF pc
  <2> QED BY <1>0, <2>1, <2>2, NothingIsFinite DEF CopyTyped, Ctx
<1>9. ASSUME Prune PROVE CopyTyped(copy')
  <2>1. copy' = [copy EXCEPT !.pc = "ok"] \/ \E p \in copy.prune : copy' = [copy EXCEPT !.prune = @ \ {p}]
    BY <1>9 DEF Prune
  <2>2. ASSUME NEW p \in copy.prune, copy' = [copy EXCEPT !.prune = @ \ {p}] PROVE CopyTyped(copy')
    BY <1>0, <2>2 DEF CopyTyped, Ctx
  <2>3. CopyTyped([copy EXCEPT !.pc = "ok"])
    <3>1. "ok" \in Phases \ {"copy"}
      BY DEF Phases
    <3> QED BY <1>0, <3>1, PhaseTyped, Zenon
  <2> QED BY <2>1, <2>2, <2>3
<1>10. ASSUME NEW p \in rest, NextGallery(p) PROVE CopyTyped(copy')
  <2> DEFINE alone == Cardinality(task.paths) = 1
  <2>1. Running
    BY <1>10 DEF NextGallery
  <2>2. p \in Path /\ p # << >> /\ task.to \in Path /\ Last(p) \in Nat /\ alone \in BOOLEAN
    <3>1. p \in Path /\ p # << >> /\ task.to \in Path
      BY <2>1, RunningTypes
    <3> QED BY <3>1, FrontDef
  <2>3. \/ copy' = copy
        \/ copy' = Subtree(p, Append(task.to, Last(p)), alone)
        \/ \E i \in FreeName(live[dst], task.to, SuffixNames[Last(p)]) :
              copy' = Subtree(p, Append(task.to, SuffixNames[Last(p)][i]), alone)
    BY <1>10 DEF NextGallery
  <2>4. SuffixNames[Last(p)] \in Seq(Nat)
    <3>1. task \in Task /\ p \in task.paths
      BY <2>1 DEF Types, JobTyped, CallersTyped
    <3> QED BY <3>1, NamesAssumption
  <2>5. ASSUME NEW k \in Nat, copy' = Subtree(p, Append(task.to, k), alone) PROVE CopyTyped(copy')
    <3>1. Append(task.to, k) \in Path
      BY <2>2 DEF Path
    <3> HIDE DEF alone
    <3> QED BY <2>1, <2>2, <2>5, <3>1, SubtreeTyped
  <2>6. \A i \in FreeName(live[dst], task.to, SuffixNames[Last(p)]) : SuffixNames[Last(p)][i] \in Nat
    <3> DEFINE names == SuffixNames[Last(p)]
    <3>1. FreeName(live[dst], task.to, names) \subseteq DOMAIN names
      BY DEF FreeName
    <3> HIDE DEF names
    <3>2. \A i \in DOMAIN names : names[i] \in Nat
      BY <2>4 DEF names
    <3> QED BY <3>1, <3>2 DEF names
  <2> HIDE DEF alone
  <2> QED BY <1>0, <2>2, <2>3, <2>5, <2>6
<1>11. ASSUME CombineMedia PROVE CopyTyped(copy')
  <2> DEFINE steps == MediaSteps(live[src], Top.at, Top.to)
  <2>1. Running /\ stack # << >> /\ (copy' = copy \/ copy' = Images(Within, steps, Top.heeds))
    BY <1>11 DEF CombineMedia, Combines
  <2>2. Top.at \in Path /\ Top.to \in Path /\ Top.heeds \in BOOLEAN
    BY <1>0, <2>1, StackTypes DEF Frame
  <2>3. steps \subseteq Step /\ IsFiniteSet(steps)
    BY <2>1, <2>2, RunningTypes, MediaStepsTypes
  <2>4. Within \in BOOLEAN
    BY DEF Within, Moves
  <2> DEFINE within == Within
  <2> HIDE DEF steps, within
  <2>5. CopyTyped(Images(within, steps, Top.heeds))
    BY <2>2, <2>3, <2>4, ImagesTyped DEF within
  <2> QED BY <1>0, <2>1, <2>5 DEF within
<1>12. ASSUME stack # << >>, NEW p \in Top.subs, CombineChild(p) PROVE CopyTyped(copy')
  <2> DEFINE to == Rebased(p, Top.at, Top.to)
  <2>1. Running /\ (copy' = copy \/ copy' = Subtree(p, to, FALSE))
    BY <1>12 DEF CombineChild, Combines
  <2>2. p \in Path /\ p # << >> /\ Top.at \in Path /\ Top.to \in Path
    BY <1>0, <1>12, StackTypes DEF Frame
  <2>3. to \in Path
    BY <2>2 DEF Rebased, Path
  <2> HIDE DEF to
  <2> QED BY <1>0, <2>1, <2>2, <2>3, SubtreeTyped
<1>13. ASSUME NEW t \in Task, Launch(t) PROVE CopyTyped(copy')
  <2> DEFINE within == t.mode = "move" /\ t.src = t.dst
             step == [p \in t.paths |-> StepOf("media", p, Front(p), t.to)]
             steps == {StepOf("media", p, Front(p), t.to) : p \in t.paths}
  <2>1. copy' = Idle \/ copy' = Images(within, steps, TRUE)
    BY <1>13 DEF Launch
  <2>2. steps = {step[p] : p \in t.paths}
    OBVIOUS
  <2>3. steps \subseteq Step
    <3> SUFFICES ASSUME NEW p \in t.paths PROVE StepOf("media", p, Front(p), t.to) \in Step
      OBVIOUS
    <3>1. p \in Path /\ p # << >> /\ t.to \in Path
      BY TypesOfTask
    <3>2. Front(p) \in Path /\ IsPrefix(Front(p), p)
      BY <3>1, FrontDef, FrontIsPrefix
    <3>3. Rebased(p, Front(p), t.to) \in Path
      BY <3>1, <3>2, RebasedDef, Zenon
    <3> QED BY <3>1, <3>3 DEF StepOf, Step
  <2>4. IsFiniteSet(steps)
    <3>1. IsFiniteSet(t.paths)
      BY TypesOfTask
    <3> HIDE DEF steps, step
    <3> QED BY <2>2, <3>1, ImageFinite
  <2>5. within \in BOOLEAN
    OBVIOUS
  <2> HIDE DEF within, steps
  <2> QED BY <2>1, <2>3, <2>4, <2>5, ImagesTyped, IdleTyped
<1>14. ASSUME Return \/ Crash PROVE CopyTyped(copy')
  BY <1>14, IdleTyped DEF Return, Crash
<1>15. ASSUME CombineTags \/ CombineList \/ CombineEnds \/ Cancel \/ JobEnds \/ UNCHANGED vars
       PROVE  CopyTyped(copy')
  BY <1>0, <1>15 DEF CombineTags, CombineList, CombineEnds, Cancel, JobEnds, vars
<1> QED BY <1>1, <1>2, <1>3, <1>4, <1>5, <1>6, <1>7, <1>8, <1>9, <1>10, <1>11, <1>12, <1>13, <1>14, <1>15 DEF Next

\* The counters stay within their bounds, and the tally counts.
LEMMA CountersStep ==
    ASSUME Types, [Next]_vars
    PROVE  CountersTyped'
<1>0. CountersTyped /\ CopyTyped(copy)
  BY DEF Types
<1>b. MaxFaults \in Nat /\ MaxCrashes \in Nat /\ MaxJobs \in Nat
  BY BoundsAssumption
<1>f. faults' = faults \/ (faults < MaxFaults /\ faults' = faults + 1) => faults' \in 0 .. MaxFaults
  BY <1>0, <1>b DEF CountersTyped
<1>c. \A v, t, outcome : Commit(v, t, outcome) => faults' \in 0 .. MaxFaults
  BY <1>f DEF Commit, Fault
<1>t. ASSUME NEW field \in {"done", "failed", "skipped"}, NEW n \in Nat, Tally(field, n)
      PROVE  tally' \in [done : Nat, failed : Nat, skipped : Nat]
  BY <1>0, <1>t DEF Tally, CountersTyped
<1>n. Cardinality(copy.pending) \in Nat /\ Cardinality(copy.moved) \in Nat
  BY <1>0, FS_CardinalityType DEF CopyTyped
<1>1. ASSUME UNCHANGED <<crashes, jobs>>, faults' \in 0 .. MaxFaults,
             tally' = tally \/ \E field \in {"done", "failed", "skipped"}, n \in Nat : Tally(field, n)
      PROVE  CountersTyped'
  <2>1. tally' \in [done : Nat, failed : Nat, skipped : Nat]
    BY <1>0, <1>1, <1>t DEF CountersTyped
  <2> QED BY <1>0, <1>1, <2>1 DEF CountersTyped
<1>2. ASSUME NEW s \in copy.todo, CopyGalleryFails(s) PROVE CountersTyped'
  <2> DEFINE branch == {u \in copy.todo : IsPrefix(s.from, u.from)}
             unread == {u \in branch : u.what = "media" /\ (s.from = copy.from => Home(u) = s.from)}
  <2>1. Tally("failed", 1 + Cardinality(unread)) /\ UNCHANGED <<crashes, jobs>>
        /\ (faults' = faults \/ (faults < MaxFaults /\ faults' = faults + 1))
    BY <1>2 DEF CopyGalleryFails, bounds, Fault
  <2>2. Cardinality(unread) \in Nat
    <3>1. unread \subseteq copy.todo
      OBVIOUS
    <3> HIDE DEF unread
    <3> QED BY <1>0, <3>1, FS_Subset, FS_CardinalityType DEF CopyTyped
  <2> HIDE DEF unread
  <2>3. 1 + Cardinality(unread) \in Nat
    BY <2>2
  <2> QED BY <1>1, <1>f, <2>1, <2>3
<1>3. ASSUME NEW s \in copy.todo, CopyMediaFails(s) \/ SkipMedia(s) PROVE CountersTyped'
  <2>1. \E field \in {"failed", "skipped"} : Tally(field, 1)
    BY <1>3 DEF CopyMediaFails, SkipMedia
  <2>2. UNCHANGED <<crashes, jobs>>
        /\ (faults' = faults \/ (faults < MaxFaults /\ faults' = faults + 1))
    BY <1>3 DEF CopyMediaFails, SkipMedia, bounds, Fault
  <2> QED BY <1>1, <1>f, <2>1, <2>2
<1>4. ASSUME NEW s \in copy.todo, MoveWithin(s) PROVE CountersTyped'
  <2>1. \E field \in {"done", "failed"}, n \in {0, 1} : Tally(field, n)
    BY <1>4 DEF MoveWithin
  <2>2. UNCHANGED <<crashes, jobs>>
        /\ (faults' = faults \/ \E v, t, outcome : Commit(v, t, outcome))
    BY <1>4 DEF MoveWithin, bounds
  <2> QED BY <1>1, <1>c, <1>f, <2>1, <2>2
<1>5. ASSUME Flush PROVE CountersTyped'
  <2> DEFINE n == Cardinality(copy.pending)
  <2>1. tally' = tally \/ Tally("done", DoneNow(n)) \/ Tally("failed", n)
    BY <1>5 DEF Flush
  <2>2. DoneNow(n) \in Nat
    BY <1>n DEF DoneNow
  <2>3. UNCHANGED <<crashes, jobs>>
        /\ (faults' = faults \/ \E v, t, outcome : Commit(v, t, outcome))
    BY <1>5 DEF Flush, bounds
  <2> HIDE DEF n
  <2>4. n \in Nat
    BY <1>n DEF n
  <2> QED BY <1>1, <1>c, <1>f, <2>1, <2>2, <2>3, <2>4
<1>6. ASSUME RemoveMoved PROVE CountersTyped'
  <2> DEFINE n == Cardinality(copy.moved)
  <2>1. Tally("done", n) \/ Tally("failed", n)
    BY <1>6 DEF RemoveMoved
  <2>2. UNCHANGED <<crashes, jobs>>
        /\ (faults' = faults \/ \E v, t, outcome : Commit(v, t, outcome))
    BY <1>6 DEF RemoveMoved, bounds
  <2> HIDE DEF n
  <2>3. n \in Nat
    BY <1>n DEF n
  <2> QED BY <1>1, <1>c, <1>f, <2>1, <2>2, <2>3
<1>7. ASSUME NEW p \in rest, NextGallery(p) PROVE CountersTyped'
  <2>1. tally' = tally \/ Tally("failed", 1)
    BY <1>7 DEF NextGallery
  <2>2. UNCHANGED <<crashes, jobs>> /\ faults' = faults
    BY <1>7 DEF NextGallery, bounds
  <2> QED BY <1>1, <1>f, <2>1, <2>2
<1>8. ASSUME LowerWatermark \/ Prune \/ CombineTags \/ CombineEnds PROVE CountersTyped'
  <2>1. tally' = tally /\ UNCHANGED <<crashes, jobs>>
        /\ (faults' = faults \/ \E v, t, outcome : Commit(v, t, outcome))
    BY <1>8 DEF LowerWatermark, Prune, CombineTags, CombineEnds, bounds
  <2> QED BY <1>1, <1>c, <1>f, <2>1
<1>9. ASSUME NEW t \in Task, Launch(t) PROVE CountersTyped'
  <2>1. tally' = NoTally /\ faults' = faults /\ crashes' = crashes /\ jobs < MaxJobs /\ jobs' = jobs + 1
    BY <1>9 DEF Launch
  <2> QED BY <1>0, <1>b, <2>1 DEF CountersTyped, NoTally
<1>10. ASSUME Crash PROVE CountersTyped'
  <2>1. tally' = tally /\ faults' = faults /\ jobs' = jobs /\ crashes < MaxCrashes /\ crashes' = crashes + 1
    BY <1>10 DEF Crash
  <2> QED BY <1>0, <1>b, <2>1 DEF CountersTyped
<1>11. ASSUME \/ \E s \in copy.todo : CopyGallery(s) \/ CopyMedia(s)
              \/ CopyEnds \/ MoveWithinEnds \/ Return \/ CombineMedia \/ CombineList
              \/ \E p \in Top.subs : CombineChild(p)
              \/ Cancel \/ JobEnds \/ UNCHANGED vars
       PROVE  CountersTyped'
  <2>1. UNCHANGED <<tally, faults, crashes, jobs>>
    BY <1>11 DEF CopyGallery, CopyMedia, CopyEnds, MoveWithinEnds, Return, CombineMedia, CombineList,
                 CombineChild, Cancel, JobEnds, vars, bounds
  <2> QED BY <1>1, <1>f, <2>1
<1> QED BY <1>2, <1>3, <1>4, <1>5, <1>6, <1>7, <1>8, <1>9, <1>10, <1>11 DEF Next

LEMMA TypesInit == Init => Types
<1> HAVE Init
<1>1. PICK s \in Start : live = s /\ disk = s
  BY DEF Init
<1>2. had = UNION {Content(s[v]) : v \in Vault}
  BY <1>1 DEF Init
<1>3. s \in [Vault -> SUBSET Node(had)] /\ \A v \in Vault : IsTree(s[v]) /\ IsFiniteSet(s[v])
  BY <1>2, StartAssumption
<1>4. Trees(had, live) /\ Trees(had, disk)
  BY <1>1, <1>3 DEF Trees, Tree
<1>5. JobTyped /\ CallersTyped
  BY DEF Init, JobTyped, CallersTyped, Running
<1>6. CopyTyped(copy)
  BY IdleTyped DEF Init
<1>7. CountersTyped
  BY BoundsAssumption DEF Init, CountersTyped, NoTally
<1> QED BY <1>4, <1>5, <1>6, <1>7 DEF Types

LEMMA TypesStep == Types /\ [Next]_vars => Types'
<1> HAVE Types /\ [Next]_vars
<1>1. Trees(had, live') /\ Trees(had, disk') /\ had' = had
  BY TreesStep
<1>2. JobTyped' /\ CopyTyped(copy') /\ CallersTyped' /\ CountersTyped'
  BY JobStep, CopyStep, CallersStep, CountersStep
<1>3. (Trees(had, live) /\ Trees(had, disk))'
  BY <1>1 DEF Trees, Tree, Node
<1>4. CopyTyped(copy)'
  BY <1>2 DEF CopyTyped, Ctx
<1> QED BY <1>2, <1>3, <1>4 DEF Types

\* Whatever fails, is cancelled or cut short, memory and disk of every vault
\* remain trees (a path is one node's and lies in a gallery, a file is one
\* file) of what the vaults held at the start, a batch never grows beyond
\* TRANSFER_COMMIT_BATCH, and the job is in one of its states.
THEOREM TypeCorrect == Spec => []TypeOK
<1>1. Types => TypeOK
  BY DEF Types, TypeOK, Trees, Tree, JobTyped, CopyTyped, Ctx, Phases, CountersTyped
<1> QED BY <1>1, TypesInit, TypesStep, PTL DEF Spec

(***************************************************************************)
(* Nothing is lost: the inductive invariant.                               *)
(***************************************************************************)

\* Everything is in memory and on disk of one and the same vault, so that
\* neither a crash nor a commit of another vault's tree can lose it.
KeptIn(mem, store, held) ==
    \A c \in held : \E v \in Vault : c \in Content(mem[v]) /\ c \in Content(store[v])
Kept == KeptIn(live, disk, had)

\* A driver that moves from one vault to another: what it is about to remove is
\* at the destination, on disk too once the batch is durable.  A gallery that
\* will be pruned is still to be copied, lies in a branch that was given up, or
\* has its tags there.
Secured(c, from, to, stored) ==
    /\ \A p \in c.pending : Held(from, p) \subseteq Content(to)
    /\ \A p \in c.moved : Held(from, p) \subseteq Content(to) /\ Held(from, p) \subseteq Content(stored)
    /\ \A p \in c.prune :
         \/ \E s \in c.todo : s.what = "gallery" /\ s.from = p
         \/ \E b \in c.bad : IsPrefix(b, p)
         \/ /\ Held(from, p) \subseteq Content(to)
            /\ ~c.dirty => Held(from, p) \subseteq Content(stored)

\* A driver that comes to its end without a failed commit has everything on
\* disk, and is through its plan unless it was cancelled.
Settled(c, cancel) ==
    /\ c.pc = "last" /\ ~c.failed => c.todo = {} \/ (c.heeds /\ cancel)
    /\ c.pc \in {"watermark", "remove"} /\ ~c.failed =>
          ~c.dirty /\ (c.todo = {} \/ (c.heeds /\ cancel))
    /\ c.pc = "prune" => ~c.dirty /\ c.todo = {}

Copying == {"copy", "flush", "last", "watermark", "remove", "prune"}
DriverInv ==
    /\ Running /\ Moves /\ copy.pc \in Copying =>
          /\ src # dst
          /\ Secured(copy, live[src], live[dst], disk[dst]) /\ Settled(copy, job.cancel)
    /\ Running /\ (copy.moved # {} \/ copy.pc = "prune") => Moves
    /\ Running /\ copy.pc \in Copying => copy.kind \in {"images", "gallery"}

\* combine_impl, once it has merged the tags: the gallery that will be removed
\* holds nothing that the one it is combined into does not, in memory and on disk.
Combined(f, from, to, stored) ==
    f.step # "merge" =>
        Held(from, f.at) \subseteq Held(to, f.to) /\ Held(from, f.at) \subseteq Held(stored, f.to)
FrameInv ==
    Running /\ Moves =>
        \A i \in 1 .. Len(stack) : Combined(stack[i], live[src], live[dst], disk[dst])

\* Within one vault the calls work below the two galleries of the first, which
\* lie apart once it was validated.
Area(stk, c) ==
    /\ \A i, j \in 1 .. Len(stk) :
          i <= j => IsPrefix(stk[i].at, stk[j].at) /\ IsPrefix(stk[i].to, stk[j].to)
    /\ \A i \in 1 .. Len(stk) : \A p \in stk[i].subs : IsStrictPrefix(stk[i].at, p)
    /\ ~IsStrictPrefix(stk[1].to, stk[1].at)
    /\ stk[1].step # "merge" => ~IsPrefix(stk[1].at, stk[1].to)
    /\ Len(stk) > 1 \/ c.pc # "idle" => stk[1].step # "merge"
    /\ c.pc = "within" => \A s \in c.todo : /\ IsStrictPrefix(stk[Len(stk)].at, s.from)
                                            /\ IsPrefix(stk[Len(stk)].to, s.to)
AreaInv ==
    /\ Running /\ Within /\ stack # << >> => Area(stack, copy)
    /\ Running /\ copy.pc = "within" => Within
    /\ Running /\ rest # {} => task.kind = "galleries"

KeptInv == Kept /\ DriverInv /\ FrameInv /\ AreaInv

\* No gallery is combined, in its own vault, into one that it lies in.  Combining
\* upwards is allowed by the code (would_cycle), and then a gallery inside that
\* has the name of the one it lies in is merged into it and lost with it.
NeverUpward ==
    \A t \in Task : t.mode = "move" /\ t.src = t.dst =>
        \A p \in t.paths :
            /\ t.kind = "combine" => ~IsStrictPrefix(t.to, p)
            /\ t.kind = "galleries" /\ t.policy = "combine" =>
                  ~IsStrictPrefix(Append(t.to, Last(p)), p)

\* A tree that holds at every path what another does, and one that holds less.
Grown(t, u) == \A q : Held(t, q) \subseteq Held(u, q)

LEMMA GrownContent ==
    ASSUME NEW t, NEW u, Grown(t, u)
    PROVE  Content(t) \subseteq Content(u)
<1> SUFFICES ASSUME NEW c \in Content(t) PROVE c \in Content(u)
  OBVIOUS
<1>1. PICK n \in t : c \in n.holds
  BY ContentDef
<1>2. c \in Held(t, n.at)
  BY <1>1, HeldDef
<1>3. c \in Held(u, n.at)
  BY <1>2 DEF Grown
<1> QED BY <1>3, HeldInContent

LEMMA SubsetGrown == \A t, u : t \subseteq u => Grown(t, u)
BY HeldShrinks, Zenon DEF Grown

LEMMA SameGrown == \A t : Grown(t, t)
BY DEF Grown

\* What is secured stays so while the source shrinks, the destination grows and
\* is committed.
LEMMA SecuredStays ==
    ASSUME NEW c, NEW from, NEW to, NEW stored, Secured(c, from, to, stored),
           NEW from2, Grown(from2, from), NEW to2, Content(to) \subseteq Content(to2),
           NEW stored2, stored2 = stored \/ stored2 = to2
    PROVE  Secured(c, from2, to2, stored2)
<1>1. \A p : Held(from2, p) \subseteq Held(from, p)
  BY DEF Grown
<1>2. ASSUME NEW p, Held(from, p) \subseteq Content(to) PROVE Held(from2, p) \subseteq Content(to2)
  BY <1>1, <1>2
<1>3. ASSUME NEW p, Held(from, p) \subseteq Content(to), Held(from, p) \subseteq Content(stored)
      PROVE  Held(from2, p) \subseteq Content(stored2)
  <2>1. CASE stored2 = stored
    BY <1>1, <1>3, <2>1
  <2>2. CASE stored2 = to2
    BY <1>2, <1>3, <2>2
  <2> QED BY <2>1, <2>2
<1> QED BY <1>2, <1>3 DEF Secured

LEMMA CombinedStays ==
    ASSUME NEW f, NEW from, NEW to, NEW stored, Combined(f, from, to, stored),
           NEW from2, Held(from2, f.at) \subseteq Held(from, f.at),
           NEW to2, Held(to, f.to) \subseteq Held(to2, f.to),
           NEW stored2, stored2 = stored \/ stored2 = to2
    PROVE  Combined(f, from2, to2, stored2)
BY DEF Combined

\* Below two places of which neither is in the other, nothing is in anything.
LEMMA Apart ==
    ASSUME NEW a \in Path, NEW b \in Path, ~IsPrefix(a, b), ~IsStrictPrefix(b, a),
           NEW p \in Path, NEW q \in Path, IsPrefix(a, p), IsPrefix(b, q)
    PROVE  ~IsPrefix(p, q) /\ ~IsPrefix(q, p)
<1>1. ~IsPrefix(b, a)
  BY DEF IsStrictPrefix
<1>2. ASSUME IsPrefix(p, q) PROVE FALSE
  <2>1. IsPrefix(a, q)
    BY <1>2, PrefixTransitive
  <2> QED BY <1>1, <2>1, PrefixesCompare
<1>3. ASSUME IsPrefix(q, p) PROVE FALSE
  <2>1. IsPrefix(b, p)
    BY <1>3, PrefixTransitive
  <2> QED BY <1>1, <2>1, PrefixesCompare
<1> QED BY <1>2, <1>3

\* A step that writes the tree of one vault, in memory or on disk or both,
\* keeps everything if what it takes away is held elsewhere.
LEMMA KeptIf ==
    ASSUME Types, Kept, had' = had, NEW v \in Vault, NEW t,
           live' = live \/ live' = [live EXCEPT ![v] = t],
           disk' = disk \/ disk' = [disk EXCEPT ![v] = t],
           \A c \in Content(live[v]) :
              \/ c \in Content(t)
              \/ \E w \in Vault \ {v} : c \in Content(live[w]) /\ c \in Content(disk[w])
    PROVE  Kept'
<1>1. ASSUME NEW w \in Vault, w # v PROVE live'[w] = live[w] /\ disk'[w] = disk[w]
  BY <1>1 DEF Types, Trees
<1>2. (live'[v] = live[v] \/ live'[v] = t) /\ (disk'[v] = disk[v] \/ disk'[v] = t)
  BY DEF Types, Trees
<1>3. ASSUME NEW c \in had
      PROVE  \E w \in Vault : c \in Content(live'[w]) /\ c \in Content(disk'[w])
  <2>1. PICK w \in Vault : c \in Content(live[w]) /\ c \in Content(disk[w])
    BY DEF Kept, KeptIn
  <2>2. CASE w # v
    BY <1>1, <2>1, <2>2
  <2>3. CASE w = v /\ c \in Content(t)
    BY <1>2, <2>1, <2>3
  <2>4. CASE w = v /\ c \notin Content(t)
    <3>1. PICK x \in Vault \ {v} : c \in Content(live[x]) /\ c \in Content(disk[x])
      BY <2>1, <2>4
    <3> QED BY <1>1, <3>1
  <2> QED BY <2>2, <2>3, <2>4
<1> QED BY <1>3 DEF Kept, KeptIn

(***************************************************************************)
(* What the actions do to the trees.                                       *)
(***************************************************************************)

\* Copying adds to the destination's tree in memory what the step is about.
LEMMA CopyEffect ==
    ASSUME Types, NEW s \in copy.todo, CopyGallery(s) \/ CopyGalleryFails(s) \/ CopyMedia(s)
    PROVE  \E t : /\ live' = [live EXCEPT ![dst] = t] /\ disk' = disk /\ had' = had
                  /\ Grown(live[dst], t)
                  /\ CopyGallery(s) \/ CopyMedia(s) => Held(live[src], s.from) \subseteq Content(t)
<1> USE DEF Live
<1>0. Running /\ disk' = disk /\ had' = had /\ s.from \in Path /\ s.to \in Path
  BY DEF CopyGallery, CopyGalleryFails, CopyMedia, Copies, trees, bounds, Types, CopyTyped, Ctx, Step
<1>r. Tree(had, live[src]) /\ Tree(had, live[dst])
  BY <1>0, RunningTypes
<1>1. CASE CopyGallery(s)
  <2> DEFINE u == Ensured(live[dst], s.to)
             tags == Held(live[src], s.from)
             t == Merged(u, s.to, tags)
  <2>1. MayEnsure(live[dst], s.to) /\ live' = [live EXCEPT ![dst] = t]
    BY <1>1 DEF CopyGallery
  <2>2. Tree(had, u) /\ Gallery(u, s.to) /\ live[dst] \subseteq u
    BY <1>0, <1>r, <2>1, EnsuredIsTree
  <2>3. tags \subseteq had
    <3>1. tags \subseteq Content(live[src])
      BY HeldInContent
    <3>2. Content(live[src]) \subseteq had
      <4> SUFFICES ASSUME NEW c \in Content(live[src]) PROVE c \in had
        OBVIOUS
      <4> QED BY <1>r, ContentDef, TreeThen
    <3> QED BY <3>1, <3>2
  <2> HIDE DEF u, tags
  <2>4. (\A q : Held(u, q) \subseteq Held(t, q)) /\ tags \subseteq Held(t, s.to)
    BY <1>0, <2>2, <2>3, MergedIsTree
  <2>5. Grown(live[dst], t)
    BY <2>2, <2>4, HeldShrinks DEF Grown
  <2>6. tags \subseteq Content(t)
    BY <2>4, HeldInContent
  <2> QED BY <1>0, <2>1, <2>5, <2>6 DEF tags
<1>2. CASE CopyGalleryFails(s) /\ ~CopyGallery(s) /\ ~CopyMedia(s)
  <2>1. PICK ensured \in {FALSE, MayEnsure(live[dst], s.to)} :
           live' = [live EXCEPT ![dst] = IF ensured THEN Ensured(live[dst], s.to) ELSE live[dst]]
    BY <1>2 DEF CopyGalleryFails
  <2> DEFINE t == IF ensured THEN Ensured(live[dst], s.to) ELSE live[dst]
  <2>2. Grown(live[dst], t)
    <3>1. CASE ensured
      <4>1. live[dst] \subseteq Ensured(live[dst], s.to)
        BY <1>0, <1>r, <2>1, <3>1, EnsuredIsTree
      <4> QED BY <3>1, <4>1, SubsetGrown
    <3>2. CASE ~ensured
      BY <3>2, SameGrown
    <3> QED BY <3>1, <3>2
  <2> HIDE DEF t
  <2> QED BY <1>0, <1>2, <2>1, <2>2 DEF t
<1>3. CASE CopyMedia(s)
  <2> DEFINE m == [what |-> "media", at |-> s.to, holds |-> Held(live[src], s.from)]
             t == live[dst] \cup {m}
  <2>1. live' = [live EXCEPT ![dst] = t]
    BY <1>3 DEF CopyMedia
  <2>2. live[dst] \subseteq t /\ m \in t /\ m.holds = Held(live[src], s.from)
    OBVIOUS
  <2> HIDE DEF t, m
  <2>3. Grown(live[dst], t)
    BY <2>2, SubsetGrown
  <2>4. Held(live[src], s.from) \subseteq Content(t)
    BY <2>2, ContentDef
  <2> QED BY <1>0, <2>1, <2>3, <2>4
<1> QED BY <1>1, <1>2, <1>3

\* A commit of the destination stores what is in memory, or nothing.
LEMMA CommitEffect ==
    ASSUME Flush \/ LowerWatermark
    PROVE  /\ Running /\ live' = live /\ had' = had
           /\ disk' = disk \/ disk' = [disk EXCEPT ![dst] = live[dst]]
BY DEF Flush, LowerWatermark, Commit, trees, bounds

\* The removals: of the files that were moved, of galleries that were left
\* empty, and of the gallery that was combined.
LEMMA RemoveMovedEffect ==
    ASSUME RemoveMoved
    PROVE  LET t == WithoutMedia(live[src], copy.moved) IN
           /\ Running /\ had' = had
           /\ live' = live \/ live' = [live EXCEPT ![src] = t]
           /\ disk' = disk \/ disk' = [disk EXCEPT ![src] = t]
           /\ \A n \in live[src] : n \notin t => n.at \in copy.moved
<1>1. \A n \in live[src] : n \notin WithoutMedia(live[src], copy.moved) => n.at \in copy.moved
  BY DEF WithoutMedia
<1> QED BY <1>1 DEF RemoveMoved, Live, Commit, trees, bounds

LEMMA PruneEffect ==
    ASSUME Types, Prune
    PROVE  \/ Running /\ UNCHANGED <<live, disk, had>>
           \/ \E p \in copy.prune :
                LET t == live[src] \ Under(live[src], p) IN
                /\ Running /\ had' = had /\ live' = [live EXCEPT ![src] = t]
                /\ disk' = disk \/ disk' = [disk EXCEPT ![src] = t]
                /\ \A b \in copy.bad : ~IsPrefix(b, p)
                /\ \A n \in live[src] : n \notin t => n.at = p
<1>0. Running /\ had' = had
  BY DEF Prune, bounds
<1>1. CASE UNCHANGED <<live, disk>>
  BY <1>0, <1>1
<1>2. CASE \E p \in copy.prune :
              /\ MayPrune(p) /\ live' = [live EXCEPT ![src] = live[src] \ Under(live[src], p)]
              /\ \E outcome \in Outcome : Commit(src, live[src] \ Under(live[src], p), outcome)
  <2>1. PICK p \in copy.prune :
              /\ MayPrune(p) /\ live' = [live EXCEPT ![src] = live[src] \ Under(live[src], p)]
              /\ \E outcome \in Outcome : Commit(src, live[src] \ Under(live[src], p), outcome)
    BY <1>2
  <2> DEFINE t == live[src] \ Under(live[src], p)
  <2>2. disk' = disk \/ disk' = [disk EXCEPT ![src] = t]
    BY <2>1 DEF Commit
  <2>3. Children(live[src], p) = {} /\ \A b \in copy.bad : ~IsPrefix(b, p)
    BY <2>1 DEF MayPrune
  <2>4. p \in Path
    BY DEF Types, CopyTyped, Ctx
  <2>5. \A n \in live[src] : IsPrefix(p, n.at) => n.at = p
    BY <1>0, <2>3, <2>4, RunningTypes, ChildlessIsLeaf
  <2>6. \A n \in live[src] : n \notin t => n.at = p
    BY <2>5 DEF Under
  <2> HIDE DEF t
  <2> QED BY <1>0, <2>1, <2>2, <2>3, <2>6 DEF t
<1>3. UNCHANGED <<live, disk>>
      \/ \E p \in copy.prune :
              /\ MayPrune(p) /\ live' = [live EXCEPT ![src] = live[src] \ Under(live[src], p)]
              /\ \E outcome \in Outcome : Commit(src, live[src] \ Under(live[src], p), outcome)
  BY DEF Prune, Live, trees
<1> QED BY <1>1, <1>2, <1>3

LEMMA CombineEndsEffect ==
    ASSUME Types, CombineEnds
    PROVE  /\ Running /\ had' = had /\ stack # << >> /\ Top.step = "subs" /\ copy.pc = "idle"
           /\ \/ UNCHANGED <<live, disk>>
              \/ LET t == live[src] \ Under(live[src], Top.at) IN
                 /\ Moves /\ live' = [live EXCEPT ![src] = t]
                 /\ disk' = disk \/ disk' = [disk EXCEPT ![src] = t]
                 /\ \A n \in live[src] : n \notin t <=> n.at = Top.at
<1>0. Running /\ had' = had /\ stack # << >> /\ Top.step = "subs" /\ copy.pc = "idle"
  BY DEF CombineEnds, Combines, bounds
<1> DEFINE t == live[src] \ Under(live[src], Top.at)
<1>1. CASE UNCHANGED <<live, disk>>
  BY <1>0, <1>1
<1>2. CASE /\ Moves /\ Children(live[src], Top.at) = {} /\ live' = [live EXCEPT ![src] = t]
           /\ disk' = disk \/ disk' = [disk EXCEPT ![src] = t]
  <2>1. Top.at \in Path
    BY <1>0, StackTypes DEF Types, CallersTyped, Frame
  <2>2. \A n \in live[src] : IsPrefix(Top.at, n.at) => n.at = Top.at
    BY <1>0, <1>2, <2>1, RunningTypes, ChildlessIsLeaf
  <2>3. IsPrefix(Top.at, Top.at)
    BY <2>1, PrefixReflexive
  <2>4. \A n \in live[src] : n \notin t <=> n.at = Top.at
    BY <2>2, <2>3 DEF Under
  <2> HIDE DEF t
  <2> QED BY <1>0, <1>2, <2>4 DEF t
<1>3. \/ UNCHANGED <<live, disk>>
      \/ /\ Moves /\ Children(live[src], Top.at) = {} /\ live' = [live EXCEPT ![src] = t]
         /\ disk' = disk \/ disk' = [disk EXCEPT ![src] = t]
  BY DEF CombineEnds, Live, Commit, trees
<1> QED BY <1>1, <1>2, <1>3

\* A move within a vault changes places only.
LEMMA MoveWithinEffect ==
    ASSUME Types, NEW s \in copy.todo, MoveWithin(s)
    PROVE  /\ Running /\ had' = had /\ copy.pc = "within"
           /\ \/ UNCHANGED <<live, disk>>
              \/ LET t == MovedWithin(live[src], s) IN
                 /\ MayMoveWithin(live[src], s) /\ live' = [live EXCEPT ![src] = t]
                 /\ disk' = disk \/ disk' = [disk EXCEPT ![src] = t]
                 /\ Content(t) = Content(live[src])
<1>0. Running /\ had' = had /\ copy.pc = "within" /\ s.from \in Path /\ s.to \in Path
  BY DEF MoveWithin, bounds, Types, CopyTyped, Ctx, Step
<1>1. MayMoveWithin(live[src], s) => Content(MovedWithin(live[src], s)) = Content(live[src])
  BY <1>0, RunningTypes, MovedWithinIsTree
<1>2. \/ UNCHANGED <<live, disk>>
      \/ /\ MayMoveWithin(live[src], s) /\ live' = [live EXCEPT ![src] = MovedWithin(live[src], s)]
         /\ disk' = disk \/ disk' = [disk EXCEPT ![src] = MovedWithin(live[src], s)]
  BY DEF MoveWithin, Live, Commit, trees
<1> QED BY <1>0, <1>1, <1>2

\* Merging the tags adds to what one gallery of the destination holds.
LEMMA CombineTagsEffect ==
    ASSUME Types, CombineTags
    PROVE  LET t == Merged(live[dst], Top.to, Held(live[src], Top.at)) IN
           /\ Running /\ had' = had /\ stack # << >> /\ copy.pc = "idle" /\ copy' = copy
           /\ job'.cancel = job.cancel
           /\ \/ UNCHANGED <<live, disk>> /\ stack' = << >>
              \/ /\ ~(src = dst /\ IsPrefix(Top.at, Top.to))
                 /\ Grown(live[dst], t) /\ Held(live[src], Top.at) \subseteq Held(t, Top.to)
                 /\ \A q : q # Top.to => Held(t, q) = Held(live[dst], q)
                 /\ \/ /\ live' = live /\ (disk' = disk \/ disk' = [disk EXCEPT ![dst] = t])
                       /\ stack' = << >>
                    \/ /\ live' = [live EXCEPT ![dst] = t] /\ disk' = [disk EXCEPT ![dst] = t]
                       /\ stack' = WithTop([Top EXCEPT !.step = "media"])
<1> DEFINE t == Merged(live[dst], Top.to, Held(live[src], Top.at))
<1>0. Running /\ had' = had /\ stack # << >> /\ copy.pc = "idle" /\ copy' = copy
  BY DEF CombineTags, Combines, bounds
<1>j. job'.cancel = job.cancel
  <2>1. job' = job \/ Unless(TRUE)
    BY DEF CombineTags, GiveUp
  <2> QED BY <2>1 DEF Unless, Types, JobTyped
<1>1. \/ UNCHANGED <<live, disk>> /\ stack' = << >>
      \/ /\ ~(src = dst /\ IsPrefix(Top.at, Top.to)) /\ Gallery(live[dst], Top.to)
         /\ \/ /\ live' = live /\ (disk' = disk \/ disk' = [disk EXCEPT ![dst] = t])
               /\ stack' = << >>
            \/ /\ live' = [live EXCEPT ![dst] = t] /\ disk' = [disk EXCEPT ![dst] = t]
               /\ stack' = WithTop([Top EXCEPT !.step = "media"])
  BY DEF CombineTags, GiveUp, Live, Commit, trees
<1>2. ASSUME Gallery(live[dst], Top.to)
      PROVE  /\ Grown(live[dst], t) /\ Held(live[src], Top.at) \subseteq Held(t, Top.to)
             /\ \A q : q # Top.to => Held(t, q) = Held(live[dst], q)
  <2>1. Top.to \in Path
    BY <1>0, StackTypes DEF Types, CallersTyped, Frame
  <2> DEFINE tags == Held(live[src], Top.at)
  <2>2. tags \subseteq had
    <3> SUFFICES ASSUME NEW c \in tags PROVE c \in had
      OBVIOUS
    <3>1. PICK n \in live[src] : c \in n.holds
      BY HeldDef
    <3> QED BY <1>0, <3>1, RunningTypes, TreeThen
  <2> HIDE DEF tags
  <2>3. LET m == Merged(live[dst], Top.to, tags) IN
        /\ \A q : Held(live[dst], q) \subseteq Held(m, q)
        /\ tags \subseteq Held(m, Top.to)
        /\ \A q : q # Top.to => Held(m, q) = Held(live[dst], q)
    BY <1>0, <1>2, <2>1, <2>2, RunningTypes, MergedIsTree
  <2> QED BY <2>3 DEF tags, Grown
<1> HIDE DEF t
<1> QED BY <1>0, <1>j, <1>1, <1>2 DEF t

\* The other actions leave the trees alone.
Quiet ==
    \/ \E s \in copy.todo : SkipMedia(s) \/ CopyMediaFails(s)
    \/ CopyEnds \/ MoveWithinEnds \/ Return \/ \E p \in rest : NextGallery(p)
    \/ CombineMedia \/ CombineList \/ (stack # << >> /\ \E p \in Top.subs : CombineChild(p))
    \/ \E t \in Task : Launch(t)
    \/ Cancel \/ JobEnds \/ UNCHANGED vars

LEMMA QuietEffect == Quiet => UNCHANGED <<live, disk, had>>
BY DEF Quiet, SkipMedia, CopyMediaFails, CopyEnds, MoveWithinEnds, Return, NextGallery, CombineMedia,
       CombineList, CombineChild, Launch, Cancel, JobEnds, vars, trees, bounds

LEMMA ActionCases ==
    [Next]_vars =>
        \/ \E s \in copy.todo :
              CopyGallery(s) \/ CopyGalleryFails(s) \/ CopyMedia(s) \/ MoveWithin(s)
        \/ Flush \/ LowerWatermark \/ RemoveMoved \/ Prune \/ CombineTags \/ CombineEnds \/ Crash
        \/ Quiet
BY DEF Next, Quiet

(***************************************************************************)
(* Each part of the invariant is kept.                                     *)
(***************************************************************************)

\* Within a vault, what runs lies apart from what it is combined into.
LEMMA FramesApart ==
    ASSUME Types, AreaInv, Running, Within, stack # << >>, stack[1].step # "merge",
           NEW i \in 1 .. Len(stack), NEW j \in 1 .. Len(stack)
    PROVE  /\ stack[i].at \in Path /\ stack[j].to \in Path
           /\ \A p \in Path : IsPrefix(stack[i].at, p) =>
                 ~IsPrefix(p, stack[j].to) /\ ~IsPrefix(stack[j].to, p)
<1>1. Area(stack, copy) /\ stack \in Seq(Frame)
  BY DEF AreaInv, Types, CallersTyped
<1>2. Len(stack) \in Nat \ {0} /\ \A k \in 1 .. Len(stack) : stack[k] \in Frame
  BY <1>1, StackTypes
<1>3. 1 \in 1 .. Len(stack)
  BY <1>2
<1> DEFINE a == stack[1].at
           b == stack[1].to
<1>4. /\ a \in Path /\ b \in Path /\ stack[i].at \in Path /\ stack[j].to \in Path
  BY <1>2, <1>3 DEF Frame
<1>5. ~IsPrefix(a, b) /\ ~IsStrictPrefix(b, a)
  BY <1>1 DEF Area
<1>6. IsPrefix(a, stack[i].at) /\ IsPrefix(b, stack[j].to)
  <2>1. 1 <= i /\ 1 <= j
    OBVIOUS
  <2> QED BY <1>1, <1>3, <2>1 DEF Area
<1> HIDE DEF a, b
<1>7. ASSUME NEW p \in Path, IsPrefix(stack[i].at, p)
      PROVE  ~IsPrefix(p, stack[j].to) /\ ~IsPrefix(stack[j].to, p)
  <2>1. IsPrefix(a, p)
    BY <1>4, <1>6, <1>7, PrefixTransitive
  <2> QED BY <1>4, <1>5, <1>6, <2>1, Apart
<1> QED BY <1>4, <1>7

\* A frame below the first was pushed after the first was validated, and so was
\* any frame that is past the merge of its tags.
LEMMA FirstMerged ==
    ASSUME Types, AreaInv, Running, Within, stack # << >>,
           \/ copy.pc # "idle" \/ \E i \in 1 .. Len(stack) : stack[i].step # "merge"
    PROVE  stack[1].step # "merge"
<1>1. Area(stack, copy) /\ stack \in Seq(Frame)
  BY DEF AreaInv, Types, CallersTyped
<1>2. Len(stack) \in Nat \ {0}
  BY <1>1, StackTypes
<1>3. CASE copy.pc # "idle"
  BY <1>1, <1>3 DEF Area
<1>4. CASE \E i \in 1 .. Len(stack) : stack[i].step # "merge"
  <2>1. PICK i \in 1 .. Len(stack) : stack[i].step # "merge"
    BY <1>4
  <2>2. i = 1 \/ Len(stack) > 1
    BY <1>2
  <2> QED BY <1>1, <2>1, <2>2 DEF Area
<1> QED BY <1>3, <1>4

LEMMA KeptStep ==
    ASSUME Types, KeptInv, [Next]_vars
    PROVE  Kept'
<1>0. Kept /\ DriverInv /\ FrameInv /\ AreaInv
  BY DEF KeptInv
<1>f. live \in [Vault -> SUBSET Node(had)] /\ disk \in [Vault -> SUBSET Node(had)]
  BY DEF Types, Trees
<1>q. ASSUME UNCHANGED <<live, disk, had>> PROVE Kept'
  BY <1>0, <1>q DEF Kept, KeptIn
<1>1. ASSUME NEW s \in copy.todo, CopyGallery(s) \/ CopyGalleryFails(s) \/ CopyMedia(s) PROVE Kept'
  <2>1. PICK t : /\ live' = [live EXCEPT ![dst] = t] /\ disk' = disk /\ had' = had
                 /\ Grown(live[dst], t)
    BY <1>1, CopyEffect
  <2>2. dst \in Vault
    <3>1. Running
      BY <1>1 DEF CopyGallery, CopyGalleryFails, CopyMedia, Copies
    <3> QED BY <3>1, RunningTypes
  <2>3. Content(live[dst]) \subseteq Content(t)
    BY <2>1, GrownContent
  <2> QED BY <1>0, <2>1, <2>2, <2>3, KeptIf
<1>2. ASSUME Flush \/ LowerWatermark PROVE Kept'
  <2>1. /\ Running /\ live' = live /\ had' = had
        /\ disk' = disk \/ disk' = [disk EXCEPT ![dst] = live[dst]]
    BY <1>2, CommitEffect
  <2>2. dst \in Vault
    BY <2>1, RunningTypes
  <2> QED BY <1>0, <2>1, <2>2, KeptIf
<1>3. ASSUME RemoveMoved PROVE Kept'
  <2> DEFINE t == WithoutMedia(live[src], copy.moved)
  <2>1. /\ Running /\ had' = had
        /\ live' = live \/ live' = [live EXCEPT ![src] = t]
        /\ disk' = disk \/ disk' = [disk EXCEPT ![src] = t]
        /\ \A n \in live[src] : n \notin t => n.at \in copy.moved
    BY <1>3, RemoveMovedEffect, Zenon
  <2> HIDE DEF t
  <2>2. src \in Vault /\ dst \in Vault
    BY <2>1, RunningTypes
  <2>3. copy.pc = "remove"
    BY <1>3 DEF RemoveMoved
  <2>4. ASSUME NEW c \in Content(live[src]), c \notin Content(t)
        PROVE  dst # src /\ c \in Content(live[dst]) /\ c \in Content(disk[dst])
    <3>1. PICK n \in live[src] : c \in n.holds
      BY ContentDef
    <3>2. n \notin t /\ c \in Held(live[src], n.at)
      BY <2>4, <3>1, ContentDef, HeldDef
    <3>3. n.at \in copy.moved
      BY <2>1, <3>2
    <3>4. Moves
      BY <1>0, <2>1, <3>3 DEF DriverInv
    <3>5. src # dst /\ Secured(copy, live[src], live[dst], disk[dst])
      BY <1>0, <2>1, <2>3, <3>4 DEF DriverInv, Copying
    <3> QED BY <3>2, <3>3, <3>5 DEF Secured
  <2> QED BY <1>0, <2>1, <2>2, <2>4, KeptIf
<1>4. ASSUME Prune PROVE Kept'
  <2>1. CASE UNCHANGED <<live, disk, had>>
    BY <1>q, <2>1
  <2>2. ASSUME NEW p \in copy.prune, NEW t, t = live[src] \ Under(live[src], p),
               Running, had' = had, live' = [live EXCEPT ![src] = t],
               disk' = disk \/ disk' = [disk EXCEPT ![src] = t],
               \A b \in copy.bad : ~IsPrefix(b, p),
               \A n \in live[src] : n \notin t => n.at = p
        PROVE  Kept'
    <3>1. src \in Vault /\ dst \in Vault
      BY <2>2, RunningTypes
    <3>2. copy.pc = "prune"
      BY <1>4 DEF Prune
    <3>3. src # dst /\ Secured(copy, live[src], live[dst], disk[dst]) /\ Settled(copy, job.cancel)
      <4>1. Moves
        BY <1>0, <2>2, <3>2 DEF DriverInv
      <4> QED BY <1>0, <2>2, <3>2, <4>1 DEF DriverInv, Copying
    <3>4. Held(live[src], p) \subseteq Content(live[dst]) /\ Held(live[src], p) \subseteq Content(disk[dst])
      BY <2>2, <3>2, <3>3 DEF Secured, Settled
    <3>5. ASSUME NEW c \in Content(live[src]), c \notin Content(t)
          PROVE  c \in Content(live[dst]) /\ c \in Content(disk[dst])
      <4>1. PICK n \in live[src] : c \in n.holds
        BY ContentDef
      <4>2. n \notin t /\ c \in Held(live[src], n.at)
        BY <3>5, <4>1, ContentDef, HeldDef
      <4> QED BY <2>2, <3>4, <4>2
    <3> QED BY <1>0, <2>2, <3>1, <3>3, <3>5, KeptIf
  <2> QED BY <1>4, <2>1, <2>2, PruneEffect
<1>5. ASSUME NEW s \in copy.todo, MoveWithin(s) PROVE Kept'
  <2> DEFINE t == MovedWithin(live[src], s)
  <2>1. /\ Running /\ had' = had
        /\ \/ UNCHANGED <<live, disk>>
           \/ /\ live' = [live EXCEPT ![src] = t]
              /\ disk' = disk \/ disk' = [disk EXCEPT ![src] = t]
              /\ Content(t) = Content(live[src])
    BY <1>5, MoveWithinEffect
  <2> HIDE DEF t
  <2>2. src \in Vault
    BY <2>1, RunningTypes
  <2> QED BY <1>0, <1>q, <2>1, <2>2, KeptIf
<1>6. ASSUME CombineTags PROVE Kept'
  <2> DEFINE t == Merged(live[dst], Top.to, Held(live[src], Top.at))
  <2>1. /\ Running /\ had' = had
        /\ \/ UNCHANGED <<live, disk>>
           \/ /\ Grown(live[dst], t)
              /\ live' = live \/ live' = [live EXCEPT ![dst] = t]
              /\ disk' = disk \/ disk' = [disk EXCEPT ![dst] = t]
    BY <1>6, CombineTagsEffect, Zenon
  <2> HIDE DEF t
  <2>2. dst \in Vault
    BY <2>1, RunningTypes
  <2>3. Grown(live[dst], t) => Content(live[dst]) \subseteq Content(t)
    BY GrownContent
  <2> QED BY <1>0, <1>q, <2>1, <2>2, <2>3, KeptIf
<1>7. ASSUME CombineEnds PROVE Kept'
  <2> DEFINE t == live[src] \ Under(live[src], Top.at)
  <2>1. /\ Running /\ had' = had /\ stack # << >> /\ Top.step = "subs"
        /\ \/ UNCHANGED <<live, disk>>
           \/ /\ Moves /\ live' = [live EXCEPT ![src] = t]
              /\ disk' = disk \/ disk' = [disk EXCEPT ![src] = t]
              /\ \A n \in live[src] : n \notin t <=> n.at = Top.at
    BY <1>7, CombineEndsEffect, Zenon
  <2> HIDE DEF t
  <2>2. src \in Vault /\ dst \in Vault
    BY <2>1, RunningTypes
  <2>3. /\ Top = stack[Len(stack)] /\ Len(stack) \in 1 .. Len(stack) /\ Top \in Frame
    BY <2>1, StackTypes DEF Types, CallersTyped
  <2>4. ASSUME Moves
        PROVE  /\ Held(live[src], Top.at) \subseteq Held(live[dst], Top.to)
               /\ Held(live[src], Top.at) \subseteq Held(disk[dst], Top.to)
    BY <1>0, <2>1, <2>3, <2>4 DEF FrameInv, Combined
  <2>5. ASSUME Moves, src = dst PROVE Top.at # Top.to
    <3>1. Within
      BY <2>5 DEF Within
    <3>2. stack[1].step # "merge"
      BY <1>0, <2>1, <2>3, <3>1, FirstMerged
    <3>3. IsPrefix(Top.at, Top.at) /\ Top.at \in Path
      BY <2>3, PrefixReflexive DEF Frame
    <3>4. ~IsPrefix(Top.at, Top.to)
      BY <1>0, <2>1, <2>3, <3>1, <3>2, <3>3, FramesApart
    <3> QED BY <3>3, <3>4
  <2>6. ASSUME Moves, \A n \in live[src] : n \notin t <=> n.at = Top.at,
               NEW c \in Content(live[src]), c \notin Content(t)
        PROVE  dst # src /\ c \in Content(live[dst]) /\ c \in Content(disk[dst])
    <3>1. PICK n \in live[src] : c \in n.holds
      BY ContentDef
    <3>2. n \notin t /\ c \in Held(live[src], n.at)
      BY <2>6, <3>1, ContentDef, HeldDef
    <3>3. c \in Held(live[dst], Top.to) /\ c \in Held(disk[dst], Top.to)
      BY <2>4, <2>6, <3>2
    <3>4. dst # src
      <4> SUFFICES ASSUME src = dst PROVE FALSE
        OBVIOUS
      <4>1. PICK m \in live[src] : m.at = Top.to /\ c \in m.holds
        BY <3>3, HeldDef
      <4>2. m \in t
        BY <2>5, <2>6, <4>1
      <4> QED BY <2>6, <4>1, <4>2, ContentDef
    <3> QED BY <3>3, <3>4, HeldInContent
  <2> QED BY <1>0, <1>q, <2>1, <2>2, <2>6, KeptIf
<1>8. ASSUME Crash PROVE Kept'
  <2>1. live' = disk /\ disk' = disk /\ had' = had
    BY <1>8 DEF Crash
  <2> QED BY <1>0, <2>1 DEF Kept, KeptIn
<1>9. ASSUME Quiet PROVE Kept'
  BY <1>9, <1>q, QuietEffect
<1> QED BY <1>1, <1>2, <1>3, <1>4, <1>5, <1>6, <1>7, <1>8, <1>9, ActionCases

\* A driver starts with nothing to remove, and with every gallery it will prune
\* in its plan.
LEMMA SubtreeSecured ==
    ASSUME NEW p, NEW to, NEW heeds, NEW mem, NEW stored, NEW cancel
    PROVE  LET c == Subtree(p, to, heeds) IN
           /\ c.moved = {} /\ c.pc \in {"copy", "within"} /\ c.kind = "gallery"
           /\ c.pc = "copy" => ~Within /\ Secured(c, live[src], mem, stored) /\ Settled(c, cancel)
<1> DEFINE c == Subtree(p, to, heeds)
<1>1. c.moved = {} /\ c.pc \in {"copy", "within"} /\ c.kind = "gallery"
  BY DEF Subtree, Idle
<1>2. ASSUME c.pc = "copy"
      PROVE  ~Within /\ Secured(c, live[src], mem, stored) /\ Settled(c, cancel)
  <2>1. ~Within
    BY <1>2 DEF Subtree, Idle
  <2>2. c.pending = {} /\ c.prune = SubtreeGalleries(live[src], p) /\ c.todo = SubtreeSteps(live[src], p, to)
    BY <2>1 DEF Subtree, Idle
  <2>3. \A q \in SubtreeGalleries(live[src], p) :
           \E s \in SubtreeSteps(live[src], p, to) : s.what = "gallery" /\ s.from = q
    <3> TAKE q \in SubtreeGalleries(live[src], p)
    <3>1. PICK n \in Under(live[src], p) : n.what = "gallery" /\ n.at = q
      BY DEF SubtreeGalleries, Paths, Galleries
    <3> DEFINE s == StepOf(n.what, n.at, p, to)
    <3>2. s \in SubtreeSteps(live[src], p, to)
      BY DEF SubtreeSteps
    <3>3. s.what = "gallery" /\ s.from = q
      BY <3>1 DEF StepOf
    <3> QED BY <3>2, <3>3
  <2> HIDE DEF c
  <2> QED BY <1>1, <1>2, <2>1, <2>2, <2>3 DEF Secured, Settled
<1> HIDE DEF c
<1> QED BY <1>1, <1>2 DEF c

LEMMA ImagesSecured ==
    ASSUME NEW within \in BOOLEAN, NEW steps, NEW heeds, NEW from, NEW mem, NEW stored, NEW cancel
    PROVE  LET c == Images(within, steps, heeds) IN
           /\ c.moved = {} /\ c.pc \in {"copy", "within"} /\ c.kind = "images"
           /\ c.pc = "copy" => ~within /\ Secured(c, from, mem, stored) /\ Settled(c, cancel)
<1> DEFINE c == Images(within, steps, heeds)
<1>1. /\ c.moved = {} /\ c.pending = {} /\ c.prune = {} /\ c.kind = "images"
      /\ c.pc = IF within THEN "within" ELSE "copy"
  BY DEF Images, Idle
<1> HIDE DEF c
<1> QED BY <1>1 DEF Secured, Settled, c

\* The steps of a driver, under the names the lemmas below use.
LEMMA DriverStep ==
    ASSUME Types, KeptInv, [Next]_vars
    PROVE  DriverInv'
<1>0. DriverInv /\ CopyTyped(copy) /\ copy \in Ctx
  BY DEF KeptInv, Types, CopyTyped
<1>f. live \in [Vault -> SUBSET Node(had)] /\ disk \in [Vault -> SUBSET Node(had)]
  BY DEF Types, Trees
<1>r. ASSUME Running PROVE src \in Vault /\ dst \in Vault
  BY <1>r, RunningTypes
<1>d. ASSUME Running, Moves, copy.pc \in Copying
      PROVE  src # dst /\ Secured(copy, live[src], live[dst], disk[dst]) /\ Settled(copy, job.cancel)
  BY <1>0, <1>d DEF DriverInv
\* The driver goes on: its task is the same, and what it moved is for a move.
<1>g. ASSUME Running, task' = task, job'.cancel = job.cancel,
             copy'.moved = {} \/ copy'.moved = copy.moved \/ Moves,
             copy'.pc = "prune" => Moves,
             copy'.pc \in Copying => copy.pc \in Copying /\ copy'.kind = copy.kind,
             Moves /\ copy'.pc \in Copying =>
                /\ Secured(copy', live'[src], live'[dst], disk'[dst])
                /\ Settled(copy', job.cancel)
      PROVE  DriverInv'
  <2>1. src' = src /\ dst' = dst /\ Moves' = Moves
    BY <1>g DEF src, dst, Moves
  <2>2. Running /\ Moves /\ copy'.pc \in Copying => src # dst
    BY <1>d, <1>g
  <2>3. copy'.moved # {} \/ copy'.pc = "prune" => Moves
    BY <1>0, <1>g DEF DriverInv
  <2>4. copy'.pc \in Copying => copy'.kind \in {"images", "gallery"}
    BY <1>0, <1>g DEF DriverInv
  <2> QED BY <1>g, <2>1, <2>2, <2>3, <2>4 DEF DriverInv
\* No driver that copies runs, before or after.
<1>n. ASSUME copy'.pc \notin Copying,
             copy'.moved = {} \/ (copy'.moved = copy.moved /\ Running /\ task' = task)
      PROVE  DriverInv'
  <2>1. Running /\ task' = task => Moves' = Moves
    BY DEF Moves
  <2>2. copy'.moved # {} => Moves'
    BY <1>0, <1>n, <2>1 DEF DriverInv
  <2> QED BY <1>n, <2>2 DEF DriverInv, Copying
<1>1. ASSUME NEW s \in copy.todo, CopyGallery(s) \/ CopyGalleryFails(s) \/ CopyMedia(s) PROVE DriverInv'
  <2>1. Running /\ copy.pc = "copy" /\ task' = task /\ job' = job
    BY <1>1 DEF CopyGallery, CopyGalleryFails, CopyMedia, Copies, asked
  <2>2. PICK t : /\ live' = [live EXCEPT ![dst] = t] /\ disk' = disk
                 /\ Grown(live[dst], t)
                 /\ CopyGallery(s) \/ CopyMedia(s) => Held(live[src], s.from) \subseteq Content(t)
    BY <1>1, CopyEffect
  <2>3. s.from \in Path
    BY <1>0 DEF Ctx, Step
  <2>4. ASSUME Moves
        PROVE  /\ Secured(copy, live[src], t, disk[dst])
               /\ live'[src] = live[src] /\ live'[dst] = t /\ disk'[dst] = disk[dst]
    <3>1. src # dst /\ Secured(copy, live[src], live[dst], disk[dst]) /\ src \in Vault /\ dst \in Vault
      BY <1>d, <1>r, <2>1, <2>4 DEF Copying
    <3>2. Secured(copy, live[src], t, disk[dst])
      <4>1. Content(live[dst]) \subseteq Content(t) /\ Grown(live[src], live[src])
        BY <2>2, GrownContent, SameGrown
      <4> QED BY <3>1, <4>1, SecuredStays
    <3> QED BY <1>f, <2>2, <3>1, <3>2
  <2>5. CASE CopyGallery(s)
    <3>1. copy' = [Skipped(copy, s) EXCEPT !.dirty = TRUE]
      BY <2>5 DEF CopyGallery
    <3>2. /\ copy'.todo = copy.todo \ {s} /\ copy'.pending = copy.pending /\ copy'.moved = copy.moved
          /\ copy'.dirty = TRUE /\ copy'.prune = copy.prune /\ copy'.bad = copy.bad
          /\ copy'.pc = "copy" /\ copy'.kind = copy.kind
      BY <1>0, <2>1, <3>1 DEF Skipped, Ctx
    <3>3. ASSUME Moves PROVE Secured(copy', live[src], t, disk[dst])
      <4>1. Secured(copy, live[src], t, disk[dst]) /\ Held(live[src], s.from) \subseteq Content(t)
        BY <2>2, <2>4, <2>5, <3>3
      <4>2. ASSUME NEW p \in copy'.prune
            PROVE  \/ \E u \in copy'.todo : u.what = "gallery" /\ u.from = p
                   \/ \E b \in copy'.bad : IsPrefix(b, p)
                   \/ Held(live[src], p) \subseteq Content(t)
        BY <3>2, <4>1 DEF Secured
      <4> QED BY <3>2, <4>1, <4>2 DEF Secured
    <3> QED BY <1>g, <2>1, <2>4, <3>2, <3>3 DEF Copying, Settled
  <2>6. CASE CopyGalleryFails(s)
    <3> DEFINE branch == {u \in copy.todo : IsPrefix(s.from, u.from)}
    <3>1. PICK ensured \in {FALSE, MayEnsure(live[dst], s.to)} :
             copy' = [copy EXCEPT !.todo = @ \ branch, !.bad = @ \cup {s.from},
                        !.dirty = @ \/ ensured, !.pc = IF s.from = copy.from THEN "error" ELSE "copy"]
      BY <2>6 DEF CopyGalleryFails
    <3>2. \A u \in copy.todo \ branch : u \in copy.todo
      OBVIOUS
    <3>3. \A u \in copy.todo : u \notin copy.todo \ branch => IsPrefix(s.from, u.from)
      OBVIOUS
    <3> HIDE DEF branch
    <3>4. /\ copy'.todo = copy.todo \ branch /\ copy'.pending = copy.pending /\ copy'.moved = copy.moved
          /\ ~copy'.dirty => ~copy.dirty /\ copy'.prune = copy.prune
          /\ copy'.prune = copy.prune /\ copy'.bad = copy.bad \cup {s.from}
          /\ copy'.pc \in {"copy", "error"} /\ copy'.kind = copy.kind
      BY <1>0, <2>1, <3>1 DEF Ctx
    <3>5. ASSUME Moves PROVE Secured(copy', live[src], t, disk[dst])
      <4>1. Secured(copy, live[src], t, disk[dst])
        BY <2>4, <3>5
      <4>2. ASSUME NEW p \in copy'.prune
            PROVE  \/ \E u \in copy'.todo : u.what = "gallery" /\ u.from = p
                   \/ \E b \in copy'.bad : IsPrefix(b, p)
                   \/ /\ Held(live[src], p) \subseteq Content(t)
                      /\ ~copy'.dirty => Held(live[src], p) \subseteq Content(disk[dst])
        BY <3>3, <3>4, <4>1 DEF Secured
      <4> QED BY <3>4, <4>1, <4>2 DEF Secured
    <3> QED BY <1>g, <2>1, <2>4, <3>4, <3>5 DEF Copying, Settled
  <2>7. CASE CopyMedia(s)
    <3>1. s.what = "media"
          /\ copy' = [Skipped(copy, s) EXCEPT !.pending = @ \cup {s.from}, !.dirty = TRUE,
                        !.pc = IF Cardinality(copy.pending) + 1 >= Batch THEN "flush" ELSE "copy"]
      BY <2>7 DEF CopyMedia
    <3>2. /\ copy'.todo = copy.todo \ {s} /\ copy'.pending = copy.pending \cup {s.from}
          /\ copy'.moved = copy.moved
          /\ copy'.dirty = TRUE /\ copy'.prune = copy.prune /\ copy'.bad = copy.bad
          /\ copy'.pc \in {"flush", "copy"} /\ copy'.kind = copy.kind
      BY <1>0, <2>1, <3>1 DEF Skipped, Ctx
    <3>3. ASSUME Moves PROVE Secured(copy', live[src], t, disk[dst])
      <4>1. Secured(copy, live[src], t, disk[dst]) /\ Held(live[src], s.from) \subseteq Content(t)
        BY <2>2, <2>4, <2>7, <3>3
      <4>2. ASSUME NEW p \in copy'.prune
            PROVE  \/ \E u \in copy'.todo : u.what = "gallery" /\ u.from = p
                   \/ \E b \in copy'.bad : IsPrefix(b, p)
                   \/ Held(live[src], p) \subseteq Content(t)
        BY <3>1, <3>2, <4>1 DEF Secured
      <4>3. \A p \in copy'.pending : Held(live[src], p) \subseteq Content(t)
        BY <3>2, <4>1 DEF Secured
      <4> QED BY <3>2, <4>1, <4>2, <4>3 DEF Secured
    <3> QED BY <1>g, <2>1, <2>4, <3>2, <3>3 DEF Copying, Settled
  <2> QED BY <1>1, <2>5, <2>6, <2>7
<1>2. ASSUME NEW s \in copy.todo, SkipMedia(s) \/ CopyMediaFails(s) PROVE DriverInv'
  <2>1. /\ Running /\ copy.pc = "copy" /\ task' = task /\ job' = job /\ s.what = "media"
        /\ live' = live /\ disk' = disk /\ copy' = Skipped(copy, s)
    BY <1>2 DEF SkipMedia, CopyMediaFails, Copies, asked, trees
  <2>2. /\ copy'.todo = copy.todo \ {s} /\ copy'.pending = copy.pending /\ copy'.moved = copy.moved
        /\ copy'.dirty = copy.dirty /\ copy'.prune = copy.prune /\ copy'.bad = copy.bad
        /\ copy'.pc = "copy" /\ copy'.kind = copy.kind
    BY <1>0, <2>1 DEF Skipped, Ctx
  <2>3. ASSUME Moves PROVE Secured(copy', live[src], live[dst], disk[dst])
    <3>1. Secured(copy, live[src], live[dst], disk[dst])
      BY <1>d, <2>1, <2>3 DEF Copying
    <3> QED BY <2>1, <2>2, <3>1 DEF Secured
  <2> QED BY <1>g, <2>1, <2>2, <2>3 DEF Copying, Settled
<1>3. ASSUME CopyEnds PROVE DriverInv'
  <2>1. /\ Running /\ copy.pc = "copy" /\ task' = task /\ job' = job /\ live' = live /\ disk' = disk
        /\ copy' = [copy EXCEPT !.pc = "last"] /\ (copy.todo = {} \/ copy.failed \/ Cancelled)
    BY <1>3 DEF CopyEnds, asked, trees
  <2>2. /\ copy'.todo = copy.todo /\ copy'.pending = copy.pending /\ copy'.moved = copy.moved
        /\ copy'.dirty = copy.dirty /\ copy'.prune = copy.prune /\ copy'.bad = copy.bad
        /\ copy'.failed = copy.failed /\ copy'.heeds = copy.heeds
        /\ copy'.pc = "last" /\ copy'.kind = copy.kind
    BY <1>0, <2>1 DEF Ctx
  <2>3. ASSUME Moves PROVE Secured(copy', live[src], live[dst], disk[dst])
    <3>1. Secured(copy, live[src], live[dst], disk[dst])
      BY <1>d, <2>1, <2>3 DEF Copying
    <3> QED BY <2>2, <3>1 DEF Secured
  <2>4. Settled(copy', job.cancel)
    BY <2>1, <2>2 DEF Settled, Cancelled
  <2> QED BY <1>g, <2>1, <2>2, <2>3, <2>4 DEF Copying

<1>4. ASSUME Flush PROVE DriverInv'
  <2>1. Running /\ copy.pc \in {"flush", "last"} /\ task' = task /\ job' = job /\ live' = live
    BY <1>4 DEF Flush, asked
  <2> DEFINE next == IF copy.pc = "flush" THEN "copy" ELSE "watermark"
  <2>2. CASE ~copy.dirty /\ copy' = [copy EXCEPT !.pc = next] /\ disk' = disk
    <3>1. /\ copy'.todo = copy.todo /\ copy'.pending = copy.pending /\ copy'.moved = copy.moved
          /\ copy'.dirty = FALSE /\ copy'.prune = copy.prune /\ copy'.bad = copy.bad
          /\ copy'.failed = copy.failed /\ copy'.heeds = copy.heeds
          /\ copy'.pc = next /\ copy'.kind = copy.kind /\ copy.dirty = FALSE
      BY <1>0, <2>2 DEF Ctx
    <3>2. ASSUME Moves
          PROVE  Secured(copy', live[src], live[dst], disk[dst]) /\ Settled(copy', job.cancel)
      <4>1. Secured(copy, live[src], live[dst], disk[dst]) /\ Settled(copy, job.cancel)
        BY <1>d, <2>1, <3>2 DEF Copying
      <4>2. Secured(copy', live[src], live[dst], disk[dst])
        BY <3>1, <4>1 DEF Secured
      <4>3. Settled(copy', job.cancel)
        BY <2>1, <3>1, <4>1 DEF Settled
      <4> QED BY <4>2, <4>3
    <3> QED BY <1>g, <2>1, <2>2, <3>1, <3>2 DEF Copying
  <2>3. ASSUME NEW outcome \in Outcome, Commit(dst, live[dst], outcome),
               copy' = [Flushed(copy, outcome = "ok") EXCEPT !.pc = next]
        PROVE  DriverInv'
    <3> DEFINE ok == outcome = "ok"
    <3>1. ok => disk' = [disk EXCEPT ![dst] = live[dst]]
      BY <2>3 DEF Commit
    <3>2. disk' = disk \/ disk' = [disk EXCEPT ![dst] = live[dst]]
      BY <2>3 DEF Commit
    <3>3. ok \in BOOLEAN /\ copy' = [Flushed(copy, ok) EXCEPT !.pc = next]
      BY <2>3
    <3> HIDE DEF ok
    <3>4. /\ copy'.todo = copy.todo /\ copy'.pending = {}
          /\ copy'.moved = IF ok /\ Moves THEN copy.moved \cup copy.pending ELSE copy.moved
          /\ copy'.dirty = ~ok /\ copy'.prune = copy.prune /\ copy'.bad = copy.bad
          /\ copy'.failed = (copy.failed \/ ~ok) /\ copy'.heeds = copy.heeds
          /\ copy'.pc = next /\ copy'.kind = copy.kind
      BY <1>0, <3>3 DEF Ctx, Flushed
    <3>5. ASSUME Moves
          PROVE  Secured(copy', live[src], live[dst], disk'[dst]) /\ Settled(copy', job.cancel)
      <4>1. Secured(copy, live[src], live[dst], disk[dst]) /\ Settled(copy, job.cancel) /\ dst \in Vault
        BY <1>d, <1>r, <2>1, <3>5 DEF Copying
      <4>2. (disk'[dst] = disk[dst] \/ disk'[dst] = live[dst]) /\ (ok => disk'[dst] = live[dst])
        BY <1>f, <3>1, <3>2, <4>1
      <4>3. Secured(copy, live[src], live[dst], disk'[dst])
        BY <4>1, <4>2, SecuredStays, SameGrown
      <4>4. \A p \in copy'.moved :
               Held(live[src], p) \subseteq Content(live[dst]) /\ Held(live[src], p) \subseteq Content(disk'[dst])
        BY <3>4, <4>1, <4>2, <4>3 DEF Secured
      <4>5. ASSUME NEW p \in copy'.prune
            PROVE  \/ \E u \in copy'.todo : u.what = "gallery" /\ u.from = p
                   \/ \E b \in copy'.bad : IsPrefix(b, p)
                   \/ /\ Held(live[src], p) \subseteq Content(live[dst])
                      /\ ~copy'.dirty => Held(live[src], p) \subseteq Content(disk'[dst])
        BY <3>4, <4>2, <4>3 DEF Secured
      <4>6. Secured(copy', live[src], live[dst], disk'[dst])
        BY <3>4, <4>4, <4>5 DEF Secured
      <4>7. Settled(copy', job.cancel)
        BY <2>1, <3>4, <4>1 DEF Settled
      <4> QED BY <4>6, <4>7
    <3> QED BY <1>g, <2>1, <3>4, <3>5 DEF Copying
  <2> QED BY <1>4, <2>2, <2>3 DEF Flush
<1>5. ASSUME LowerWatermark PROVE DriverInv'
  <2>1. /\ Running /\ copy.pc = "watermark" /\ task' = task /\ job' = job /\ live' = live
        /\ copy' = [copy EXCEPT !.pc = "remove"]
    BY <1>5 DEF LowerWatermark, asked
  <2>2. disk' = disk \/ disk' = [disk EXCEPT ![dst] = live[dst]]
    BY <1>5, CommitEffect
  <2>3. /\ copy'.todo = copy.todo /\ copy'.pending = copy.pending /\ copy'.moved = copy.moved
        /\ copy'.dirty = copy.dirty /\ copy'.prune = copy.prune /\ copy'.bad = copy.bad
        /\ copy'.failed = copy.failed /\ copy'.heeds = copy.heeds
        /\ copy'.pc = "remove" /\ copy'.kind = copy.kind
    BY <1>0, <2>1 DEF Ctx
  <2>4. ASSUME Moves
        PROVE  Secured(copy', live[src], live[dst], disk'[dst]) /\ Settled(copy', job.cancel)
    <3>1. Secured(copy, live[src], live[dst], disk[dst]) /\ Settled(copy, job.cancel) /\ dst \in Vault
      BY <1>d, <1>r, <2>1, <2>4 DEF Copying
    <3>2. disk'[dst] = disk[dst] \/ disk'[dst] = live[dst]
      BY <1>f, <2>2, <3>1
    <3>3. Secured(copy, live[src], live[dst], disk'[dst])
      BY <3>1, <3>2, SecuredStays, SameGrown
    <3>4. Secured(copy', live[src], live[dst], disk'[dst])
      BY <2>3, <3>3 DEF Secured
    <3>5. Settled(copy', job.cancel)
      BY <2>1, <2>3, <3>1 DEF Settled
    <3> QED BY <3>4, <3>5
  <2> QED BY <1>g, <2>1, <2>3, <2>4 DEF Copying
<1>6. ASSUME RemoveMoved PROVE DriverInv'
  <2> DEFINE t == WithoutMedia(live[src], copy.moved)
             pc == AfterRemoval(copy)
  <2>1. /\ copy.pc = "remove" /\ task' = task /\ job' = job
        /\ copy' = [copy EXCEPT !.pc = pc, !.moved = {}]
    BY <1>6 DEF RemoveMoved, asked
  <2>2. /\ Running
        /\ live' = live \/ live' = [live EXCEPT ![src] = t]
        /\ disk' = disk \/ disk' = [disk EXCEPT ![src] = t]
    BY <1>6, RemoveMovedEffect, Zenon
  <2>3. t \subseteq live[src]
    BY DEF WithoutMedia
  <2>4. copy.kind \in {"images", "gallery"}
    BY <1>0, <2>1, <2>2 DEF DriverInv, Copying
  <2>5. /\ pc \in {"ok", "error", "prune"}
        /\ pc = "prune" => ~copy.failed /\ ~Cancelled /\ Moves
    BY <2>4 DEF AfterRemoval
  <2> HIDE DEF t, pc
  <2>6. /\ copy'.todo = copy.todo /\ copy'.pending = copy.pending /\ copy'.moved = {}
        /\ copy'.dirty = copy.dirty /\ copy'.prune = copy.prune /\ copy'.bad = copy.bad
        /\ copy'.failed = copy.failed /\ copy'.heeds = copy.heeds
        /\ copy'.pc = pc /\ copy'.kind = copy.kind
    BY <1>0, <2>1 DEF Ctx
  <2>7. ASSUME Moves, copy'.pc \in Copying
        PROVE  Secured(copy', live'[src], live'[dst], disk'[dst]) /\ Settled(copy', job.cancel)
    <3>1. src # dst /\ Secured(copy, live[src], live[dst], disk[dst]) /\ Settled(copy, job.cancel)
          /\ src \in Vault /\ dst \in Vault
      BY <1>d, <1>r, <2>1, <2>2, <2>7 DEF Copying
    <3>2. /\ live'[dst] = live[dst] /\ disk'[dst] = disk[dst]
          /\ live'[src] = live[src] \/ live'[src] = t
      BY <1>f, <2>2, <3>1
    <3>3. Grown(live'[src], live[src])
      BY <2>3, <3>2, SubsetGrown, SameGrown
    <3>4. Secured(copy, live'[src], live[dst], disk[dst])
      BY <3>1, <3>3, SecuredStays
    <3>5. Secured(copy', live'[src], live[dst], disk[dst])
      BY <2>6, <3>4 DEF Secured
    <3>6. pc = "prune"
      BY <2>5, <2>6, <2>7 DEF Copying
    <3>7. Settled(copy', job.cancel)
      BY <2>1, <2>5, <2>6, <3>1, <3>6 DEF Settled, Cancelled
    <3> QED BY <3>2, <3>5, <3>7
  <2> QED BY <1>g, <2>1, <2>2, <2>5, <2>6, <2>7 DEF Copying
<1>7. ASSUME Prune PROVE DriverInv'
  <2>1. copy.pc = "prune" /\ task' = task /\ job' = job
        /\ (copy' = [copy EXCEPT !.pc = "ok"] \/ \E p \in copy.prune : copy' = [copy EXCEPT !.prune = @ \ {p}])
    BY <1>7 DEF Prune, asked
  <2>2. PICK t : /\ Running /\ t \subseteq live[src]
                 /\ live' = live \/ live' = [live EXCEPT ![src] = t]
                 /\ disk' = disk \/ disk' = [disk EXCEPT ![src] = t]
    <3>1. CASE Running /\ UNCHANGED <<live, disk, had>>
      BY <3>1
    <3>2. ASSUME NEW p \in copy.prune, NEW t, t = live[src] \ Under(live[src], p), Running,
                 live' = [live EXCEPT ![src] = t], disk' = disk \/ disk' = [disk EXCEPT ![src] = t]
          PROVE  \E u : /\ Running /\ u \subseteq live[src]
                        /\ live' = live \/ live' = [live EXCEPT ![src] = u]
                        /\ disk' = disk \/ disk' = [disk EXCEPT ![src] = u]
      <4>1. t \subseteq live[src]
        BY <3>2
      <4> QED BY <3>2, <4>1
    <3> QED BY <1>7, <3>1, <3>2, PruneEffect
  <2>3. /\ copy'.todo = copy.todo /\ copy'.pending = copy.pending /\ copy'.moved = copy.moved
        /\ copy'.dirty = copy.dirty /\ copy'.prune \subseteq copy.prune /\ copy'.bad = copy.bad
        /\ copy'.failed = copy.failed /\ copy'.heeds = copy.heeds
        /\ copy'.pc \in {"prune", "ok"} /\ copy'.kind = copy.kind
    BY <1>0, <2>1 DEF Ctx
  <2>4. Moves
    BY <1>0, <2>1, <2>2 DEF DriverInv
  <2>5. src # dst /\ Secured(copy, live[src], live[dst], disk[dst]) /\ Settled(copy, job.cancel)
        /\ src \in Vault /\ dst \in Vault
    BY <1>d, <1>r, <2>1, <2>2, <2>4 DEF Copying
  <2>6. /\ live'[dst] = live[dst] /\ disk'[dst] = disk[dst]
        /\ live'[src] = live[src] \/ live'[src] = t
    BY <1>f, <2>2, <2>5
  <2>7. Grown(live'[src], live[src])
    BY <2>2, <2>6, SubsetGrown, SameGrown
  <2>8. Secured(copy, live'[src], live[dst], disk[dst])
    BY <2>5, <2>7, SecuredStays
  <2>9. Secured(copy', live'[src], live[dst], disk[dst])
    BY <2>3, <2>8 DEF Secured
  <2>10. Settled(copy', job.cancel)
    BY <2>1, <2>3, <2>5 DEF Settled
  <2> QED BY <1>g, <2>1, <2>2, <2>3, <2>4, <2>6, <2>9, <2>10 DEF Copying
<1>8. ASSUME NEW s \in copy.todo, MoveWithin(s) PROVE DriverInv'
  <2>1. /\ Running /\ task' = task
        /\ \E pc \in {"within", "ok", "error"} : copy' = [Skipped(copy, s) EXCEPT !.pc = pc]
    BY <1>8 DEF MoveWithin, asked
  <2>2. copy'.pc \in {"within", "ok", "error"} /\ copy'.moved = copy.moved
    BY <1>0, <2>1 DEF Skipped, Ctx
  <2> QED BY <1>n, <2>1, <2>2 DEF Copying
<1>9. ASSUME MoveWithinEnds PROVE DriverInv'
  <2>1. Running /\ task' = task /\ copy' = [copy EXCEPT !.pc = "ok"]
    BY <1>9 DEF MoveWithinEnds, asked
  <2>2. copy'.pc = "ok" /\ copy'.moved = copy.moved
    BY <1>0, <2>1 DEF Ctx
  <2> QED BY <1>n, <2>1, <2>2 DEF Copying
<1>10. ASSUME Return \/ Crash PROVE DriverInv'
  <2>1. copy' = Idle
    BY <1>10 DEF Return, Crash
  <2>2. copy'.pc = "idle" /\ copy'.moved = {}
    BY <2>1 DEF Idle
  <2> QED BY <1>n, <2>2 DEF Copying
\* A driver is started by one of the callers.
<1>s. ASSUME Running, task' = task, UNCHANGED <<live, disk, job>>, NEW p, NEW to, NEW heeds,
             copy' = Subtree(p, to, heeds)
      PROVE  DriverInv'
  <2>1. /\ copy'.moved = {} /\ copy'.pc \in {"copy", "within"} /\ copy'.kind = "gallery"
        /\ copy'.pc = "copy" => ~Within /\ Secured(copy', live[src], live[dst], disk[dst])
                                /\ Settled(copy', job.cancel)
    BY <1>s, SubtreeSecured, Zenon
  <2>2. src' = src /\ dst' = dst /\ Moves' = Moves /\ (Moves /\ ~Within => src # dst)
    BY <1>s DEF src, dst, Moves, Within
  <2> QED BY <1>s, <2>1, <2>2 DEF DriverInv, Copying
<1>i. ASSUME Running', UNCHANGED <<live, disk>>, NEW within \in BOOLEAN, within = Within', NEW steps, NEW heeds,
             copy' = Images(within, steps, heeds)
      PROVE  DriverInv'
  <2>1. /\ copy'.moved = {} /\ copy'.pc \in {"copy", "within"} /\ copy'.kind = "images"
        /\ copy'.pc = "copy" => ~within /\ Secured(copy', live[src'], live[dst'], disk[dst'])
                                /\ Settled(copy', job'.cancel)
    <3> DEFINE x == live[src']
               y == live[dst']
               z == disk[dst']
               w == job'.cancel
    <3> HIDE DEF x, y, z, w
    <3>1. /\ copy'.moved = {} /\ copy'.pc \in {"copy", "within"} /\ copy'.kind = "images"
          /\ copy'.pc = "copy" => ~within /\ Secured(copy', x, y, z) /\ Settled(copy', w)
      BY <1>i, ImagesSecured, Zenon
    <3> QED BY <3>1 DEF x, y, z, w
  <2>2. Moves' /\ ~within => src' # dst'
    BY <1>i DEF Within
  <2> QED BY <1>i, <2>1, <2>2 DEF DriverInv, Copying
<1>11. ASSUME NEW p \in rest, NextGallery(p) PROVE DriverInv'
  <2>1. Running /\ task' = task /\ copy.pc = "idle" /\ UNCHANGED <<live, disk>>
    BY <1>11 DEF NextGallery, asked, trees
  <2>2. \/ copy' = copy
        \/ job' = job /\ \E to, heeds : copy' = Subtree(p, to, heeds)
    BY <1>11 DEF NextGallery
  <2>3. copy' = copy => DriverInv'
    BY <1>n, <2>1 DEF Copying
  <2> QED BY <1>s, <2>1, <2>2, <2>3
<1>12. ASSUME CombineMedia PROVE DriverInv'
  <2>1. Running /\ task' = task /\ job' = job /\ copy.pc = "idle" /\ UNCHANGED <<live, disk>>
    BY <1>12 DEF CombineMedia, Combines, asked, trees
  <2>2. copy' = copy \/ \E steps, heeds : copy' = Images(Within, steps, heeds)
    BY <1>12 DEF CombineMedia
  <2>3. copy' = copy => DriverInv'
    BY <1>n, <2>1 DEF Copying
  <2>4. Within \in BOOLEAN /\ Within' = Within /\ Running'
    BY <2>1 DEF Within, Moves, src, dst, Running
  <2> DEFINE within == Within
  <2>5. within \in BOOLEAN /\ within = Within' /\ (copy' = copy \/ \E steps, heeds : copy' = Images(within, steps, heeds))
    BY <2>2, <2>4
  <2> HIDE DEF within
  <2> QED BY <1>i, <2>1, <2>3, <2>4, <2>5
<1>13. ASSUME stack # << >>, NEW p \in Top.subs, CombineChild(p) PROVE DriverInv'
  <2>1. Running /\ task' = task /\ job' = job /\ copy.pc = "idle" /\ UNCHANGED <<live, disk>>
    BY <1>13 DEF CombineChild, Combines, asked, trees
  <2>2. copy' = copy \/ \E to : copy' = Subtree(p, to, FALSE)
    BY <1>13 DEF CombineChild
  <2>3. copy' = copy => DriverInv'
    BY <1>n, <2>1 DEF Copying
  <2> QED BY <1>s, <2>1, <2>2, <2>3
<1>14. ASSUME NEW t \in Task, Launch(t) PROVE DriverInv'
  <2> DEFINE within == t.mode = "move" /\ t.src = t.dst
             steps == {StepOf("media", p, Front(p), t.to) : p \in t.paths}
  <2>1. task' = t /\ UNCHANGED <<live, disk>> /\ Running'
        /\ (copy' = Idle \/ copy' = Images(within, steps, TRUE))
    BY <1>14 DEF Launch, trees, Running
  <2>2. within \in BOOLEAN /\ within = Within'
    BY <2>1 DEF Within, Moves, src, dst
  <2>3. copy' = Idle => DriverInv'
    BY <1>n DEF Idle, Copying
  <2> HIDE DEF within, steps
  <2> QED BY <1>i, <2>1, <2>2, <2>3
<1>15. ASSUME CombineTags \/ CombineList \/ CombineEnds PROVE DriverInv'
  <2>1. copy.pc = "idle" /\ copy' = copy /\ Running /\ task' = task
    BY <1>15 DEF CombineTags, CombineList, CombineEnds, Combines, asked
  <2> QED BY <1>n, <2>1 DEF Copying
<1>16. ASSUME JobEnds PROVE DriverInv'
  <2>1. copy.pc = "idle" /\ copy' = copy /\ Running /\ task' = task
    BY <1>16 DEF JobEnds, asked
  <2> QED BY <1>n, <2>1 DEF Copying
<1>17. ASSUME Cancel PROVE DriverInv'
  <2>1. /\ Running /\ copy' = copy /\ task' = task /\ UNCHANGED <<live, disk>>
        /\ job' = [job EXCEPT !.cancel = TRUE]
    BY <1>17 DEF Cancel, asked, trees
  <2>2. job'.cancel = TRUE /\ (Running' => Running)
    BY <2>1 DEF Types, JobTyped, Running
  <2>3. src' = src /\ dst' = dst /\ Moves' = Moves
    BY <2>1 DEF src, dst, Moves
  <2>4. Settled(copy, job.cancel) => Settled(copy, TRUE)
    BY DEF Settled
  <2> QED BY <1>0, <2>1, <2>2, <2>3, <2>4 DEF DriverInv
<1>18. ASSUME UNCHANGED vars PROVE DriverInv'
  <2>1. UNCHANGED <<live, disk, job, task, copy>>
    BY <1>18 DEF vars, trees, asked
  <2> QED BY <1>0, <2>1 DEF DriverInv, Running, Moves, src, dst
<1> QED BY <1>1, <1>2, <1>3, <1>4, <1>5, <1>6, <1>7, <1>8, <1>9, <1>10, <1>11, <1>12, <1>13, <1>14, <1>15,
           <1>16, <1>17, <1>18 DEF Next

LEMMA FrameStep ==
    ASSUME Types, KeptInv, [Next]_vars
    PROVE  FrameInv'
<1>0. DriverInv /\ FrameInv /\ AreaInv /\ CopyTyped(copy) /\ copy \in Ctx /\ stack \in Seq(Frame)
  BY DEF KeptInv, Types, CopyTyped, CallersTyped
<1>f. live \in [Vault -> SUBSET Node(had)] /\ disk \in [Vault -> SUBSET Node(had)]
  BY DEF Types, Trees
<1>r. ASSUME Running PROVE src \in Vault /\ dst \in Vault
  BY <1>r, RunningTypes
<1>d. ASSUME Running, Moves, copy.pc \in Copying PROVE src # dst
  BY <1>0, <1>d DEF DriverInv
\* The frames are those there were, or have yet to merge their tags.
<1>g. ASSUME Running, task' = task,
             \A i \in 1 .. Len(stack') :
                \/ stack'[i].step = "merge"
                \/ \E j \in 1 .. Len(stack) : /\ stack[j].step # "merge"
                                              /\ stack[j].at = stack'[i].at /\ stack[j].to = stack'[i].to,
             Moves => \/ disk'[dst] = disk[dst]
                      \/ disk'[dst] = live'[dst],
             Moves => \A j \in 1 .. Len(stack) : stack[j].step # "merge" =>
                         /\ Held(live'[src], stack[j].at) \subseteq Held(live[src], stack[j].at)
                         /\ Held(live[dst], stack[j].to) \subseteq Held(live'[dst], stack[j].to)
      PROVE  FrameInv'
  <2>1. src' = src /\ dst' = dst /\ Moves' = Moves
    BY <1>g DEF src, dst, Moves
  <2>2. ASSUME Moves, NEW i \in 1 .. Len(stack')
        PROVE  Combined(stack'[i], live'[src], live'[dst], disk'[dst])
    <3>1. CASE stack'[i].step = "merge"
      BY <3>1 DEF Combined
    <3>2. CASE stack'[i].step # "merge"
      <4>1. PICK j \in 1 .. Len(stack) : /\ stack[j].step # "merge"
                                         /\ stack[j].at = stack'[i].at /\ stack[j].to = stack'[i].to
        BY <1>g, <3>2
      <4>2. Combined(stack[j], live[src], live[dst], disk[dst])
        BY <1>0, <1>g, <2>2 DEF FrameInv
      <4>3. Combined(stack[j], live'[src], live'[dst], disk'[dst])
        BY <1>g, <2>2, <4>1, <4>2, CombinedStays
      <4> QED BY <4>1, <4>3 DEF Combined
    <3> QED BY <3>1, <3>2
  <2> QED BY <2>1, <2>2 DEF FrameInv
\* The stack is unchanged or loses its top frame.
<1>h. ASSUME stack' = stack \/ (stack # << >> /\ stack' = Front(stack))
      PROVE  \A i \in 1 .. Len(stack') :
                \/ stack'[i].step = "merge"
                \/ \E j \in 1 .. Len(stack) : /\ stack[j].step # "merge"
                                              /\ stack[j].at = stack'[i].at /\ stack[j].to = stack'[i].to
  <2>1. CASE stack' = stack
    BY <2>1
  <2>2. CASE stack # << >> /\ stack' = Front(stack)
    <3>1. Len(stack) \in Nat \ {0} /\ Len(stack') = Len(stack) - 1 /\ \A i \in 1 .. Len(stack) - 1 : stack'[i] = stack[i]
      BY <1>0, <2>2, StackTypes
    <3> QED BY <3>1
  <2> QED BY <1>h, <2>1, <2>2
<1>e. ASSUME stack' = << >> PROVE FrameInv'
  BY <1>e DEF FrameInv
<1>1. ASSUME NEW s \in copy.todo, CopyGallery(s) \/ CopyGalleryFails(s) \/ CopyMedia(s) PROVE FrameInv'
  <2>1. Running /\ copy.pc = "copy" /\ task' = task /\ stack' = stack
    BY <1>1 DEF CopyGallery, CopyGalleryFails, CopyMedia, Copies, asked, callers
  <2>2. PICK t : live' = [live EXCEPT ![dst] = t] /\ disk' = disk /\ Grown(live[dst], t)
    BY <1>1, CopyEffect
  <2>3. ASSUME Moves
        PROVE  /\ disk'[dst] = disk[dst] /\ live'[src] = live[src]
               /\ \A q : Held(live[dst], q) \subseteq Held(live'[dst], q)
    <3>1. src # dst /\ src \in Vault /\ dst \in Vault
      BY <1>d, <1>r, <2>1, <2>3 DEF Copying
    <3> QED BY <1>f, <2>2, <3>1 DEF Grown
  <2> QED BY <1>g, <1>h, <2>1, <2>3
<1>2. ASSUME Flush \/ LowerWatermark PROVE FrameInv'
  <2>1. /\ Running /\ live' = live
        /\ disk' = disk \/ disk' = [disk EXCEPT ![dst] = live[dst]]
    BY <1>2, CommitEffect
  <2>2. task' = task /\ stack' = stack
    BY <1>2 DEF Flush, LowerWatermark, asked, callers
  <2>3. disk'[dst] = disk[dst] \/ disk'[dst] = live'[dst]
    BY <1>f, <1>r, <2>1
  <2> QED BY <1>g, <1>h, <2>1, <2>2, <2>3
\* The source shrinks, and is not the destination.
<1>s. ASSUME Running, task' = task, stack' = stack, Moves => src # dst, NEW t, t \subseteq live[src],
             live' = live \/ live' = [live EXCEPT ![src] = t],
             disk' = disk \/ disk' = [disk EXCEPT ![src] = t]
      PROVE  FrameInv'
  <2>1. ASSUME Moves
        PROVE  /\ disk'[dst] = disk[dst] /\ live'[dst] = live[dst]
               /\ live'[src] = live[src] \/ live'[src] = t
    BY <1>f, <1>r, <1>s, <2>1
  <2>2. \A q : Held(t, q) \subseteq Held(live[src], q)
    BY <1>s, HeldShrinks
  <2> QED BY <1>g, <1>h, <1>s, <2>1, <2>2
<1>3. ASSUME RemoveMoved PROVE FrameInv'
  <2> DEFINE t == WithoutMedia(live[src], copy.moved)
  <2>1. /\ Running
        /\ live' = live \/ live' = [live EXCEPT ![src] = t]
        /\ disk' = disk \/ disk' = [disk EXCEPT ![src] = t]
    BY <1>3, RemoveMovedEffect, Zenon
  <2>2. t \subseteq live[src]
    BY DEF WithoutMedia
  <2>3. task' = task /\ stack' = stack /\ copy.pc = "remove"
    BY <1>3 DEF RemoveMoved, asked, callers
  <2> HIDE DEF t
  <2>4. Moves => src # dst
    BY <1>d, <2>1, <2>3 DEF Copying
  <2> QED BY <1>s, <2>1, <2>2, <2>3, <2>4
<1>4. ASSUME Prune PROVE FrameInv'
  <2>1. task' = task /\ stack' = stack /\ copy.pc = "prune"
    BY <1>4 DEF Prune, asked, callers
  <2>2. Running /\ (Moves => src # dst)
    <3>1. Running
      BY <1>4 DEF Prune
    <3> QED BY <1>d, <2>1, <3>1 DEF Copying
  <2>3. CASE UNCHANGED <<live, disk>>
    BY <1>s, <2>1, <2>2, <2>3
  <2>4. ASSUME NEW p \in copy.prune, NEW t, t = live[src] \ Under(live[src], p),
               live' = [live EXCEPT ![src] = t], disk' = disk \/ disk' = [disk EXCEPT ![src] = t]
        PROVE  FrameInv'
    <3>1. t \subseteq live[src]
      BY <2>4
    <3> QED BY <1>s, <2>1, <2>2, <2>4, <3>1
  <2> QED BY <1>4, <2>3, <2>4, PruneEffect
<1>5. ASSUME NEW s \in copy.todo, MoveWithin(s) PROVE FrameInv'
  <2> DEFINE t == MovedWithin(live[src], s)
  <2>1. /\ Running /\ copy.pc = "within"
        /\ \/ UNCHANGED <<live, disk>>
           \/ /\ MayMoveWithin(live[src], s) /\ live' = [live EXCEPT ![src] = t]
              /\ disk' = disk \/ disk' = [disk EXCEPT ![src] = t]
    BY <1>5, MoveWithinEffect, Zenon
  <2>2. task' = task /\ stack' = stack
    BY <1>5 DEF MoveWithin, asked, callers
  <2>3. CASE UNCHANGED <<live, disk>>
    BY <1>g, <1>h, <2>1, <2>2, <2>3
  <2>4. CASE stack = << >>
    BY <1>e, <2>2, <2>4
  <2>5. CASE /\ MayMoveWithin(live[src], s) /\ live' = [live EXCEPT ![src] = t]
             /\ disk' = disk \/ disk' = [disk EXCEPT ![src] = t]
             /\ stack # << >>
    <3>1. Within /\ src = dst /\ src \in Vault
      BY <1>0, <1>r, <2>1 DEF AreaInv, Within
    <3>2. s.from \in Path /\ s.to \in Path
      BY <1>0 DEF Ctx, Step
    <3>3. stack[1].step # "merge"
      BY <1>0, <2>1, <2>5, <3>1, FirstMerged
    <3> DEFINE n == Len(stack)
    <3>4. n \in 1 .. n /\ Top = stack[n] /\ Top.at \in Path /\ Top.to \in Path
          /\ \A j \in 1 .. n : j <= n /\ stack[j] \in Frame
      <4>1. n \in Nat \ {0} /\ Top = stack[n] /\ Top \in Frame
        BY <1>0, <2>5, StackTypes
      <4>2. stack \in Seq(Frame)
        BY <1>0 DEF Types, CallersTyped
      <4>3. \A j \in 1 .. n : j <= n /\ stack[j] \in Frame
        BY <4>1, <4>2
      <4>4. Top.at \in Path /\ Top.to \in Path
        BY <4>1 DEF Frame
      <4> QED BY <4>1, <4>3, <4>4
    <3>5. Area(stack, copy)
      BY <1>0, <2>1, <2>5, <3>1 DEF AreaInv
    <3>6. IsStrictPrefix(Top.at, s.from) /\ IsPrefix(Top.to, s.to)
      BY <2>1, <3>4, <3>5 DEF Area
    <3>7. IsPrefix(Top.at, s.from) /\ Top.at # s.from
      BY <3>6 DEF IsStrictPrefix
    <3>8. Tree(had, live[src])
      BY <2>1, RunningTypes
    <3> HIDE DEF t
    <3>9. ASSUME NEW j \in 1 .. n
          PROVE  /\ Held(t, stack[j].at) \subseteq Held(live[src], stack[j].at)
                 /\ Held(live[src], stack[j].to) \subseteq Held(t, stack[j].to)
      <4>1. stack[j].at \in Path /\ stack[j].to \in Path /\ IsPrefix(stack[j].at, Top.at)
        BY <3>4, <3>5 DEF Area, Frame
      <4>2. ~IsPrefix(s.from, stack[j].at)
        <5> SUFFICES ASSUME IsPrefix(s.from, stack[j].at) PROVE FALSE
          OBVIOUS
        <5>1. IsPrefix(s.from, Top.at)
          BY <3>2, <3>4, <4>1, PrefixTransitive
        <5> QED BY <3>2, <3>4, <3>7, <5>1, PrefixAntisymmetric
      <4>3. ~IsPrefix(s.to, stack[j].at)
        <5> SUFFICES ASSUME IsPrefix(s.to, stack[j].at) PROVE FALSE
          OBVIOUS
        <5>1. IsPrefix(Top.to, stack[j].at)
          BY <3>2, <3>4, <3>6, <4>1, PrefixTransitive
        <5>2. ~IsPrefix(stack[n].to, stack[j].at)
          <6>1. IsPrefix(stack[j].at, stack[j].at)
            BY <4>1, PrefixReflexive
          <6> QED BY <1>0, <2>1, <2>5, <3>1, <3>3, <3>4, <4>1, <6>1, FramesApart
        <5> QED BY <3>4, <5>1, <5>2
      <4>4. ~IsPrefix(s.from, stack[j].to)
        BY <1>0, <2>1, <2>5, <3>1, <3>2, <3>3, <3>4, <3>7, FramesApart
      <4>5. \A q \in Path : ~IsPrefix(s.from, q) =>
               /\ Held(live[src], q) \subseteq Held(t, q)
               /\ ~IsPrefix(s.to, q) => Held(t, q) \subseteq Held(live[src], q)
        BY <2>5, <3>2, <3>8, MovedWithinIsTree DEF t
      <4> QED BY <4>1, <4>2, <4>3, <4>4, <4>5
    <3>10. live'[src] = t /\ (disk'[dst] = disk[dst] \/ disk'[dst] = t)
      BY <1>f, <2>5, <3>1
    <3> QED BY <1>g, <1>h, <2>1, <2>2, <3>1, <3>9, <3>10
  <2> QED BY <2>1, <2>3, <2>4, <2>5
<1>6. ASSUME CombineTags PROVE FrameInv'
  <2> DEFINE t == Merged(live[dst], Top.to, Held(live[src], Top.at))
             top == [Top EXCEPT !.step = "media"]
  <2>1. /\ Running /\ stack # << >>
        /\ \/ stack' = << >>
           \/ /\ ~(src = dst /\ IsPrefix(Top.at, Top.to))
              /\ Grown(live[dst], t) /\ Held(live[src], Top.at) \subseteq Held(t, Top.to)
              /\ \A q : q # Top.to => Held(t, q) = Held(live[dst], q)
              /\ live' = [live EXCEPT ![dst] = t] /\ disk' = [disk EXCEPT ![dst] = t]
              /\ stack' = WithTop(top)
    BY <1>6, CombineTagsEffect, Zenon
  <2>2. task' = task
    BY <1>6 DEF CombineTags, asked
  <2>3. CASE stack' = << >>
    BY <1>e, <2>3
  <2>4. CASE /\ ~(src = dst /\ IsPrefix(Top.at, Top.to))
             /\ Grown(live[dst], t) /\ Held(live[src], Top.at) \subseteq Held(t, Top.to)
             /\ \A q : q # Top.to => Held(t, q) = Held(live[dst], q)
             /\ live' = [live EXCEPT ![dst] = t] /\ disk' = [disk EXCEPT ![dst] = t]
             /\ stack' = WithTop(top)
    <3> HIDE DEF t
    <3> DEFINE n == Len(stack)
    <3>1. src \in Vault /\ dst \in Vault
      BY <1>r, <2>1
    <3>2. /\ n \in Nat \ {0} /\ Top = stack[n] /\ Top \in Frame
      BY <1>0, <2>1, StackTypes
    <3>3. top \in Frame /\ top.at = Top.at /\ top.to = Top.to /\ top.step = "media"
      BY <3>2 DEF Frame
    <3> HIDE DEF top
    <3>4. Len(stack') = n /\ stack'[n] = top /\ \A i \in 1 .. n - 1 : stack'[i] = stack[i]
      BY <1>0, <2>1, <2>4, <3>3, StackTypes
    <3> HIDE DEF n
    <3>5. live'[dst] = t /\ disk'[dst] = t /\ (src # dst => live'[src] = live[src])
      BY <1>f, <2>4, <3>1
    <3>6. ASSUME NEW q, src = dst => q # Top.to
          PROVE  Held(live'[src], q) \subseteq Held(live[src], q)
      BY <2>4, <3>5, <3>6
    <3>7. Top.at # Top.to \/ src # dst
      <4>1. IsPrefix(Top.at, Top.at)
        BY <3>2, PrefixReflexive DEF Frame
      <4> QED BY <2>4, <4>1
    <3>8. Combined(top, live'[src], live'[dst], disk'[dst])
      BY <2>4, <3>3, <3>5, <3>6, <3>7 DEF Combined
    <3>9. ASSUME Moves, NEW j \in 1 .. n - 1
          PROVE  Combined(stack[j], live'[src], live'[dst], disk'[dst])
      <4>1. CASE stack[j].step = "merge"
        BY <4>1 DEF Combined
      <4>2. CASE stack[j].step # "merge"
        <5>1. j \in 1 .. Len(stack) /\ n \in 1 .. Len(stack)
          BY <3>2 DEF n
        <5>2. Combined(stack[j], live[src], live[dst], disk[dst])
          BY <1>0, <2>1, <3>9, <5>1 DEF FrameInv
        <5>3. src = dst => stack[j].at # Top.to
          <6> SUFFICES ASSUME src = dst PROVE stack[j].at # Top.to
            OBVIOUS
          <6>1. Within
            BY <3>9 DEF Within
          <6>2. stack[1].step # "merge"
            BY <1>0, <2>1, <4>2, <5>1, <6>1, FirstMerged
          <6>3. stack[j].at \in Path /\ IsPrefix(stack[j].at, stack[j].at)
            <7>1. stack[j] \in Frame
              BY <1>0, <5>1
            <7> QED BY <7>1, PrefixReflexive DEF Frame
          <6>4. ~IsPrefix(stack[j].at, stack[n].to)
            BY <1>0, <2>1, <5>1, <6>1, <6>2, <6>3, FramesApart
          <6> QED BY <3>2, <6>3, <6>4
        <5>4. Held(live'[src], stack[j].at) \subseteq Held(live[src], stack[j].at)
          BY <3>6, <5>3
        <5>5. Held(live[dst], stack[j].to) \subseteq Held(live'[dst], stack[j].to)
          BY <2>4, <3>5 DEF Grown
        <5> QED BY <3>5, <5>2, <5>4, <5>5, CombinedStays
      <4> QED BY <4>1, <4>2
    <3>10. src' = src /\ dst' = dst /\ Moves' = Moves
      BY <2>2 DEF src, dst, Moves
    <3>11. ASSUME Moves, NEW i \in 1 .. Len(stack')
           PROVE  Combined(stack'[i], live'[src], live'[dst], disk'[dst])
      <4>1. i = n \/ i \in 1 .. n - 1
        BY <3>2, <3>4
      <4> QED BY <3>4, <3>8, <3>9, <3>11, <4>1
    <3> QED BY <3>10, <3>11 DEF FrameInv
  <2> QED BY <2>1, <2>3, <2>4
<1>7. ASSUME CombineEnds PROVE FrameInv'
  <2> DEFINE t == live[src] \ Under(live[src], Top.at)
  <2>1. /\ Running /\ stack # << >> /\ Top.step = "subs"
        /\ \/ UNCHANGED <<live, disk>>
           \/ /\ Moves /\ live' = [live EXCEPT ![src] = t]
              /\ disk' = disk \/ disk' = [disk EXCEPT ![src] = t]
              /\ \A n \in live[src] : n \notin t <=> n.at = Top.at
    BY <1>7, CombineEndsEffect, Zenon
  <2>2. task' = task /\ (stack' = << >> \/ stack' = Front(stack))
    BY <1>7 DEF CombineEnds, GiveUp, asked
  <2>3. CASE stack' = << >>
    BY <1>e, <2>3
  <2>4. CASE stack' = Front(stack) /\ UNCHANGED <<live, disk>>
    BY <1>g, <1>h, <2>1, <2>2, <2>4
  <2>5. CASE /\ stack' = Front(stack)
             /\ Moves /\ live' = [live EXCEPT ![src] = t]
             /\ disk' = disk \/ disk' = [disk EXCEPT ![src] = t]
             /\ \A n \in live[src] : n \notin t <=> n.at = Top.at
    <3>1. src \in Vault /\ dst \in Vault
      BY <1>r, <2>1
    <3>2. t \subseteq live[src]
      OBVIOUS
    <3> HIDE DEF t
    <3>3. \A q : Held(t, q) \subseteq Held(live[src], q)
      BY <3>2, HeldShrinks
    <3>4. live'[src] = t /\ (src # dst => live'[dst] = live[dst] /\ disk'[dst] = disk[dst])
          /\ (src = dst => disk'[dst] = disk[dst] \/ disk'[dst] = live'[dst])
      BY <1>f, <2>5, <3>1
    <3>5. ASSUME NEW j \in 1 .. Len(stack)
          PROVE  Held(live[dst], stack[j].to) \subseteq Held(live'[dst], stack[j].to)
      <4>1. CASE src # dst
        BY <3>4, <4>1
      <4>2. CASE src = dst
        <5>1. Within
          BY <2>5, <4>2 DEF Within
        <5> DEFINE n == Len(stack)
        <5>2. n \in 1 .. Len(stack) /\ Top = stack[n] /\ Top \in Frame
          BY <1>0, <2>1, StackTypes
        <5> HIDE DEF n
        <5>3. stack[1].step # "merge"
          BY <1>0, <2>1, <5>1, <5>2, FirstMerged
        <5>4. Top.at \in Path /\ IsPrefix(Top.at, Top.at)
          BY <5>2, PrefixReflexive DEF Frame
        <5>5. ~IsPrefix(Top.at, stack[j].to)
          BY <1>0, <2>1, <5>1, <5>2, <5>3, <5>4, FramesApart
        <5>6. stack[j].to # Top.at
          BY <5>4, <5>5
        <5>7. ASSUME NEW c \in Held(live[src], stack[j].to) PROVE c \in Held(t, stack[j].to)
          <6>1. PICK m \in live[src] : m.at = stack[j].to /\ c \in m.holds
            BY <5>7, HeldDef
          <6>2. m \in t
            BY <2>5, <5>6, <6>1
          <6> QED BY <6>1, <6>2, HeldDef
        <5> QED BY <3>4, <4>2, <5>7
      <4> QED BY <4>1, <4>2
    <3> QED BY <1>g, <1>h, <2>1, <2>2, <2>5, <3>3, <3>4, <3>5
  <2> HIDE DEF t
  <2> QED BY <2>1, <2>2, <2>3, <2>4, <2>5, Zenon
<1>8. ASSUME Crash \/ JobEnds PROVE FrameInv'
  <2>1. ASSUME Crash PROVE stack' = << >>
    BY <2>1 DEF Crash
  <2>2. ASSUME JobEnds PROVE stack' = << >>
    BY <2>2 DEF JobEnds
  <2> QED BY <1>8, <1>e, <2>1, <2>2
\* A frame is pushed, or the top one goes on; the trees are left alone.
<1>t. ASSUME stack # << >>, NEW f \in Frame, f.at = Top.at, f.to = Top.to, Top.step # "merge",
             NEW q, q = WithTop(f)
      PROVE  /\ q \in Seq(Frame)
             /\ \A i \in 1 .. Len(q) :
                  \/ q[i].step = "merge"
                  \/ \E j \in 1 .. Len(stack) : /\ stack[j].step # "merge"
                                                /\ stack[j].at = q[i].at /\ stack[j].to = q[i].to
  <2> DEFINE n == Len(stack)
  <2>1. /\ n \in Nat \ {0} /\ Top = stack[n] /\ q \in Seq(Frame) /\ Len(q) = n
        /\ q[n] = f /\ \A i \in 1 .. n - 1 : q[i] = stack[i]
    BY <1>0, <1>t, StackTypes
  <2> HIDE DEF n
  <2>2. ASSUME NEW i \in 1 .. Len(q)
        PROVE  \/ q[i].step = "merge"
               \/ \E j \in 1 .. n : /\ stack[j].step # "merge"
                                    /\ stack[j].at = q[i].at /\ stack[j].to = q[i].to
    <3>1. i \in 1 .. n /\ (i = n \/ i \in 1 .. n - 1)
      BY <2>1
    <3> QED BY <1>t, <2>1, <3>1
  <2> QED BY <2>1, <2>2 DEF n
<1>9. ASSUME CombineMedia \/ CombineList PROVE FrameInv'
  <2>1. Running /\ task' = task /\ live' = live /\ disk' = disk /\ stack # << >> /\ Top.step # "merge"
    BY <1>9 DEF CombineMedia, CombineList, Combines, asked, trees
  <2>2. \E f \in Frame : f.at = Top.at /\ f.to = Top.to /\ stack' = WithTop(f)
    <3>1. Top \in Frame
      BY <1>0, <2>1, StackTypes
    <3>2. CASE CombineMedia
      <4>1. [Top EXCEPT !.step = "list"] \in Frame /\ stack' = WithTop([Top EXCEPT !.step = "list"])
        BY <3>1, <3>2 DEF CombineMedia, Frame
      <4> QED BY <3>1, <4>1 DEF Frame
    <3>3. CASE CombineList
      <4> DEFINE below == Paths(Galleries(Children(live[src], Top.at)))
                 f == [Top EXCEPT !.step = "subs", !.subs = below]
      <4>1. stack' = WithTop(f)
        BY <3>3 DEF CombineList
      <4>2. below \subseteq Path \ {<< >>}
        <5> SUFFICES ASSUME NEW n \in Children(live[src], Top.at) PROVE n.at \in Path \ {<< >>}
          BY DEF Paths, Galleries
        <5>1. n \in live[src] /\ Len(n.at) = Len(Top.at) + 1 /\ Len(Top.at) \in Nat
          BY <3>1 DEF Children, Under, Frame, Path
        <5>2. n.at \in Path
          BY <2>1, <5>1, RunningTypes, TreeThen
        <5> QED BY <5>1, <5>2, EmptySeq DEF Path
      <4> HIDE DEF below
      <4>3. f \in Frame /\ f.at = Top.at /\ f.to = Top.to
        BY <3>1, <4>2 DEF Frame
      <4> HIDE DEF f
      <4> QED BY <4>1, <4>3
    <3> QED BY <1>9, <3>2, <3>3
  <2>3. PICK f \in Frame : f.at = Top.at /\ f.to = Top.to /\ stack' = WithTop(f)
    BY <2>2
  <2>4. \A i \in 1 .. Len(stack') :
           \/ stack'[i].step = "merge"
           \/ \E j \in 1 .. Len(stack) : /\ stack[j].step # "merge"
                                         /\ stack[j].at = stack'[i].at /\ stack[j].to = stack'[i].to
    BY <1>t, <2>1, <2>3
  <2> QED BY <1>g, <2>1, <2>4
<1>10. ASSUME stack # << >>, NEW p \in Top.subs, CombineChild(p) PROVE FrameInv'
  <2> DEFINE f == [Top EXCEPT !.subs = @ \ {p}]
             left == WithTop(f)
             child == CombineFrame(p, Rebased(p, Top.at, Top.to), Top.heeds)
  <2>1. Running /\ task' = task /\ live' = live /\ disk' = disk /\ Top.step # "merge"
        /\ (stack' = left \/ stack' = Append(left, child))
    BY <1>10 DEF CombineChild, Combines, asked, trees
  <2>2. Top \in Frame
    BY <1>0, <1>10, StackTypes
  <2>3. f \in Frame /\ f.at = Top.at /\ f.to = Top.to
    BY <2>2 DEF Frame
  <2>4. child.step = "merge" /\ child \in Frame
    <3>1. p \in Path /\ p # << >> /\ Top.at \in Path /\ Top.to \in Path /\ Top.heeds \in BOOLEAN
      BY <1>10, <2>2 DEF Frame
    <3>2. Rebased(p, Top.at, Top.to) \in Path
      BY <3>1 DEF Rebased, Path
    <3> QED BY <3>1, <3>2 DEF CombineFrame, Frame
  <2> HIDE DEF f, left, child
  <2>5. /\ left \in Seq(Frame)
        /\ \A i \in 1 .. Len(left) :
             \/ left[i].step = "merge"
             \/ \E j \in 1 .. Len(stack) : /\ stack[j].step # "merge"
                                           /\ stack[j].at = left[i].at /\ stack[j].to = left[i].to
    BY <1>t, <1>10, <2>1, <2>3 DEF left
  <2>6. \A i \in 1 .. Len(stack') :
           \/ stack'[i].step = "merge"
           \/ \E j \in 1 .. Len(stack) : /\ stack[j].step # "merge"
                                         /\ stack[j].at = stack'[i].at /\ stack[j].to = stack'[i].to
    <3>1. CASE stack' = left
      BY <2>5, <3>1
    <3>2. CASE stack' = Append(left, child)
      <4>1. /\ Len(stack') = Len(left) + 1 /\ Len(left) \in Nat /\ stack'[Len(left) + 1] = child
            /\ \A i \in 1 .. Len(left) : stack'[i] = left[i]
        BY <2>4, <2>5, <3>2, SeqAppend
      <4> TAKE i \in 1 .. Len(stack')
      <4>2. i = Len(left) + 1 \/ i \in 1 .. Len(left)
        BY <4>1
      <4> QED BY <2>4, <2>5, <4>1, <4>2
    <3> QED BY <2>1, <3>1, <3>2
  <2> QED BY <1>g, <2>1, <2>6
<1>11. ASSUME NEW p \in rest, NextGallery(p) PROVE FrameInv'
  <2>1. Running /\ stack = << >> /\ (stack' = stack \/ \E to, heeds : stack' = << CombineFrame(p, to, heeds) >>)
    BY <1>11 DEF NextGallery
  <2>2. CASE stack' = stack
    BY <1>e, <2>1, <2>2
  <2>3. CASE \E to, heeds : stack' = << CombineFrame(p, to, heeds) >>
    <3>1. Len(stack') = 1 /\ stack'[1].step = "merge"
      BY <2>3 DEF CombineFrame
    <3> QED BY <3>1 DEF FrameInv, Combined
  <2> QED BY <2>1, <2>2, <2>3
<1>12. ASSUME NEW t \in Task, Launch(t) PROVE FrameInv'
  <2>1. stack' = << >> \/ \E p \in t.paths : stack' = << CombineFrame(p, t.to, TRUE) >>
    BY <1>12 DEF Launch
  <2>2. CASE \E p \in t.paths : stack' = << CombineFrame(p, t.to, TRUE) >>
    <3>1. Len(stack') = 1 /\ stack'[1].step = "merge"
      BY <2>2 DEF CombineFrame
    <3> QED BY <3>1 DEF FrameInv, Combined
  <2> QED BY <1>e, <2>1, <2>2
<1>13. ASSUME \/ \E s \in copy.todo : SkipMedia(s) \/ CopyMediaFails(s)
              \/ CopyEnds \/ MoveWithinEnds \/ Return \/ Cancel \/ UNCHANGED vars
       PROVE  FrameInv'
  <2>1. live' = live /\ disk' = disk /\ stack' = stack /\ task' = task /\ (Running' => Running)
    BY <1>13 DEF SkipMedia, CopyMediaFails, Copies, CopyEnds, MoveWithinEnds, Return, Cancel, vars,
                 trees, asked, callers, Running
  <2> QED BY <1>0, <2>1 DEF FrameInv, Moves, src, dst
<1> QED BY <1>1, <1>2, <1>3, <1>4, <1>5, <1>6, <1>7, <1>8, <1>9, <1>10, <1>11, <1>12, <1>13, ActionCases DEF Quiet

LEMMA AreaKept ==
    ASSUME NEW stk, NEW c, NEW d, Area(stk, c), d.pc # "idle" => c.pc # "idle",
           d.pc = "within" => c.pc = "within" /\ d.todo \subseteq c.todo
    PROVE  Area(stk, d)
BY DEF Area

\* The frame on top goes on, below what it was given.
LEMMA AreaTop ==
    ASSUME NEW n \in Nat \ {0}, NEW stk, NEW q, Len(stk) = n, Len(q) = n,
           \A i \in 1 .. n - 1 : q[i] = stk[i],
           q[n].at = stk[n].at, q[n].to = stk[n].to, q[n].step # "merge",
           \A p \in q[n].subs : IsStrictPrefix(stk[n].at, p),
           stk[n].step = "merge" => ~IsPrefix(stk[n].at, stk[n].to),
           NEW c, NEW d, Area(stk, c),
           d.pc = "within" => \A s \in d.todo : /\ IsStrictPrefix(stk[n].at, s.from)
                                                /\ IsPrefix(stk[n].to, s.to)
    PROVE  Area(q, d)
<1>1. \A i \in 1 .. n : q[i].at = stk[i].at /\ q[i].to = stk[i].to /\ (i = n \/ q[i] = stk[i])
  <2> TAKE i \in 1 .. n
  <2>1. i = n \/ i \in 1 .. n - 1
    OBVIOUS
  <2> QED BY <2>1
<1>2. /\ \A i, j \in 1 .. n :
           i <= j => IsPrefix(stk[i].at, stk[j].at) /\ IsPrefix(stk[i].to, stk[j].to)
      /\ \A i \in 1 .. n : \A p \in stk[i].subs : IsStrictPrefix(stk[i].at, p)
      /\ ~IsStrictPrefix(stk[1].to, stk[1].at)
      /\ stk[1].step # "merge" => ~IsPrefix(stk[1].at, stk[1].to)
      /\ n > 1 => stk[1].step # "merge"
  BY DEF Area
<1>3. 1 \in 1 .. n /\ n \in 1 .. n /\ (n = 1 \/ n > 1)
  OBVIOUS
<1>4. q[1].step # "merge" /\ q[1].at = stk[1].at /\ q[1].to = stk[1].to
  BY <1>1, <1>2, <1>3
<1>5. ~IsPrefix(stk[1].at, stk[1].to)
  BY <1>2, <1>3
<1>6. \A i \in 1 .. n : \A p \in q[i].subs : IsStrictPrefix(q[i].at, p)
  BY <1>1, <1>2
<1>7. \A i, j \in 1 .. n :
         i <= j => IsPrefix(q[i].at, q[j].at) /\ IsPrefix(q[i].to, q[j].to)
  BY <1>1, <1>2
<1> QED BY <1>1, <1>2, <1>3, <1>4, <1>5, <1>6, <1>7 DEF Area

\* A frame is pushed for what lies below the one on top.
LEMMA AreaPushed ==
    ASSUME NEW stk \in Seq(Frame), stk # << >>, NEW g \in Frame, NEW c, NEW d, Area(stk, c),
           stk[1].step # "merge", g.subs = {}, d.pc = "idle",
           IsPrefix(stk[Len(stk)].at, g.at), IsPrefix(stk[Len(stk)].to, g.to)
    PROVE  Area(Append(stk, g), d)
<1> DEFINE n == Len(stk)
           q == Append(stk, g)
<1>1. /\ n \in Nat \ {0} /\ Len(q) = n + 1 /\ q[n + 1] = g /\ \A i \in 1 .. n : q[i] = stk[i]
  BY SeqAppend, EmptySeq
<1>2. \A i \in 1 .. n : /\ stk[i].at \in Path /\ stk[i].to \in Path
  <2>1. \A i \in 1 .. Len(stk) : stk[i] \in Frame
    OBVIOUS
  <2> HIDE DEF q
  <2> QED BY <2>1 DEF Frame
<1>3. g.at \in Path /\ g.to \in Path
  BY DEF Frame
<1>4. /\ \A i, j \in 1 .. n :
           i <= j => IsPrefix(stk[i].at, stk[j].at) /\ IsPrefix(stk[i].to, stk[j].to)
      /\ \A i \in 1 .. n : \A p \in stk[i].subs : IsStrictPrefix(stk[i].at, p)
      /\ ~IsStrictPrefix(stk[1].to, stk[1].at)
      /\ ~IsPrefix(stk[1].at, stk[1].to)
      /\ IsPrefix(stk[n].at, g.at) /\ IsPrefix(stk[n].to, g.to)
  BY DEF Area
<1> HIDE DEF n, q
<1>5. 1 \in 1 .. n /\ n \in 1 .. n /\ \A i \in 1 .. n + 1 : i = n + 1 \/ (i \in 1 .. n /\ i <= n)
  BY <1>1
<1>6. \A i \in 1 .. n : IsPrefix(stk[i].at, g.at) /\ IsPrefix(stk[i].to, g.to)
  <2> TAKE i \in 1 .. n
  <2>1. IsPrefix(stk[i].at, stk[n].at) /\ IsPrefix(stk[i].to, stk[n].to)
    BY <1>4, <1>5
  <2> QED BY <1>2, <1>3, <1>4, <1>5, <2>1, PrefixTransitive
<1>7. IsPrefix(g.at, g.at) /\ IsPrefix(g.to, g.to)
  BY <1>3, PrefixReflexive
<1>8. ASSUME NEW i \in 1 .. n + 1, NEW j \in 1 .. n + 1, i <= j
      PROVE  IsPrefix(q[i].at, q[j].at) /\ IsPrefix(q[i].to, q[j].to)
  <2>1. CASE j = n + 1 /\ i = n + 1
    BY <1>1, <1>7, <2>1
  <2>2. CASE j = n + 1 /\ i # n + 1
    BY <1>1, <1>5, <1>6, <2>2
  <2>3. CASE j # n + 1
    <3>1. i \in 1 .. n /\ j \in 1 .. n
      BY <1>1, <1>8, <2>3
    <3> QED BY <1>1, <1>4, <1>8, <3>1
  <2> QED BY <2>1, <2>2, <2>3
<1>9. \A i \in 1 .. n + 1 : \A p \in q[i].subs : IsStrictPrefix(q[i].at, p)
  <2> SUFFICES ASSUME NEW i \in 1 .. n + 1, NEW p \in q[i].subs
               PROVE  IsStrictPrefix(q[i].at, p)
    OBVIOUS
  <2> QED BY <1>1, <1>4, <1>5
<1>10. q[1] = stk[1]
  BY <1>1, <1>5
<1>11. Area(q, d)
  BY <1>1, <1>4, <1>8, <1>9, <1>10 DEF Area
<1> QED BY <1>11 DEF q

\* The frame on top returns to the one below.
LEMMA AreaPopped ==
    ASSUME NEW n \in Nat \ {0}, NEW stk, NEW q, Len(stk) = n + 1, Len(q) = n,
           \A i \in 1 .. n : q[i] = stk[i], NEW c, NEW d, Area(stk, c), d.pc = "idle"
    PROVE  Area(q, d)
<1>1. 1 \in 1 .. n /\ \A i \in 1 .. n : i \in 1 .. n + 1
  OBVIOUS
<1>2. /\ \A i, j \in 1 .. n + 1 :
           i <= j => IsPrefix(stk[i].at, stk[j].at) /\ IsPrefix(stk[i].to, stk[j].to)
      /\ \A i \in 1 .. n + 1 : \A p \in stk[i].subs : IsStrictPrefix(stk[i].at, p)
      /\ ~IsStrictPrefix(stk[1].to, stk[1].at)
      /\ stk[1].step # "merge" => ~IsPrefix(stk[1].at, stk[1].to)
      /\ stk[1].step # "merge"
  BY DEF Area
<1> QED BY <1>1, <1>2 DEF Area

\* The first frame.
LEMMA AreaFirst ==
    ASSUME NEW p \in Path \ {<< >>}, NEW to \in Path, NEW heeds \in BOOLEAN, NEW d,
           ~IsStrictPrefix(to, p), d.pc = "idle"
    PROVE  Area(<< CombineFrame(p, to, heeds) >>, d)
<1> DEFINE g == CombineFrame(p, to, heeds)
<1>1. g.step = "merge" /\ g.at = p /\ g.to = to /\ g.subs = {}
  BY DEF CombineFrame
<1>2. IsPrefix(p, p) /\ IsPrefix(to, to)
  BY PrefixReflexive
<1> HIDE DEF g
<1> DEFINE q == << g >>
<1>3. Len(q) = 1 /\ q[1] = g
  OBVIOUS
<1> HIDE DEF q
<1>4. \A i \in 1 .. Len(q) : i = 1 /\ q[i] = g
  BY <1>3
<1>5. Area(q, d)
  BY <1>1, <1>2, <1>3, <1>4 DEF Area
<1> QED BY <1>5 DEF q, g

LEMMA AreaStep ==
    ASSUME NeverUpward, Types, AreaInv, [Next]_vars
    PROVE  AreaInv'
<1>0. /\ CopyTyped(copy) /\ copy \in Ctx /\ stack \in Seq(Frame)
      /\ Running /\ Within /\ stack # << >> => Area(stack, copy)
      /\ Running /\ copy.pc = "within" => Within
      /\ Running /\ rest # {} => task.kind = "galleries"
  BY DEF Types, CopyTyped, CallersTyped, AreaInv
<1>r. ASSUME Running
      PROVE  /\ task \in Task /\ task.to \in Path /\ src \in Vault /\ dst \in Vault
             /\ rest \subseteq Path \ {<< >>} /\ Tree(had, live[src])
  BY <1>r, RunningTypes DEF Types, JobTyped
<1>w. ASSUME task' = task PROVE Within' = Within /\ Moves' = Moves
  BY <1>w DEF Within, Moves, src, dst
\* What holds of the stack after the step, and what is left to show.
<1>a. ASSUME Running => task' = task /\ rest' \subseteq rest,
             Running' => Running,
             Running /\ copy'.pc = "within" => Within,
             Running /\ Within /\ stack' # << >> => Area(stack', copy')
      PROVE  AreaInv'
  <2> SUFFICES ASSUME Running' PROVE AreaInv'
    BY DEF AreaInv
  <2>1. Running /\ task' = task /\ Within' = Within /\ rest' \subseteq rest
    BY <1>a, <1>w
  <2>2. (Area(stack, copy))' <=> Area(stack', copy')
    BY DEF Area
  <2> QED BY <1>0, <1>a, <2>1, <2>2, Zenon DEF AreaInv
\* The stack stays, and the driver at work does not begin.
<1>s. ASSUME stack' = stack, task' = task, rest' \subseteq rest, Running' => Running,
             copy'.pc # "idle" => copy.pc # "idle",
             copy'.pc = "within" => copy.pc = "within" /\ copy'.todo \subseteq copy.todo
      PROVE  AreaInv'
  <2>1. ASSUME Running, Within, stack' # << >> PROVE Area(stack', copy')
    <3>1. Area(stack, copy)
      BY <1>0, <1>s, <2>1
    <3>2. Area(stack, copy')
      BY <1>s, <3>1, AreaKept
    <3> QED BY <1>s, <3>2
  <2> QED BY <1>0, <1>a, <1>s, <2>1
<1>1. ASSUME NEW s \in copy.todo,
             \/ CopyGallery(s) \/ CopyGalleryFails(s) \/ CopyMedia(s) \/ SkipMedia(s)
             \/ CopyMediaFails(s)
      PROVE  AreaInv'
  <2>1. stack' = stack /\ task' = task /\ rest' = rest /\ (Running' => Running) /\ copy.pc = "copy"
    BY <1>1 DEF CopyGallery, CopyGalleryFails, CopyMedia, SkipMedia, CopyMediaFails, Copies, asked, callers,
                Running
  <2>2. copy'.pc # "within"
    BY <1>0, <1>1, <2>1 DEF CopyGallery, CopyGalleryFails, CopyMedia, SkipMedia, CopyMediaFails, Skipped, Ctx
  <2> QED BY <1>s, <2>1, <2>2
<1>2. ASSUME NEW s \in copy.todo, MoveWithin(s) PROVE AreaInv'
  <2>1. stack' = stack /\ task' = task /\ rest' = rest /\ job' = job /\ copy.pc = "within"
    BY <1>2 DEF MoveWithin, asked, callers
  <2>2. copy'.todo \subseteq copy.todo
    <3>1. \E pc : copy' = [Skipped(copy, s) EXCEPT !.pc = pc]
      BY <1>2 DEF MoveWithin
    <3> QED BY <1>0, <3>1 DEF Skipped, Ctx
  <2> QED BY <1>s, <2>1, <2>2 DEF Running
<1>3. ASSUME CopyEnds \/ Flush \/ LowerWatermark \/ RemoveMoved \/ Prune PROVE AreaInv'
  <2>1. stack' = stack /\ task' = task /\ rest' = rest /\ job' = job /\ copy.pc \in Copying
    BY <1>3 DEF CopyEnds, Flush, LowerWatermark, RemoveMoved, Prune, asked, callers, Copying
  <2>2. copy.pc # "idle"
    BY <2>1 DEF Copying
  <2>3. copy'.pc # "within"
    <3>1. CASE CopyEnds
      BY <1>0, <3>1 DEF CopyEnds, Ctx
    <3>2. CASE Flush
      BY <1>0, <3>2 DEF Flush, Flushed, Ctx
    <3>3. CASE LowerWatermark
      BY <1>0, <3>3 DEF LowerWatermark, Ctx
    <3>4. CASE RemoveMoved
      <4>1. AfterRemoval(copy) \in {"ok", "error", "prune"}
        BY DEF AfterRemoval
      <4>2. copy' = [copy EXCEPT !.pc = AfterRemoval(copy), !.moved = {}]
        BY <3>4 DEF RemoveMoved
      <4> QED BY <1>0, <4>1, <4>2 DEF Ctx
    <3>5. CASE Prune
      <4>1. copy.pc = "prune" /\ (\/ copy' = [copy EXCEPT !.pc = "ok"]
                                  \/ \E p \in copy.prune : copy' = [copy EXCEPT !.prune = @ \ {p}])
        BY <3>5, Zenon DEF Prune
      <4> QED BY <1>0, <4>1 DEF Ctx
    <3> QED BY <1>3, <3>1, <3>2, <3>3, <3>4, <3>5
  <2> QED BY <1>s, <2>1, <2>2, <2>3 DEF Running
<1>4. ASSUME MoveWithinEnds \/ Return \/ Cancel \/ UNCHANGED vars PROVE AreaInv'
  <2>1. stack' = stack /\ task' = task /\ rest' = rest /\ (Running' => Running)
    BY <1>4 DEF MoveWithinEnds, Return, Cancel, vars, asked, callers, Running
  <2>2. /\ copy'.pc # "idle" => copy.pc # "idle"
        /\ copy'.pc = "within" => copy.pc = "within" /\ copy'.todo \subseteq copy.todo
    BY <1>0, <1>4 DEF MoveWithinEnds, Return, Cancel, vars, Idle, Ctx
  <2> QED BY <1>s, <2>1, <2>2
\* The frame on top goes on.
<1>t. ASSUME Running, Within, stack # << >>, NEW f \in Frame, f.at = Top.at, f.to = Top.to,
             f.step # "merge", \A p \in f.subs : IsStrictPrefix(Top.at, p),
             Top.step = "merge" => ~IsPrefix(Top.at, Top.to), NEW d,
             d.pc = "within" => \A s \in d.todo : /\ IsStrictPrefix(Top.at, s.from)
                                                  /\ IsPrefix(Top.to, s.to)
      PROVE  Area(WithTop(f), d)
  <2> DEFINE n == Len(stack)
             q == WithTop(f)
  <2>1. /\ n \in Nat \ {0} /\ Top = stack[n] /\ Len(q) = n /\ q[n] = f
        /\ \A i \in 1 .. n - 1 : q[i] = stack[i]
    BY <1>0, <1>t, StackTypes
  <2>2. Area(stack, copy)
    BY <1>0, <1>t
  <2> HIDE DEF q
  <2>3. Area(q, d)
    BY <1>t, <2>1, <2>2, AreaTop
  <2> QED BY <2>3 DEF q
<1>5. ASSUME CombineTags PROVE AreaInv'
  <2> DEFINE f == [Top EXCEPT !.step = "media"]
  <2>1. /\ Running /\ stack # << >> /\ copy.pc = "idle" /\ copy' = copy /\ rest' = rest /\ task' = task
        /\ Running' => Running
    BY <1>5 DEF CombineTags, Combines, asked
  <2>2. \/ stack' = << >>
        \/ stack' = WithTop(f) /\ ~(src = dst /\ IsPrefix(Top.at, Top.to))
    BY <1>5 DEF CombineTags, GiveUp
  <2>3. CASE stack' = << >>
    BY <1>a, <2>1, <2>3
  <2>4. CASE stack' = WithTop(f) /\ ~(src = dst /\ IsPrefix(Top.at, Top.to))
    <3>1. ASSUME Within PROVE Area(stack', copy')
      <4>1. Top \in Frame
        BY <1>0, <2>1, StackTypes
      <4>2. f \in Frame /\ f.at = Top.at /\ f.to = Top.to /\ f.subs = Top.subs /\ f.step # "merge"
        BY <4>1 DEF Frame
      <4>3. \A p \in f.subs : IsStrictPrefix(Top.at, p)
        <5> DEFINE n == Len(stack)
        <5>1. Top = stack[n] /\ n \in 1 .. n /\ Area(stack, copy)
          BY <1>0, <2>1, <3>1, StackTypes
        <5>2. \A p \in stack[n].subs : IsStrictPrefix(stack[n].at, p)
          BY <5>1 DEF Area
        <5> QED BY <4>2, <5>1, <5>2
      <4> HIDE DEF f
      <4> QED BY <1>t, <2>1, <2>4, <3>1, <4>2, <4>3 DEF Within
    <3> QED BY <1>a, <2>1, <3>1
  <2> QED BY <2>2, <2>3, <2>4
<1>6. ASSUME CombineMedia PROVE AreaInv'
  <2> DEFINE f == [Top EXCEPT !.step = "list"]
             steps == MediaSteps(live[src], Top.at, Top.to)
  <2>1. /\ Running /\ stack # << >> /\ copy.pc = "idle" /\ rest' = rest /\ task' = task /\ job' = job
        /\ stack' = WithTop(f) /\ (copy' = copy \/ copy' = Images(Within, steps, Top.heeds))
        /\ Top.step = "media"
    BY <1>6 DEF CombineMedia, Combines, asked
  <2>2. Top \in Frame
    BY <1>0, <2>1, StackTypes
  <2>3. f \in Frame /\ f.at = Top.at /\ f.to = Top.to /\ f.subs = Top.subs /\ f.step # "merge"
    BY <2>2 DEF Frame
  <2>4. copy' = copy \/ (copy'.todo = steps /\ (copy'.pc = "within" => Within))
    BY <2>1 DEF Images, Idle
  <2>5. \A s \in steps : IsStrictPrefix(Top.at, s.from) /\ IsPrefix(Top.to, s.to)
    <3>1. Top.at \in Path /\ Top.to \in Path /\ Tree(had, live[src])
      BY <1>r, <2>1, <2>2 DEF Frame
    <3> QED BY <3>1, MediaStepsTypes
  <2> HIDE DEF f, steps
  <2>6. ASSUME Within PROVE Area(stack', copy')
    <3>1. \A p \in f.subs : IsStrictPrefix(Top.at, p)
      <4> DEFINE n == Len(stack)
      <4>1. Top = stack[n] /\ n \in 1 .. n /\ Area(stack, copy)
        BY <1>0, <2>1, <2>6, StackTypes
      <4>2. \A p \in stack[n].subs : IsStrictPrefix(stack[n].at, p)
        BY <4>1 DEF Area
      <4> QED BY <2>3, <4>1, <4>2
    <3>2. copy'.pc = "within" => \A s \in copy'.todo : /\ IsStrictPrefix(Top.at, s.from)
                                                       /\ IsPrefix(Top.to, s.to)
      BY <2>1, <2>4, <2>5
    <3>3. Area(WithTop(f), copy')
      BY <1>t, <2>1, <2>3, <2>6, <3>1, <3>2
    <3> QED BY <2>1, <3>3
  <2>7. copy'.pc = "within" => Within
    BY <2>1, <2>4
  <2> QED BY <1>a, <2>1, <2>6, <2>7 DEF Running
<1>7. ASSUME CombineList PROVE AreaInv'
  <2> DEFINE below == Paths(Galleries(Children(live[src], Top.at)))
             f == [Top EXCEPT !.step = "subs", !.subs = below]
  <2>1. /\ Running /\ stack # << >> /\ copy.pc = "idle" /\ rest' = rest /\ task' = task /\ job' = job
        /\ stack' = WithTop(f) /\ copy' = copy /\ Top.step = "list"
    BY <1>7 DEF CombineList, Combines, asked
  <2>2. Top \in Frame
    BY <1>0, <2>1, StackTypes
  <2>3. \A p \in below : p \in Path \ {<< >>} /\ IsStrictPrefix(Top.at, p)
    <3> SUFFICES ASSUME NEW n \in Children(live[src], Top.at)
                 PROVE  n.at \in Path \ {<< >>} /\ IsStrictPrefix(Top.at, n.at)
      BY DEF Paths, Galleries
    <3>1. /\ n \in live[src] /\ Len(n.at) = Len(Top.at) + 1 /\ Len(Top.at) \in Nat
          /\ IsPrefix(Top.at, n.at)
      BY <2>2 DEF Children, Under, Frame, Path
    <3>2. n.at \in Path
      BY <1>r, <2>1, <3>1, TreeThen
    <3>3. n.at # << >>
      BY <3>1, <3>2, EmptySeq DEF Path
    <3>4. n.at # Top.at
      BY <3>1
    <3> QED BY <3>1, <3>2, <3>3, <3>4 DEF IsStrictPrefix
  <2> HIDE DEF below
  <2>4. f \in Frame /\ f.at = Top.at /\ f.to = Top.to /\ f.subs = below /\ f.step # "merge"
    <3>1. below \subseteq Path \ {<< >>}
      BY <2>3
    <3> QED BY <2>2, <3>1 DEF Frame
  <2> HIDE DEF f
  <2>5. ASSUME Within PROVE Area(stack', copy')
    <3>1. Area(WithTop(f), copy')
      BY <1>t, <2>1, <2>3, <2>4, <2>5
    <3> QED BY <2>1, <3>1
  <2> QED BY <1>a, <2>1, <2>5 DEF Running
<1>8. ASSUME stack # << >>, NEW p \in Top.subs, CombineChild(p) PROVE AreaInv'
  <2> DEFINE to == Rebased(p, Top.at, Top.to)
             f == [Top EXCEPT !.subs = @ \ {p}]
             left == WithTop(f)
             child == CombineFrame(p, to, Top.heeds)
             sub == Subtree(p, to, FALSE)
  <2>1. /\ Running /\ copy.pc = "idle" /\ rest' = rest /\ task' = task /\ job' = job /\ Top.step = "subs"
        /\ \/ stack' = Append(left, child) /\ copy' = copy
           \/ stack' = left /\ copy' = sub
    BY <1>8 DEF CombineChild, Combines, asked
  <2>2. /\ Top \in Frame /\ Top.at \in Path /\ Top.to \in Path /\ Top.heeds \in BOOLEAN
        /\ p \in Path /\ p # << >>
    <3>1. Top \in Frame
      BY <1>0, <1>8, StackTypes
    <3> QED BY <1>8, <3>1 DEF Frame
  <2>3. f \in Frame /\ f.at = Top.at /\ f.to = Top.to /\ f.subs \subseteq Top.subs /\ f.step = "subs"
    BY <2>1, <2>2 DEF Frame
  <2>4. to \in Path
    BY <2>2 DEF Rebased, Path
  <2>5. child \in Frame /\ child.at = p /\ child.to = to /\ child.subs = {}
    <3> HIDE DEF to
    <3> QED BY <2>2, <2>4 DEF CombineFrame, Frame
  <2>6. /\ sub.pc = "within" => Within
        /\ Within => sub.todo = {StepOf("gallery", p, p, to)}
    <3> HIDE DEF to
    <3> QED BY DEF Subtree, Idle
  <2>7. StepOf("gallery", p, p, to).from = p /\ StepOf("gallery", p, p, to).to = to
    <3> HIDE DEF to
    <3> QED BY <2>2, <2>4, RebasedRoot DEF StepOf
  <2> HIDE DEF f, left, child, sub
  <2>8. ASSUME Within PROVE Area(stack', copy')
    <3> DEFINE n == Len(stack)
    <3>1. /\ n \in Nat \ {0} /\ Top = stack[n] /\ left \in Seq(Frame) /\ Len(left) = n /\ left[n] = f
          /\ \A i \in 1 .. n - 1 : left[i] = stack[i]
      BY <1>0, <1>8, <2>3, StackTypes DEF left
    <3>2. Area(stack, copy)
      BY <1>0, <1>8, <2>1, <2>8
    <3>3. \A r \in Top.subs : IsStrictPrefix(Top.at, r)
      <4>1. n \in 1 .. n
        BY <3>1
      <4> QED BY <3>1, <3>2, <4>1 DEF Area
    <3>4. IsStrictPrefix(Top.at, p) /\ IsPrefix(Top.at, p)
      BY <1>8, <3>3 DEF IsStrictPrefix
    <3>5. IsPrefix(Top.to, to)
      BY <2>2, <3>4, RebasedDef
    <3> HIDE DEF n, to
    <3>6. CASE stack' = left /\ copy' = sub
      <4>1. sub.pc = "within" => \A s \in sub.todo : /\ IsStrictPrefix(Top.at, s.from)
                                                     /\ IsPrefix(Top.to, s.to)
        BY <2>6, <2>7, <2>8, <3>4, <3>5
      <4>2. Area(WithTop(f), sub)
        BY <1>8, <1>t, <2>1, <2>3, <2>8, <3>3, <4>1
      <4> QED BY <3>6, <4>2 DEF left
    <3>7. CASE stack' = Append(left, child) /\ copy' = copy
      <4>1. Area(left, copy)
        <5>1. Area(WithTop(f), copy)
          BY <1>8, <1>t, <2>1, <2>3, <2>8, <3>3
        <5> QED BY <5>1 DEF left
      <4>2. left[1].step # "merge" /\ left # << >>
        <5>1. CASE n = 1
          BY <2>3, <3>1, <5>1
        <5>2. CASE n # 1
          <6>1. n > 1 /\ 1 \in 1 .. n - 1
            BY <3>1, <5>2
          <6>2. stack[1].step # "merge"
            BY <3>2, <6>1 DEF Area, n
          <6> QED BY <3>1, <6>1, <6>2
        <5> QED BY <5>1, <5>2
      <4>3. left[Len(left)].at = Top.at /\ left[Len(left)].to = Top.to
        BY <2>3, <3>1
      <4>4. Area(Append(left, child), copy)
        BY <2>1, <2>5, <3>1, <3>4, <3>5, <4>1, <4>2, <4>3, AreaPushed
      <4> QED BY <3>7, <4>4
    <3> QED BY <2>1, <3>6, <3>7
  <2>9. copy'.pc = "within" => Within
    BY <2>1, <2>6
  <2> QED BY <1>a, <2>1, <2>8, <2>9 DEF Running
<1>9. ASSUME CombineEnds PROVE AreaInv'
  <2>1. /\ Running /\ stack # << >> /\ copy.pc = "idle" /\ copy' = copy /\ rest' = rest /\ task' = task
        /\ Running' => Running
        /\ stack' = << >> \/ stack' = Front(stack)
    BY <1>9 DEF CombineEnds, Combines, GiveUp, asked
  <2>2. CASE stack' = << >>
    BY <1>a, <2>1, <2>2
  <2>3. CASE stack' = Front(stack) /\ stack' # << >>
    <3>1. ASSUME Within PROVE Area(stack', copy')
      <4> DEFINE q == Front(stack)
                 n == Len(q)
      <4>1. /\ q \in Seq(Frame) /\ n = Len(stack) - 1 /\ Len(stack) \in Nat
            /\ \A i \in 1 .. Len(stack) - 1 : q[i] = stack[i]
        BY <1>0, <2>1, StackTypes
      <4>2. Area(stack, copy)
        BY <1>0, <2>1, <3>1
      <4>3. q # << >>
        BY <2>3
      <4> HIDE DEF q
      <4>4. n \in Nat \ {0} /\ Len(stack) = n + 1 /\ \A i \in 1 .. n : q[i] = stack[i]
        BY <4>1, <4>3, EmptySeq
      <4>5. Area(q, copy)
        BY <2>1, <4>2, <4>4, AreaPopped
      <4> QED BY <2>1, <2>3, <4>5 DEF q
    <3> QED BY <1>a, <2>1, <3>1
  <2> QED BY <2>1, <2>2, <2>3
<1>10. ASSUME NEW p \in rest, NextGallery(p) PROVE AreaInv'
  <2> DEFINE to == Append(task.to, Last(p))
             alone == Cardinality(task.paths) = 1
  <2>1. /\ Running /\ copy.pc = "idle" /\ stack = << >> /\ task' = task /\ rest' \subseteq rest
        /\ Running' => Running
    BY <1>10 DEF NextGallery, asked, Unless, Running
  <2>2. \/ stack' = stack /\ copy' = copy
        \/ /\ task.policy = "combine" /\ stack' = << CombineFrame(p, to, alone) >> /\ copy' = copy
        \/ stack' = stack /\ \E end : copy' = Subtree(p, end, alone)
    BY <1>10 DEF NextGallery
  <2>3. CASE stack' = stack /\ copy' = copy
    BY <1>a, <2>1, <2>3
  <2>4. CASE stack' = stack /\ \E end : copy' = Subtree(p, end, alone)
    <3>1. copy'.pc = "within" => Within
      BY <2>4 DEF Subtree, Idle
    <3> QED BY <1>a, <2>1, <2>4, <3>1
  <2>5. CASE task.policy = "combine" /\ stack' = << CombineFrame(p, to, alone) >> /\ copy' = copy
    <3>1. ASSUME Within PROVE Area(stack', copy')
      <4>1. task \in Task /\ p \in task.paths /\ task.kind = "galleries" /\ p \in Path \ {<< >>}
            /\ task.mode = "move" /\ task.src = task.dst
        BY <1>0, <1>10, <1>r, <2>1, <3>1 DEF Types, CallersTyped, Within, Moves, src, dst
      <4>2. ~IsStrictPrefix(to, p)
        BY <2>5, <4>1 DEF NeverUpward
      <4>3. to \in Path
        BY <1>r, <2>1, <4>1, FrontDef, SeqAppend DEF Path
      <4>4. alone \in BOOLEAN
        OBVIOUS
      <4> HIDE DEF to, alone
      <4>5. Area(<< CombineFrame(p, to, alone) >>, copy')
        BY <2>1, <2>5, <4>1, <4>2, <4>3, <4>4, AreaFirst
      <4> QED BY <2>5, <4>5
    <3> QED BY <1>a, <2>1, <2>5, <3>1
  <2> QED BY <2>2, <2>3, <2>4, <2>5
<1>11. ASSUME NEW t \in Task, Launch(t) PROVE AreaInv'
  <2>1. /\ task' = t /\ rest' = (IF t.kind = "galleries" THEN t.paths ELSE {})
        /\ t.kind # "images" => copy' = Idle
        /\ t.kind = "images" => stack' = << >>
                                /\ \E steps : copy' = Images(t.mode = "move" /\ t.src = t.dst, steps, TRUE)
        /\ t.kind # "combine" => stack' = << >>
        /\ t.kind = "combine" => \E p \in t.paths : stack' = << CombineFrame(p, t.to, TRUE) >>
    BY <1>11 DEF Launch
  <2>2. Within' <=> t.mode = "move" /\ t.src = t.dst
    BY <2>1 DEF Within, Moves, src, dst
  <2>3. copy'.pc = "within" => Within'
    <3> DEFINE within == t.mode = "move" /\ t.src = t.dst
    <3>1. Idle.pc = "idle" /\ \A steps : Images(within, steps, TRUE).pc = IF within THEN "within" ELSE "copy"
      BY DEF Images, Idle
    <3> QED BY <2>1, <2>2, <3>1
  <2>4. rest' # {} => task'.kind = "galleries"
    BY <2>1
  <2>5. ASSUME Within', stack' # << >> PROVE Area(stack', copy')
    <3>1. t.kind = "combine" /\ copy' = Idle
      BY <2>1, <2>5
    <3>2. PICK p \in t.paths : stack' = << CombineFrame(p, t.to, TRUE) >>
      BY <2>1, <3>1
    <3>3. p \in Path \ {<< >>} /\ t.to \in Path
      BY TypesOfTask
    <3>4. ~IsStrictPrefix(t.to, p)
      BY <2>2, <2>5, <3>1 DEF NeverUpward
    <3>5. Idle.pc = "idle"
      BY DEF Idle
    <3>6. Area(<< CombineFrame(p, t.to, TRUE) >>, Idle)
      BY <3>3, <3>4, <3>5, AreaFirst
    <3> QED BY <3>1, <3>2, <3>6
  <2>6. (Area(stack, copy))' <=> Area(stack', copy')
    BY DEF Area
  <2> QED BY <2>3, <2>4, <2>5, <2>6, Zenon DEF AreaInv
<1>12. ASSUME Crash \/ JobEnds PROVE AreaInv'
  <2>1. ~Running'
    BY <1>12, <1>0 DEF Crash, JobEnds, Running, Types, JobTyped
  <2> QED BY <2>1 DEF AreaInv
<1> QED BY <1>1, <1>2, <1>3, <1>4, <1>5, <1>6, <1>7, <1>8, <1>9, <1>10, <1>11, <1>12, Zenon DEF Next

LEMMA KeptInit == Init => KeptInv
<1> HAVE Init
<1>1. live = disk /\ had = UNION {Content(disk[v]) : v \in Vault} /\ ~Running
  BY DEF Init, Running
<1>2. Kept
  <2> SUFFICES ASSUME NEW c \in had
               PROVE  \E v \in Vault : c \in Content(live[v]) /\ c \in Content(disk[v])
    BY DEF Kept, KeptIn
  <2>1. PICK v \in Vault : c \in Content(disk[v])
    BY <1>1
  <2> QED BY <1>1, <2>1
<1> QED BY <1>1, <1>2 DEF KeptInv, DriverInv, FrameInv, AreaInv

LEMMA KeptInvStep == NeverUpward /\ Types /\ KeptInv /\ [Next]_vars => KeptInv'
<1> HAVE NeverUpward /\ Types /\ KeptInv /\ [Next]_vars
<1>1. Kept'
  BY KeptStep
<1>2. DriverInv'
  BY DriverStep
<1>3. FrameInv'
  BY FrameStep
<1>4. AreaInv'
  BY AreaStep DEF KeptInv
<1> QED BY <1>1, <1>2, <1>3, <1>4 DEF KeptInv

LEMMA KeptIsEverything == Types /\ KeptInv => NothingLost
<1> HAVE Types /\ KeptInv
<1>1. ASSUME NEW c \in Everything PROVE c \in had
  <2>1. PICK v \in Vault : c \in Content(disk[v])
    BY <1>1 DEF Everything
  <2>2. disk[v] \subseteq Node(had)
    BY DEF Types, Trees
  <2> QED BY <2>1, <2>2, ContentDef DEF Node
<1>2. ASSUME NEW c \in had PROVE c \in Everything
  BY <1>2 DEF KeptInv, Kept, KeptIn, Everything
<1> QED BY <1>1, <1>2 DEF NothingLost

\* "Destination durability strictly precedes any source mutation, so a crash
\* anywhere leaves recoverable duplicates, never a lost file" (transfer.cpp):
\* whatever the vaults hold, for every sequence of moves, copies and combinations
\* and every choice of failures, cancels and crashes, all that was there at the
\* start is on disk in one of the vaults, and nothing else is; as long as no
\* gallery is combined into one that it lies in (NeverUpward).
THEOREM NothingLostTheorem == NeverUpward => (Spec => []NothingLost)
<1>1. ASSUME NeverUpward PROVE Spec => []NothingLost
  <2>1. Init => Types /\ KeptInv
    BY TypesInit, KeptInit
  <2>2. (Types /\ KeptInv) /\ [Next]_vars => (Types /\ KeptInv)'
    BY <1>1, TypesStep, KeptInvStep
  <2>3. Types /\ KeptInv => NothingLost
    BY KeptIsEverything
  <2> QED BY <2>1, <2>2, <2>3, PTL DEF Spec
<1> QED BY <1>1
=============================================================================
