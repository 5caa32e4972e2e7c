----------------------- MODULE LegacyConversionProofs -----------------------
(***************************************************************************)
(* What LegacyConversion keeps for every source tree, batch size, set of   *)
(* converters and number of stops.                                         *)
(***************************************************************************)
EXTENDS LegacyConversion, FiniteSetTheorems, WellFoundedInduction, TLAPS

Copying == {"mapping", "original", "derived", "counting"}
Holding == Copying \cup {"creating", "created", "matching", "checking", "cleaning",
                         "reopened", "finishing"}

\* The writer lock excludes: whoever works on the destination holds it.
LockInv ==
    /\ \A c \in Converter : pc[c] \in Holding <=> holder = c
    /\ user # "away" <=> holder = User

\* A newly created vault, before a conversion has recorded its marker.
Untouched ==
    /\ dest = "vault" /\ marker = None /\ ~edited /\ ~garbage
    /\ row = [i \in Id |-> IF i = RootId THEN Blank ELSE None]
    /\ ref = [k \in Id \X Role |-> None]

\* The nodes m maps are copied to those identities, and nothing else is there.
CopiedTo(m, s) ==
    /\ \A n \in Ordinal : m[n] # None =>
          /\ row[m[n]] = <<s, n>>
          /\ n # 1 => parent[m[n]] = m[ParentOf[n]]
          /\ ref[<<m[n], "original">>] = IF n \in Media THEN <<s, n>> ELSE None
          /\ ref[<<m[n], "derived">>] = IF n \in Derived THEN <<s, n>> ELSE None
    /\ \A i \in Id : row[i] # None <=> i = RootId \/ \E n \in Ordinal : m[n] = i
    /\ \A i \in Id, r \in Role : ref[<<i, r>>] # None => \E n \in Ordinal : m[n] = i

\* One identity per node, the root's own for the root, and no gaps.
OneToOne(m) ==
    /\ m[1] \in {None, RootId}
    /\ \A a, b \in Ordinal : m[a] # None /\ m[a] = m[b] => a = b
    /\ \A a, b \in Ordinal : a < b /\ m[b] # None => m[a] # None

\* Every node has a row and every row is a node's.
Whole(s) ==
    /\ \E m \in [Ordinal -> Id] : OneToOne(m) /\ CopiedTo(m, s)
    /\ settings = s

\* A conversion with nothing left but to be verified.
Complete ==
    /\ \A n \in Ordinal : map[n] # None
    /\ settings = marker /\ ~garbage

\* The copy on disk is as far as the mapping says.
MapOK == OneToOne(map) /\ CopiedTo(map, marker)

\* What is on disk, by the marker and by whether the user has been there.
DiskInv ==
    /\ dest # "vault" => /\ \A c \in Converter : pc[c] \in {"idle", "creating"}
                         /\ marker = None /\ user = "away" /\ ~edited
                         /\ row = [i \in Id |-> None]
                         /\ ref = [k \in Id \X Role |-> None]
    /\ dest = "absent" => holder = Nobody
    /\ marker = None => ~garbage
    /\ marker # None => dest = "vault" /\ ~edited /\ user # "browsing" /\ MapOK
    /\ dest = "vault" /\ marker = None /\ ~edited =>
          Untouched \/ \E s \in Source : Whole(s)

\* What a converter may rely on at each point of its run.
JobOK(c) ==
    /\ pc[c] # "idle" => src[c] \in Source
    /\ pc[c] = "creating" => dest = "partial"
    /\ pc[c] = "created" => Untouched /\ \A d \in Converter \ {c} : pc[d] = "idle"
    /\ pc[c] \in Copying \cup {"checking", "cleaning"} => marker = src[c]
    /\ pc[c] = "checking" => resumed[c]
    /\ pc[c] \in Copying \cup {"cleaning"} /\ garbage => resumed[c]
    /\ pc[c] \in {"released", "reopened", "finishing"} =>
          IF marker # None THEN marker = src[c] /\ Complete
                           ELSE edited \/ Whole(src[c])
    /\ pc[c] = "finished" => marker = None

\* The last ordinal that has its identity, and whether the objects of n are
\* staged or found, in the copy that c makes.
Reached(c) == IF pc[c] \in {"mapping", "cleaning"} THEN cursor - 1 ELSE cursor
Passed(c, n, where) == n < cursor \/ pc[c] \in where

\* The identities given so far: in order, one each, and as the mapping has them.
IdsOK(c) ==
    /\ OneToOne(ids)
    /\ \A n \in Ordinal : ids[n] # None <=> n <= Reached(c)
    /\ \A a, b \in Ordinal : ids[a] # None /\ ids[a] = map[b] => a = b
    /\ \A n \in Ordinal : ids[n] # None /\ map[n] # None => ids[n] = map[n]

\* The batch holds what is not mapped yet, and its objects are staged.
BatchOK(c) ==
    /\ \A n \in batch : ids[n] # None
    /\ \A n \in Ordinal : ids[n] # None /\ map[n] = None => n \in batch
    /\ \A n \in Media, r \in Role : <<n, r>> \in staged =>
          n \in batch /\ map[n] = None /\ (r = "derived" => n \in Derived)
    /\ \A n \in batch : map[n] = None =>
          /\ n \in Media /\ Passed(c, n, {"derived", "counting"}) =>
                <<n, "original">> \in staged
          /\ n \in Derived /\ Passed(c, n, {"counting"}) => <<n, "derived">> \in staged

\* The copy that c has under way.
CopyOK(c) ==
    pc[c] \in Copying \cup {"cleaning"} =>
        /\ pc[c] \in {"original", "derived", "counting"} => cursor <= Nodes
        /\ pc[c] \in {"original", "derived"} => cursor \in Media
        /\ pc[c] = "cleaning" => cursor = Nodes + 1 /\ batch = {} /\ settings = src[c]
        /\ IdsOK(c)
        /\ BatchOK(c)

JobInv  == \A c \in Converter : JobOK(c)
CopyInv ==
    /\ staged # {} => \E c \in Converter : pc[c] \in Copying
    /\ \A c \in Converter : CopyOK(c)

Inv == TypeOK /\ LockInv /\ DiskInv /\ JobInv /\ CopyInv

-----------------------------------------------------------------------------
(* Frame lemmas: what the parts of the invariant depend on. *)

\* The state of the copy on disk is the store's.
LEMMA StoreKept ==
    UNCHANGED store =>
        /\ MapOK' <=> MapOK
        /\ Complete' <=> Complete
        /\ \A s : Whole(s)' <=> Whole(s)
        /\ UNCHANGED <<dest, edited>> => (Untouched' <=> Untouched)
BY DEF store, conversion, content, MapOK, Complete, Whole, Untouched, CopiedTo, OneToOne

\* Also as the copy of a converter's source.
LEMMA WholeKept ==
    ASSUME NEW c \in Converter, UNCHANGED store, src'[c] = src[c]
    PROVE  (Whole(src[c]) <=> Whole(src[c])') /\ (Complete' <=> Complete)
<1>1. Whole(src[c])' <=> Whole(src[c])
  BY DEF store, conversion, content, Whole, CopiedTo, OneToOne
<1> QED BY <1>1, StoreKept

\* A copy belongs to its converter's variables, the mapping and the settings.
LEMMA CopyKept ==
    ASSUME NEW c \in Converter, UNCHANGED <<copy, map, settings>>,
           pc'[c] = pc[c], src'[c] = src[c], CopyOK(c)
    PROVE  CopyOK(c)'
BY DEF copy, CopyOK, IdsOK, BatchOK, OneToOne, Reached, Passed

-----------------------------------------------------------------------------
(* Type correctness. *)

\* Before the first conversion the state is well typed.
LEMMA TypeInit == Init => TypeOK
<1> SUFFICES ASSUME Init PROVE TypeOK
  OBVIOUS
<1>1. 1 \in 1 .. Nodes + 1 /\ 0 \in 0 .. MaxStops /\ 0 \in 0 .. MaxOpens
  BY ShapeAssumption, StopAssumption
<1>2. map \in [Ordinal -> Id \cup {None}] /\ ids \in [Ordinal -> Id \cup {None}]
  BY DEF Init, NoIds
<1>3. resumed \in [Converter -> BOOLEAN]
  BY DEF Init
<1> QED BY <1>1, <1>2, <1>3 DEF Init, TypeOK, Pc

\* A converter at one of its program points stays at one.
LEMMA GotoType ==
    ASSUME TypeOK, NEW c \in Converter, NEW where \in Pc, Goto(c, where)
    PROVE  pc' \in [Converter -> Pc]
BY DEF TypeOK, Goto

\* Giving up keeps a converter's variables well typed.
LEMMA GiveUpType ==
    ASSUME TypeOK, NEW c \in Converter, GiveUp(c)
    PROVE  /\ pc' \in [Converter -> Pc]
           /\ src' \in [Converter -> Source \cup {None}]
           /\ resumed' \in [Converter -> BOOLEAN]
           /\ report' \in [Converter -> {"none", "ok", "failed"}]
<1>1. "idle" \in Pc
  BY DEF Pc
<1> QED BY <1>1, GotoType DEF GiveUp, TypeOK

\* An empty copy is well typed.
LEMMA NoCopyType ==
    ASSUME NoCopy
    PROVE  /\ cursor' \in 1 .. Nodes + 1 /\ batch' \subseteq Ordinal
           /\ ids' \in [Ordinal -> Id \cup {None}] /\ staged' \subseteq Media \X Role
BY ShapeAssumption DEF NoCopy, NoIds

\* So is what a lost session leaves.
LEMMA LoseSessionType ==
    ASSUME TypeOK, NEW c, LoseSession(c)
    PROVE  /\ holder' \in Converter \cup {Nobody, User} /\ garbage' \in BOOLEAN
           /\ cursor' \in 1 .. Nodes + 1 /\ batch' \subseteq Ordinal
           /\ ids' \in [Ordinal -> Id \cup {None}] /\ staged' \subseteq Media \X Role
BY NoCopyType DEF LoseSession, TypeOK

\* A batch writes rows, parents, mappings and references of the right kinds.
LEMMA CommitBatchType ==
    ASSUME TypeOK, NEW c \in Converter, src[c] \in Source, CommitBatch(c)
    PROVE  /\ row' \in [Id -> Content \cup {None, Blank, Edited}]
           /\ parent' \in [Id -> Id \cup {None}]
           /\ map' \in [Ordinal -> Id \cup {None}]
           /\ ref' \in [Id \X Role -> Content \cup {None}]
           /\ batch' \subseteq Ordinal /\ staged' \subseteq Media \X Role
<1> DEFINE Live == {ids[n] : n \in batch}
           member == [i \in Live |-> CHOOSE n \in batch : ids[n] = i]
<1>1. \A i \in Live : member[i] \in batch
  OBVIOUS
<1> HIDE DEF member
<1>2. DOMAIN member = Live
  BY DEF member
<1>3. row' = [i \in Id |-> IF i \in DOMAIN member THEN <<src[c], member[i]>> ELSE row[i]]
  BY DEF CommitBatch, member
<1>4. parent' = [i \in Id |-> IF i \in DOMAIN member /\ member[i] # 1
                               THEN ids[ParentOf[member[i]]] ELSE parent[i]]
  BY DEF CommitBatch, member
<1> HIDE DEF Live
<1>5. batch \subseteq Ordinal
  BY DEF TypeOK
<1>6. row' \in [Id -> Content \cup {None, Blank, Edited}]
  BY <1>1, <1>2, <1>3, <1>5 DEF TypeOK, Content
<1>7. parent' \in [Id -> Id \cup {None}]
  <2>1. \A n \in batch : n # 1 => ids[ParentOf[n]] \in Id \cup {None}
    BY <1>5, ShapeAssumption DEF TypeOK
  <2> QED BY <1>1, <1>2, <1>4, <2>1 DEF TypeOK
<1>8. map' \in [Ordinal -> Id \cup {None}]
  BY DEF CommitBatch, Mapped, TypeOK
<1>9. ref' \in [Id \X Role -> Content \cup {None}]
  <2>1. ASSUME NEW k \in Id \X Role, \E n \in Media : ids[n] = k[1] /\ <<n, k[2]>> \in staged
        PROVE  (CHOOSE n \in Media : ids[n] = k[1]) \in Ordinal
    BY <2>1 DEF Media
  <2> QED BY <2>1 DEF CommitBatch, CommittedRefs, TypeOK, Content
<1> QED BY <1>6, <1>7, <1>8, <1>9 DEF CommitBatch

\* And so does the commit of the whole tree.
LEMMA FinalizeType ==
    ASSUME TypeOK, NEW c \in Converter, src[c] \in Source, Finalize(c)
    PROVE  /\ row' \in [Id -> Content \cup {None, Blank, Edited}]
           /\ parent' \in [Id -> Id \cup {None}]
           /\ ref' \in [Id \X Role -> Content \cup {None}]
           /\ garbage' \in BOOLEAN /\ settings' \in Source \cup {None}
<1>1. ASSUME NEW i \in {ids[n] : n \in Ordinal}
      PROVE  (CHOOSE n \in Ordinal : ids[n] = i) \in Ordinal
  OBVIOUS
<1>2. row' \in [Id -> Content \cup {None, Blank, Edited}]
  BY <1>1 DEF Finalize, Content
<1>3. parent' \in [Id -> Id \cup {None}]
  BY DEF Finalize, TypeOK
<1>4. ref' \in [Id \X Role -> Content \cup {None}]
  BY DEF Finalize, TypeOK
<1> QED BY <1>2, <1>3, <1>4 DEF Finalize, TypeOK

\* Every step of a converter keeps the types.
LEMMA TypeWork ==
    ASSUME TypeOK, NEW c \in Converter, pc[c] # "idle" => src[c] \in Source, CopyOK(c), Work(c)
    PROVE  TypeOK'
<1> USE DEF store, conversion, content, job, copy, person
<1>1. CASE CreateVault(c)
  BY <1>1, GotoType, IdAssumption DEF CreateVault, TypeOK, Pc
<1>2. CASE BeginConversion(c)
  <2>1. NoIds \in [Ordinal -> Id \cup {None}]
    BY DEF NoIds
  <2>2. pc' \in [Converter -> Pc]
    BY <1>2, GotoType DEF BeginConversion, Pc
  <2> QED BY <1>2, <2>1, <2>2, NoCopyType DEF BeginConversion, TypeOK
<1>3. CASE AcceptMarker(c)
  BY <1>3, GotoType DEF AcceptMarker, TypeOK, Pc
<1>4. CASE RejectMarker(c)
  BY <1>4, GiveUpType DEF RejectMarker, TypeOK
<1>5. CASE CheckDestination(c)
  BY <1>5, GotoType, NoCopyType DEF CheckDestination, TypeOK, Pc
<1>6. CASE MapNode(c)
  <2>1. cursor \in Ordinal
    BY <1>6, ShapeAssumption DEF MapNode, TypeOK, Ordinal
  <2>2. IdsFor(cursor) \subseteq Id \cup {None}
    BY <2>1, IdAssumption DEF IdsFor, TypeOK
  <2>3. pc' \in [Converter -> Pc]
    BY <1>6, GotoType DEF MapNode, Pc
  <2> QED BY <1>6, <2>1, <2>2, <2>3 DEF MapNode, TypeOK
<1>7. CASE StageOriginal(c)
  <2>1. cursor \in Media
    BY <1>7 DEF StageOriginal, CopyOK, Copying
  <2>2. pc' \in [Converter -> Pc]
    BY <1>7, GotoType DEF StageOriginal, Stage, Pc
  <2>3. staged' \subseteq Media \X Role
    BY <1>7, <2>1 DEF StageOriginal, Stage, TypeOK, Role
  <2> QED BY <1>7, <2>2, <2>3 DEF StageOriginal, Stage, TypeOK
<1>8. CASE StageDerived(c)
  <2>1. pc' \in [Converter -> Pc]
    BY <1>8, GotoType DEF StageDerived, Stage, Pc
  <2>2. staged' \subseteq Media \X Role
    BY <1>8, ShapeAssumption DEF StageDerived, Stage, TypeOK, Role
  <2> QED BY <1>8, <2>1, <2>2 DEF StageDerived, Stage, TypeOK
<1>9. ASSUME BatchRefused(c) PROVE TypeOK'
  BY <1>9, LoseSessionType, GiveUpType DEF BatchRefused, TypeOK
<1>10. CASE CommitFull(c)
  <2>1. CASE MayCommit
    <3>1. CommitBatch(c) /\ cursor' = cursor + 1 /\ Goto(c, "mapping")
      BY <1>10, <2>1 DEF CommitFull
    <3>2. cursor' \in 1 .. Nodes + 1
      BY <1>10, <3>1, ShapeAssumption DEF CommitFull, CopyOK, Copying, TypeOK
    <3>3. pc' \in [Converter -> Pc]
      BY <3>1, GotoType DEF Pc
    <3>4. src[c] \in Source
      BY <1>10 DEF CommitFull
    <3> HIDE DEF CopyOK
    <3> QED BY <3>1, <3>2, <3>3, <3>4, CommitBatchType, ZenonT(40) DEF CommitBatch, TypeOK
  <2> QED BY <1>9, <1>10, <2>1 DEF CommitFull
<1>11. CASE CountNode(c)
  <2>1. cursor' \in 1 .. Nodes + 1
    BY <1>11, ShapeAssumption DEF CountNode, CopyOK, Copying, TypeOK
  <2> QED BY <1>11, <2>1, GotoType DEF CountNode, TypeOK, Pc
<1>12. CASE CommitTail(c)
  <2>1. CASE MayCommit
    <3>1. CommitBatch(c) /\ UNCHANGED <<cursor, pc>> /\ src[c] \in Source
      BY <1>12, <2>1 DEF CommitTail
    <3> QED BY <3>1, CommitBatchType, ZenonT(40) DEF CommitBatch, TypeOK
  <2> QED BY <1>9, <1>12, <2>1 DEF CommitTail
<1>13. CASE Finalize(c)
  <2>1. src[c] \in Source
    BY <1>13 DEF Finalize
  <2>2. pc' \in [Converter -> Pc]
    BY <1>13, GotoType DEF Finalize, Pc
  <2> QED BY <1>13, <2>1, <2>2, FinalizeType DEF Finalize, TypeOK
<1>14. CASE CleanUp(c)
  BY <1>14, GotoType, NoCopyType DEF CleanUp, Collected, TypeOK, Pc
<1>15. CASE Reopen(c)
  BY <1>15, GotoType DEF Reopen, TypeOK, Pc
<1>16. CASE ReopenBusy(c)
  BY <1>16, GiveUpType DEF ReopenBusy, TypeOK
<1>17. CASE Compare(c)
  BY <1>17, GotoType DEF Compare, TypeOK, Pc
<1>18. CASE CompareFails(c)
  BY <1>18, GiveUpType DEF CompareFails, TypeOK
<1>19. CASE FinishConversion(c)
  BY <1>19, GotoType DEF FinishConversion, TypeOK, Pc, NoIds
<1>20. CASE OpenCopy(c)
  BY <1>20, GotoType DEF OpenCopy, TypeOK, Pc
<1> QED BY <1>1, <1>2, <1>3, <1>4, <1>5, <1>6, <1>7, <1>8, <1>10, <1>11, <1>12, <1>13,
           <1>14, <1>15, <1>16, <1>17, <1>18, <1>19, <1>20 DEF Work

\* And so does any other step.
LEMMA TypeStep == Inv /\ [Next]_vars => TypeOK'
<1> SUFFICES ASSUME Inv, [Next]_vars PROVE TypeOK'
  OBVIOUS
<1> USE DEF vars, store, conversion, content, job, copy, person
<1>0. TypeOK
  BY DEF Inv
<1>1. ASSUME NEW c \in Converter, Work(c) PROVE TypeOK'
  BY <1>1, TypeWork DEF Inv, JobInv, JobOK, CopyInv
<1>2. ASSUME NEW c \in Converter, Stop(c) PROVE TypeOK'
  <2>1. stops' \in 0 .. MaxStops
    BY <1>0, <1>2, StopAssumption DEF Stop, TypeOK
  <2>2. dest' \in {"absent", "partial", "vault"}
    BY <1>0, <1>2 DEF Stop, TypeOK
  <2>3. CASE holder = c
    BY <1>0, <1>2, <2>1, <2>2, <2>3, GiveUpType, LoseSessionType DEF Stop, TypeOK
  <2>4. CASE holder # c
    BY <1>0, <1>2, <2>1, <2>2, <2>4, GiveUpType DEF Stop, TypeOK
  <2> QED BY <2>3, <2>4
<1>3. ASSUME NEW c \in Converter, Refuse(c) PROVE TypeOK'
  BY <1>0, <1>3 DEF Refuse, TypeOK
<1>4. ASSUME NEW c \in Converter, NEW s \in Source, StartNew(c, s) \/ Resume(c, s) PROVE TypeOK'
  <2>1. pc' \in [Converter -> Pc]
    BY <1>0, <1>4, GotoType DEF StartNew, Resume, Pc
  <2> QED BY <1>0, <1>4, <2>1 DEF StartNew, Resume, TypeOK
<1>5. CASE UserUnlock
  BY <1>0, <1>5, StopAssumption DEF UserUnlock, TypeOK
<1>6. CASE UserEnters \/ UserRefused \/ UserLeaves
  BY <1>0, <1>6 DEF UserEnters, UserRefused, UserLeaves, TypeOK
<1>7. CASE UserEdits
  BY <1>0, <1>7 DEF UserEdits, TypeOK, Rows
<1>8. CASE UNCHANGED vars
  BY <1>0, <1>8 DEF TypeOK
<1> QED BY <1>1, <1>2, <1>3, <1>4, <1>5, <1>6, <1>7, <1>8 DEF Next, Request

-----------------------------------------------------------------------------
(* The writer lock. *)

\* A step that moves one converter within, into or out of the critical section
\* together with the lock keeps the exclusion.
LEMMA LockMoves ==
    ASSUME TypeOK, LockInv, NEW c \in Converter, NEW where \in Pc,
           pc' = [pc EXCEPT ![c] = where],
           \/ holder' = c /\ where \in Holding /\ holder \in {c, Nobody} /\ user' = user
           \/ holder = c /\ holder' = Nobody /\ where \notin Holding /\ user' = user
           \/ /\ pc[c] \notin Holding /\ where \notin Holding
              /\ holder' = holder /\ user' = user
           \/ /\ pc[c] \notin Holding /\ where \notin Holding
              /\ holder = Nobody /\ holder' = User /\ user' # "away"
    PROVE  LockInv'
BY HolderAssumption DEF LockInv, TypeOK

\* Every step of a converter is taken with the lock, takes it or needs none.
LEMMA LockWork ==
    ASSUME TypeOK, LockInv, NEW c \in Converter, Work(c)
    PROVE  LockInv'
<1> USE DEF store, conversion, content, job, copy, person, Goto, Pc, Holding, Copying
<1>0. pc[c] \in Holding <=> holder = c
  BY DEF LockInv
<1>1. CASE CreateVault(c) \/ BeginConversion(c) \/ AcceptMarker(c) \/ CheckDestination(c)
  BY <1>0, <1>1, LockMoves DEF CreateVault, BeginConversion, AcceptMarker, CheckDestination
<1>2. CASE RejectMarker(c) \/ ReopenBusy(c) \/ CompareFails(c)
  BY <1>0, <1>2, LockMoves DEF RejectMarker, ReopenBusy, CompareFails, GiveUp
<1>3. CASE MapNode(c)
  BY <1>0, <1>3, LockMoves DEF MapNode
<1>4. CASE StageOriginal(c) \/ StageDerived(c) \/ CountNode(c) \/ Finalize(c)
  BY <1>0, <1>4, LockMoves DEF StageOriginal, StageDerived, Stage, CountNode, Finalize
<1>5. ASSUME BatchRefused(c), holder = c PROVE LockInv'
  BY <1>5, LockMoves DEF BatchRefused, LoseSession, GiveUp
<1>6. CASE CommitFull(c)
  BY <1>0, <1>5, <1>6, LockMoves DEF CommitFull, CommitBatch
<1>7. CASE CommitTail(c)
  BY <1>0, <1>5, <1>7 DEF CommitTail, CommitBatch, LockInv
<1>8. CASE CleanUp(c) \/ Reopen(c) \/ Compare(c) \/ FinishConversion(c)
  BY <1>0, <1>8, LockMoves DEF CleanUp, Reopen, Compare, FinishConversion, LeaseFree
<1>9. CASE OpenCopy(c)
  BY <1>0, <1>9, LockMoves DEF OpenCopy, LeaseFree
<1> QED BY <1>1, <1>2, <1>3, <1>4, <1>6, <1>7, <1>8, <1>9 DEF Work

\* So is every other step.
LEMMA LockStep == Inv /\ [Next]_vars => LockInv'
<1> SUFFICES ASSUME Inv, [Next]_vars PROVE LockInv'
  OBVIOUS
<1> USE DEF vars, store, conversion, content, job, copy, person
<1>0. TypeOK /\ LockInv /\ (dest = "absent" => holder = Nobody)
  BY DEF Inv, DiskInv
<1>1. ASSUME NEW c \in Converter, Work(c) PROVE LockInv'
  BY <1>0, <1>1, LockWork
<1>2. ASSUME NEW c \in Converter, Stop(c) PROVE LockInv'
  <2>1. "idle" \in Pc /\ "idle" \notin Holding /\ (pc[c] \in Holding <=> holder = c)
    BY <1>0 DEF Pc, Holding, Copying, LockInv
  <2> QED BY <1>0, <1>2, <2>1, LockMoves DEF Stop, GiveUp, Goto, LoseSession
<1>3. ASSUME NEW c \in Converter, NEW s \in Source, StartNew(c, s) \/ Resume(c, s) PROVE LockInv'
  <2>1. "creating" \in Pc \cap Holding /\ "matching" \in Pc \cap Holding
    BY DEF Pc, Holding
  <2> QED BY <1>0, <1>3, <2>1, LockMoves DEF StartNew, Resume, Goto, LeaseFree
<1>4. CASE UserUnlock \/ UserEnters \/ UserRefused \/ UserEdits \/ UserLeaves
  BY <1>0, <1>4, HolderAssumption
  DEF UserUnlock, UserEnters, UserRefused, UserEdits, UserLeaves, LockInv, LeaseFree
<1>5. CASE UNCHANGED vars \/ \E c \in Converter : Refuse(c)
  BY <1>0, <1>5 DEF Refuse, LockInv
<1> QED BY <1>1, <1>2, <1>3, <1>4, <1>5 DEF Next, Request

-----------------------------------------------------------------------------
(* Steps that leave the store as it is. *)

\* Only c moves.
Alone(c) == \A d \in Converter \ {c} :
                pc'[d] = pc[d] /\ src'[d] = src[d] /\ resumed'[d] = resumed[d]

\* The destination is a vault as soon as a converter is past its creation.
LEMMA PastCreation ==
    ASSUME Inv, NEW c \in Converter, pc[c] \notin {"idle", "creating"}
    PROVE  dest = "vault"
BY DEF Inv, DiskInv

\* One converter at a time is in the critical section.
LEMMA OneHolder ==
    ASSUME Inv, NEW c \in Converter, pc[c] \in Holding, NEW d \in Converter \ {c}
    PROVE  pc[d] \notin Holding
BY DEF Inv, LockInv

\* A step of c that keeps the store of a vault keeps what is known of its disk.
LEMMA QuietDisk ==
    ASSUME Inv, UNCHANGED <<dest, edited>>, UNCHANGED store, dest = "vault",
           user' = "browsing" => marker = None
    PROVE  DiskInv'
<1>1. dest' = "vault" /\ marker' = marker /\ edited' = edited /\ garbage' = garbage
  BY DEF store, conversion
<1>2. DiskInv
  BY DEF Inv
<1> QED BY <1>1, <1>2, StoreKept DEF DiskInv

\* Nor does it disturb the other converters.
LEMMA QuietOthers ==
    ASSUME Inv, NEW c \in Converter, UNCHANGED <<dest, edited>>, UNCHANGED store, Alone(c),
           pc[c] # "idle" \/ pc'[c] = "idle" \/ holder \notin Converter,
           NEW d \in Converter \ {c}
    PROVE  JobOK(d)'
<1>1. JobOK(d) /\ marker' = marker /\ garbage' = garbage
  BY DEF Inv, JobInv, store, conversion
<1>2. pc'[d] = pc[d] /\ src'[d] = src[d] /\ resumed'[d] = resumed[d]
  BY DEF Alone
<1>3. ASSUME pc[d] = "created" PROVE Untouched' /\ \A e \in Converter \ {d} : pc'[e] = "idle"
  <2>1. Untouched /\ holder = d /\ \A e \in Converter \ {d} : pc[e] = "idle"
    BY <1>1, <1>3 DEF JobOK, Inv, LockInv, Holding
  <2> QED BY <2>1, StoreKept DEF Alone
<1>4. (Complete' <=> Complete) /\ (Whole(src[d])' <=> Whole(src[d]))
  BY <1>2, WholeKept
<1> QED BY <1>1, <1>2, <1>3, <1>4 DEF JobOK

\* The copy another converter has under way stays, for it alone has one.
LEMMA CopyOthers ==
    ASSUME Inv, NEW c \in Converter, Alone(c),
           pc[c] \in Holding \/ UNCHANGED <<copy, map, settings>>,
           NEW d \in Converter \ {c}
    PROVE  CopyOK(d)'
<1>1. pc'[d] = pc[d] /\ src'[d] = src[d] /\ CopyOK(d)
  BY DEF Alone, Inv, CopyInv
<1>2. CASE UNCHANGED <<copy, map, settings>>
  BY <1>1, <1>2, CopyKept
<1>3. CASE pc[c] \in Holding
  BY <1>1, <1>3, OneHolder DEF CopyOK, Holding
<1> QED BY <1>2, <1>3

\* The rest of the invariant, once the types and the lock are settled.
Rest == DiskInv /\ JobInv /\ CopyInv

\* A quiet step of c has only c itself and its copy to show.
LEMMA QuietStep ==
    ASSUME Inv, NEW c \in Converter, UNCHANGED <<dest, edited>>, UNCHANGED store, dest = "vault", Alone(c),
           user' = "browsing" => marker = None,
           pc[c] # "idle" \/ pc'[c] = "idle" \/ holder \notin Converter,
           pc[c] \in Holding \/ UNCHANGED copy,
           JobOK(c)', CopyOK(c)',
           staged' # {} => \E d \in Converter : pc'[d] \in Copying
    PROVE  Rest'
<1>1. DiskInv'
  BY QuietDisk
<1>2. JobInv'
  BY QuietOthers DEF JobInv
<1>3. CopyInv'
  BY CopyOthers DEF CopyInv, store, conversion, content
<1> QED BY <1>1, <1>2, <1>3 DEF Rest

\* Opening, refusing, reopening, comparing: the lock and the converter's own place.
LEMMA QuietWork ==
    ASSUME Inv, NEW c \in Converter,
           \/ AcceptMarker(c) \/ RejectMarker(c) \/ Reopen(c) \/ ReopenBusy(c)
           \/ Compare(c) \/ CompareFails(c) \/ OpenCopy(c)
    PROVE  Rest'
<1> USE DEF job, copy, person, Goto, GiveUp
<1>0. TypeOK /\ JobOK(c) /\ CopyInv /\ dest = "vault" /\ c \in DOMAIN pc
      /\ c \in DOMAIN src /\ c \in DOMAIN resumed
  BY PastCreation DEF Inv, TypeOK, JobInv, AcceptMarker, RejectMarker, Reopen, ReopenBusy, Compare,
     CompareFails, OpenCopy
<1>1. UNCHANGED <<dest, edited>> /\ UNCHANGED store /\ UNCHANGED copy /\ Alone(c)
  BY <1>0 DEF Alone, TypeOK, AcceptMarker, RejectMarker, Reopen, ReopenBusy, Compare, CompareFails, OpenCopy
<1>2. user' = "browsing" => marker = None
  BY <1>0 DEF JobOK, Inv, DiskInv, AcceptMarker, RejectMarker, Reopen, ReopenBusy, Compare, CompareFails,
     OpenCopy
<1>3. pc[c] # "idle" /\ pc[c] \notin Copying /\ CopyOK(c)'
  BY <1>0 DEF AcceptMarker, RejectMarker, Reopen, ReopenBusy, Compare, CompareFails,
     OpenCopy, Copying, CopyOK
<1>4. staged' # {} => \E d \in Converter : pc'[d] \in Copying
  BY <1>0, <1>1, <1>3 DEF CopyInv, Alone
<1>5. JobOK(c)'
  <2>1. CASE AcceptMarker(c)
    BY <1>0, <2>1 DEF JobOK, AcceptMarker, MarkerMatches, Copying, store, conversion
  <2>2. CASE RejectMarker(c) \/ ReopenBusy(c) \/ CompareFails(c) \/ OpenCopy(c)
    BY <1>0, <2>2 DEF JobOK, RejectMarker, ReopenBusy, CompareFails, OpenCopy, Copying
  <2>3. CASE Reopen(c) \/ Compare(c)
    <3>1. (Complete' <=> Complete) /\ (Whole(src[c])' <=> Whole(src[c])) /\ src' = src
      BY <1>1, <2>3, WholeKept DEF Reopen, Compare
    <3>2. pc[c] \in {"released", "reopened"} /\ pc'[c] \in {"reopened", "finishing"}
      BY <1>0, <2>3 DEF Reopen, Compare
    <3> QED BY <1>0, <1>1, <3>1, <3>2 DEF JobOK, Copying, store, conversion
  <2> QED BY <2>1, <2>2, <2>3
<1> QED BY <1>0, <1>1, <1>2, <1>3, <1>4, <1>5, QuietStep

\* The user's steps other than an edit, a request that is refused, and the resume
\* of a vault that nobody has open.
LEMMA QuietRest ==
    ASSUME Inv, \/ UserUnlock \/ UserEnters \/ UserRefused \/ UserLeaves
                \/ \E c \in Converter : Refuse(c)
                \/ UNCHANGED vars
    PROVE  Rest'
<1> USE DEF job, copy, person, vars
<1>1. UNCHANGED <<dest, edited, pc, src, resumed>> /\ UNCHANGED store /\ UNCHANGED copy
  BY DEF UserUnlock, UserEnters, UserRefused, UserLeaves, Refuse
<1>2. user' = "browsing" => user = "browsing" \/ marker = None
  BY DEF UserUnlock, UserEnters, UserRefused, UserLeaves, Refuse, MayBrowse
<1>3. ASSUME NEW d \in Converter PROVE JobOK(d)' /\ CopyOK(d)'
  <2>1. CopyOK(d)'
    BY <1>1, CopyKept DEF Inv, CopyInv, store, conversion, content
  <2>2. (Complete' <=> Complete) /\ (Whole(src[d])' <=> Whole(src[d])) /\ (Untouched' <=> Untouched)
    BY <1>1, WholeKept, StoreKept
  <2>3. JobOK(d) /\ UNCHANGED <<marker, garbage>>
    BY <1>1 DEF Inv, JobInv, store, conversion
  <2> QED BY <1>1, <2>1, <2>2, <2>3 DEF JobOK
<1>4. DiskInv'
  <2>1. UNCHANGED <<marker, garbage, row, ref>> /\ DiskInv
    BY <1>1 DEF store, conversion, content, Inv
  <2>2. dest = "absent" => holder' = Nobody
    BY <2>1 DEF UserUnlock, UserEnters, UserRefused, UserLeaves, Refuse, DiskInv
  <2>3. dest # "vault" => user' = "away"
    BY <2>1 DEF UserUnlock, UserEnters, UserRefused, UserLeaves, Refuse, DiskInv
  <2> QED BY <1>1, <1>2, <2>1, <2>2, <2>3, StoreKept DEF DiskInv
<1>5. CopyInv'
  BY <1>1, <1>3 DEF CopyInv, Inv
<1> QED BY <1>3, <1>4, <1>5 DEF Rest, JobInv

\* A resumed conversion begins with the lock and its source, and no more.
LEMMA RestResume ==
    ASSUME Inv, NEW c \in Converter, NEW s \in Source, Resume(c, s)
    PROVE  Rest'
<1> USE DEF job, copy, person, Goto
<1>1. TypeOK /\ CopyInv /\ dest = "vault" /\ holder = Nobody /\ UNCHANGED <<dest, edited, user>>
      /\ UNCHANGED store /\ UNCHANGED copy /\ pc[c] = "idle" /\ Alone(c)
  BY DEF Inv, Resume, LeaseFree, Alone, TypeOK
<1>2. pc'[c] = "matching" /\ src'[c] = s
  BY <1>1 DEF Resume, TypeOK
<1>3. JobOK(c)' /\ CopyOK(c)'
  BY <1>2 DEF JobOK, CopyOK, Copying
<1>4. staged' # {} => \E d \in Converter : pc'[d] \in Copying
  BY <1>1, <1>2 DEF CopyInv, Alone, Copying
<1>5. user' = "browsing" => marker = None
  BY <1>1 DEF Inv, DiskInv
<1> QED BY <1>1, <1>3, <1>4, <1>5, QuietStep, HolderAssumption

\* A converter that gives up outside the copy leaves the store as it is.
LEMMA RestStopQuiet ==
    ASSUME Inv, NEW c \in Converter, Stop(c), pc[c] # "creating", staged = {} \/ holder # c
    PROVE  Rest'
<1> USE DEF job, person, Goto, GiveUp
<1>1. TypeOK /\ CopyInv /\ DiskInv /\ dest = "vault" /\ pc[c] # "idle"
  BY PastCreation DEF Inv, Stop
<1>2. UNCHANGED <<dest, edited, user>> /\ UNCHANGED store /\ Alone(c) /\ pc'[c] = "idle"
  BY <1>1 DEF Stop, LoseSession, Alone, store, TypeOK
<1>3. pc[c] \in Holding \/ UNCHANGED copy
  BY DEF Stop, Inv, LockInv
<1>4. JobOK(c)' /\ CopyOK(c)'
  BY <1>2 DEF JobOK, CopyOK, Copying
<1>5. staged' # {} => \E d \in Converter : pc'[d] \in Copying
  BY <1>1, <1>2 DEF CopyInv, Stop, LoseSession, NoCopy, copy, Alone, Inv, LockInv, Holding
<1>6. user' = "browsing" => marker = None
  BY <1>1, <1>2 DEF DiskInv
<1> QED BY <1>1, <1>2, <1>3, <1>4, <1>5, <1>6, QuietStep

-----------------------------------------------------------------------------
(* Creating the destination, and stopping before and during the copy. *)

\* While the destination is not a vault its store is empty and nobody is past
\* the creation.
LEMMA RestStartNew ==
    ASSUME Inv, NEW c \in Converter, NEW s \in Source, StartNew(c, s)
    PROVE  Rest'
<1> USE DEF job, copy, person, Goto
<1>1. TypeOK /\ DiskInv /\ CopyInv /\ LockInv /\ dest = "absent" /\ holder = Nobody
  BY DEF Inv, StartNew, DiskInv
<1>2. UNCHANGED <<marker, row, ref, garbage, edited, user>> /\ UNCHANGED store /\ UNCHANGED copy
  BY DEF StartNew, store, conversion, content
<1>3. \A d \in Converter : pc[d] = "idle"
  BY <1>1, HolderAssumption DEF LockInv, Holding, DiskInv
<1>4. pc'[c] = "creating" /\ src'[c] = s /\ dest' = "partial" /\ Alone(c)
  BY <1>1 DEF StartNew, TypeOK, Alone
<1>5. DiskInv'
  BY <1>1, <1>2, <1>3, <1>4 DEF DiskInv, Alone
<1>6. ASSUME NEW d \in Converter PROVE JobOK(d)' /\ CopyOK(d)'
  BY <1>3, <1>4 DEF JobOK, CopyOK, Copying, Alone
<1>7. staged' = {}
  BY <1>1, <1>2, <1>3 DEF CopyInv, Copying
<1> QED BY <1>5, <1>6, <1>7 DEF Rest, JobInv, CopyInv

\* A creation that is rolled back or cut short leaves no vault.
LEMMA RestStopCreating ==
    ASSUME Inv, NEW c \in Converter, Stop(c), pc[c] = "creating"
    PROVE  Rest'
<1> USE DEF person, Goto, GiveUp
<1>1. TypeOK /\ DiskInv /\ CopyInv /\ LockInv /\ dest = "partial" /\ holder = c
  BY DEF Inv, JobInv, JobOK, LockInv, Holding
<1>2. \A d \in Converter \ {c} : pc[d] = "idle"
  BY <1>1 DEF DiskInv, LockInv, Holding
<1>3. staged = {}
  BY <1>1, <1>2 DEF CopyInv, Copying
<1>4. /\ UNCHANGED <<marker, row, ref, garbage, edited, user>>
      /\ holder' = Nobody /\ staged' = {} /\ dest' \in {"absent", "partial"}
  BY <1>1, <1>3 DEF Stop, LoseSession, NoCopy, conversion, content, TypeOK
<1>5. \A d \in Converter : pc'[d] = "idle"
  BY <1>1, <1>2 DEF Stop, TypeOK
<1>6. DiskInv'
  BY <1>1, <1>4, <1>5 DEF DiskInv
<1>7. ASSUME NEW d \in Converter PROVE JobOK(d)' /\ CopyOK(d)'
  BY <1>5 DEF JobOK, CopyOK, Copying
<1> QED BY <1>4, <1>6, <1>7 DEF Rest, JobInv, CopyInv

\* A new vault has a blank root and nothing else.
LEMMA RestCreateVault ==
    ASSUME Inv, NEW c \in Converter, CreateVault(c)
    PROVE  Rest'
<1> USE DEF copy, person, Goto, conversion
<1>1. TypeOK /\ DiskInv /\ CopyInv /\ LockInv /\ dest = "partial" /\ holder = c /\ src[c] \in Source
  BY DEF Inv, JobInv, JobOK, LockInv, Holding, CreateVault
<1>2. \A d \in Converter \ {c} : pc[d] = "idle"
  BY <1>1 DEF DiskInv, LockInv, Holding
<1>3. pc'[c] = "created" /\ src' = src /\ dest' = "vault" /\ \A d \in Converter \ {c} : pc'[d] = "idle"
  BY <1>1, <1>2 DEF CreateVault, TypeOK
<1>4. row' = [i \in Id |-> IF i = RootId THEN Blank ELSE None]
  BY <1>1 DEF CreateVault, DiskInv
<1>5. /\ UNCHANGED <<marker, garbage, edited, user, staged>>
      /\ marker = None /\ ~edited /\ ~garbage
      /\ ref' = [k \in Id \X Role |-> None]
  BY <1>1 DEF CreateVault, DiskInv
<1>6. Untouched'
  BY <1>3, <1>4, <1>5 DEF Untouched
<1>7. DiskInv'
  BY <1>3, <1>5, <1>6 DEF DiskInv
<1>8. ASSUME NEW d \in Converter PROVE JobOK(d)' /\ CopyOK(d)'
  BY <1>1, <1>3, <1>6 DEF JobOK, CopyOK, Copying
<1>9. staged' = {}
  BY <1>1, <1>2, <1>5 DEF CopyInv, Copying, CreateVault
<1> QED BY <1>7, <1>8, <1>9 DEF Rest, JobInv, CopyInv

\* A copy begins with no identity given, no batch and no object.
LEMMA FreshCopy ==
    ASSUME NEW c \in Converter, NoCopy, pc'[c] = "mapping"
    PROVE  CopyOK(c)'
<1>1. cursor' = 1 /\ batch' = {} /\ ids' = NoIds /\ staged' = {}
  BY DEF NoCopy
<1>2. 1 \in Ordinal /\ \A n \in Ordinal : NoIds[n] = None /\ ~(n <= 0)
  BY ShapeAssumption DEF NoIds, Ordinal
<1>3. Reached(c)' = 0
  BY <1>1 DEF Reached
<1>4. OneToOne(ids)'
  BY <1>1, <1>2 DEF OneToOne
<1>5. IdsOK(c)'
  BY <1>1, <1>2, <1>3, <1>4 DEF IdsOK
<1>6. BatchOK(c)'
  BY <1>1, <1>2 DEF BatchOK
<1> QED BY <1>5, <1>6 DEF CopyOK

\* With the marker begins a mapping without entries.
LEMMA RestBegin ==
    ASSUME Inv, NEW c \in Converter, BeginConversion(c)
    PROVE  Rest'
<1> USE DEF copy, person, Goto, content
<1>1. /\ TypeOK /\ LockInv /\ holder = c /\ src[c] \in Source /\ Untouched
      /\ \A d \in Converter \ {c} : pc[d] = "idle"
  BY DEF Inv, JobInv, JobOK, LockInv, Holding, BeginConversion
<1>2. /\ pc'[c] = "mapping" /\ src' = src /\ \A d \in Converter \ {c} : pc'[d] = "idle"
      /\ marker' = src[c] /\ marker' # None /\ map' = NoIds
      /\ UNCHANGED <<dest, edited, garbage, user, row, ref>>
  BY <1>1, IdAssumption DEF BeginConversion, TypeOK
<1>3. cursor' = 1 /\ batch' = {} /\ ids' = NoIds /\ staged' = {}
  BY DEF BeginConversion, NoCopy
<1>4. 1 \in Ordinal /\ \A n \in Ordinal : NoIds[n] = None /\ ~(n <= 0)
  BY ShapeAssumption DEF NoIds, Ordinal
<1>5. MapOK'
  <2>1. OneToOne(map)'
    BY <1>2, <1>4 DEF OneToOne
  <2>2. CopiedTo(map, marker)'
    BY <1>1, <1>2, <1>4, IdAssumption, NoneAssumption DEF CopiedTo, Untouched
  <2> QED BY <2>1, <2>2 DEF MapOK
<1>6. user # "browsing"
  BY <1>1, HolderAssumption DEF LockInv
<1>7. DiskInv'
  BY <1>1, <1>2, <1>5, <1>6 DEF DiskInv, Untouched
<1>8. CopyOK(c)'
  BY <1>2, FreshCopy DEF BeginConversion
<1>9. ASSUME NEW d \in Converter PROVE JobOK(d)' /\ (d # c => CopyOK(d)')
  BY <1>1, <1>2 DEF JobOK, CopyOK, Copying, Untouched
<1> QED BY <1>3, <1>7, <1>8, <1>9 DEF Rest, JobInv, CopyInv

\* A session lost in the middle of a copy may leave object files behind, which the
\* next attempt, being a resumed one, collects; it leaves none if all is mapped.
LEMMA RestLoseCopy ==
    ASSUME Inv, NEW c \in Converter, pc[c] \in Copying, LoseSession(c), GiveUp(c),
           UNCHANGED <<dest, edited, user>>, UNCHANGED conversion, UNCHANGED content
    PROVE  Rest'
<1> USE DEF Goto, GiveUp, conversion, content
<1>1. TypeOK /\ DiskInv /\ CopyInv /\ LockInv /\ holder = c /\ marker = src[c] /\ src[c] \in Source
  BY DEF Inv, JobInv, JobOK, LockInv, Holding, Copying
<1>2. pc'[c] = "idle" /\ Alone(c) /\ staged' = {} /\ garbage' = (garbage \/ staged # {})
  BY <1>1 DEF TypeOK, Alone, LoseSession, NoCopy
<1>3. ASSUME Complete PROVE staged = {}
  <2>1. BatchOK(c)
    BY <1>1 DEF CopyInv, CopyOK
  <2>2. \A n \in Media : map[n] # None
    BY <1>3 DEF Complete, Media
  <2> QED BY <1>1, <2>1, <2>2 DEF BatchOK, TypeOK
<1>4. Complete => Complete'
  BY <1>2, <1>3 DEF Complete
<1>5. MapOK' <=> MapOK
  BY DEF MapOK, OneToOne, CopiedTo
<1>6. marker # None /\ dest = "vault"
  BY <1>1, IdAssumption DEF DiskInv
<1>7. DiskInv'
  BY <1>1, <1>5, <1>6 DEF DiskInv
<1>8. ASSUME NEW d \in Converter \ {c} PROVE JobOK(d)' /\ CopyOK(d)'
  <2>1. pc[d] \notin Holding /\ pc'[d] = pc[d] /\ src'[d] = src[d] /\ JobOK(d)
    BY <1>2, OneHolder DEF Alone, Holding, Inv, JobInv
  <2> QED BY <1>4, <1>6, <2>1 DEF JobOK, CopyOK, Holding
<1>9. JobOK(c)' /\ CopyOK(c)'
  BY <1>2 DEF JobOK, CopyOK, Copying
<1> QED BY <1>2, <1>7, <1>8, <1>9 DEF Rest, JobInv, CopyInv

\* A stop anywhere keeps the invariant.
LEMMA RestStop ==
    ASSUME Inv, NEW c \in Converter, Stop(c)
    PROVE  Rest'
<1>1. CASE pc[c] = "creating"
  BY <1>1, RestStopCreating
<1>2. CASE pc[c] # "creating" /\ (staged = {} \/ holder # c)
  BY <1>2, RestStopQuiet
<1>3. CASE staged # {} /\ holder = c
  <2>1. pc[c] \in Copying /\ pc[c] # "creating"
    BY <1>3 DEF Inv, CopyInv, LockInv, Holding, Copying
  <2> QED BY <1>3, <2>1, RestLoseCopy DEF Stop, person
<1> QED BY <1>1, <1>2, <1>3

\* The check of a resumed destination, after which the copy starts over.
LEMMA RestCheck ==
    ASSUME Inv, NEW c \in Converter, CheckDestination(c)
    PROVE  Rest'
<1> USE DEF person, Goto
<1>1. TypeOK /\ dest = "vault" /\ JobOK(c) /\ pc[c] \in Holding /\ pc[c] # "idle" /\ DiskInv
  BY PastCreation DEF Inv, CheckDestination, JobInv, Holding
<1>2. UNCHANGED <<dest, edited, user, src, resumed>> /\ UNCHANGED store /\ Alone(c) /\ pc'[c] = "mapping"
  BY <1>1 DEF CheckDestination, Alone, TypeOK
<1>3. JobOK(c)'
  BY <1>1, <1>2 DEF JobOK, CheckDestination, Copying, store, conversion
<1>4. CopyOK(c)' /\ staged' = {}
  BY <1>2, FreshCopy DEF CheckDestination, NoCopy
<1>5. user' = "browsing" => marker = None
  BY <1>1, <1>2 DEF DiskInv
<1> QED BY <1>1, <1>2, <1>3, <1>4, <1>5, QuietStep

-----------------------------------------------------------------------------
(* The copy. *)

\* What a converter in the middle of its copy knows.
LEMMA CopierKnows ==
    ASSUME Inv, NEW c \in Converter, pc[c] \in Copying
    PROVE  /\ TypeOK /\ dest = "vault" /\ pc[c] \in Holding /\ holder = c
           /\ src[c] \in Source /\ marker = src[c] /\ marker # None
           /\ ~edited /\ user # "browsing" /\ MapOK /\ JobOK(c)
           /\ IdsOK(c) /\ BatchOK(c) /\ CopyOK(c)
<1>1. TypeOK /\ DiskInv /\ JobOK(c) /\ CopyOK(c) /\ pc[c] \in Holding /\ holder = c
  BY DEF Inv, JobInv, CopyInv, LockInv, Holding
<1>2. src[c] \in Source /\ marker = src[c] /\ marker # None
  BY <1>1, IdAssumption DEF JobOK, Copying
<1> QED BY <1>1, <1>2 DEF DiskInv, CopyOK

\* A copy step that leaves the store alone has only its own copy to show.
LEMMA CopyStep ==
    ASSUME Inv, NEW c \in Converter, pc[c] \in Copying, NEW where \in Copying, Goto(c, where),
           UNCHANGED <<dest, edited, user, src, resumed>>, UNCHANGED store, CopyOK(c)'
    PROVE  Rest'
<1> USE DEF Goto
<1>1. TypeOK /\ dest = "vault" /\ pc[c] \in Holding /\ JobOK(c) /\ user # "browsing"
  BY CopierKnows
<1>2. Alone(c) /\ pc'[c] = where
  BY <1>1 DEF Alone, TypeOK
<1>3. JobOK(c)'
  BY <1>1, <1>2 DEF JobOK, Copying, store, conversion
<1>4. pc[c] # "idle"
  BY DEF Copying
<1> QED BY <1>1, <1>2, <1>3, <1>4, QuietStep

\* A node gets the identity the mapping has for it, or one that is free.
LEMMA RestMapNode ==
    ASSUME Inv, NEW c \in Converter, MapNode(c)
    PROVE  Rest'
<1> DEFINE where == IF cursor \in Gallery THEN "counting" ELSE "original"
<1>1. pc[c] = "mapping" /\ pc[c] \in Copying /\ cursor \in Ordinal /\ where \in Copying
  BY ShapeAssumption DEF MapNode, Copying, Inv, TypeOK, Ordinal
<1>2. TypeOK /\ MapOK /\ IdsOK(c) /\ BatchOK(c)
  BY <1>1, CopierKnows
<1>3. PICK i \in IdsFor(cursor) : ids' = [ids EXCEPT ![cursor] = i]
  BY DEF MapNode
<1>4. /\ batch' = batch \cup {cursor} /\ pc'[c] = where /\ UNCHANGED <<map, cursor, staged, settings, src>>
      /\ Goto(c, where) /\ UNCHANGED <<dest, edited, user, src, resumed>> /\ UNCHANGED store
  BY <1>2 DEF MapNode, Goto, TypeOK, store, conversion, content, person
<1> HIDE DEF where
<1>5. /\ OneToOne(map) /\ OneToOne(ids)
      /\ \A n \in Ordinal : ids[n] # None <=> n <= cursor - 1
      /\ \A a, b \in Ordinal : ids[a] # None /\ ids[a] = map[b] => a = b
      /\ \A n \in Ordinal : ids[n] # None /\ map[n] # None => ids[n] = map[n]
  BY <1>1, <1>2 DEF MapOK, IdsOK, Reached
<1>6. \A b \in Ordinal : map[b] # None => map[b] \in Rows
  BY <1>2 DEF MapOK, CopiedTo, Rows, TypeOK
<1>7. Ordinal \subseteq Int /\ 1 \in Ordinal /\ \A n \in Ordinal : n >= 1
  BY ShapeAssumption DEF Ordinal
<1>8. /\ i # None
      /\ map[cursor] # None => i = map[cursor]
      /\ cursor = 1 => i = RootId
      /\ \A b \in Ordinal : map[b] = i => b = cursor
      /\ \A b \in Ordinal : ids[b] # i
  <2>1. CASE map[cursor] # None
    <3>1. i = map[cursor]
      BY <1>3, <2>1 DEF IdsFor
    <3>2. \A b \in Ordinal : ids[b] = i => b = cursor
      BY <1>1, <1>5, <2>1, <3>1
    <3>3. ids[cursor] = None
      BY <1>1, <1>5, <1>7
    <3> QED BY <1>1, <1>5, <2>1, <3>1, <3>2, <3>3 DEF OneToOne
  <2>2. CASE map[cursor] = None /\ cursor = 1
    <3>1. i = RootId /\ i # None
      BY <1>3, <2>2, IdAssumption DEF IdsFor
    <3>2. \A b \in Ordinal : map[b] = None
      BY <1>5, <1>7, <2>2 DEF OneToOne
    <3>3. \A b \in Ordinal : ids[b] = None
      BY <1>5, <1>7, <2>2
    <3> QED BY <2>2, <3>1, <3>2, <3>3
  <2>3. CASE map[cursor] = None /\ cursor # 1
    <3>1. i \in Id \ (Rows \cup {ids[m] : m \in Ordinal} \cup {RootId})
      BY <1>3, <2>3 DEF IdsFor
    <3>2. i # None /\ i \notin Rows /\ \A b \in Ordinal : ids[b] # i
      BY <3>1, IdAssumption
    <3> QED BY <1>6, <2>3, <3>2
  <2> QED BY <2>1, <2>2, <2>3
<1>9. \A n \in Ordinal : ids'[n] = IF n = cursor THEN i ELSE ids[n]
  BY <1>2, <1>3 DEF TypeOK
<1>10. Reached(c)' = cursor
  BY <1>4 DEF Reached, where
<1>11. \A n \in Ordinal : ids'[n] # None <=> n <= cursor
  BY <1>1, <1>5, <1>7, <1>8, <1>9
<1>12. OneToOne(ids)'
  <2>1. ids'[1] \in {None, RootId}
    BY <1>5, <1>7, <1>8, <1>9 DEF OneToOne
  <2>2. \A a, b \in Ordinal : ids'[a] # None /\ ids'[a] = ids'[b] => a = b
    BY <1>5, <1>8, <1>9 DEF OneToOne
  <2>3. \A a, b \in Ordinal : a < b /\ ids'[b] # None => ids'[a] # None
    BY <1>1, <1>7, <1>11
  <2> QED BY <2>1, <2>2, <2>3 DEF OneToOne
<1>13. IdsOK(c)'
  <2>1. \A a, b \in Ordinal : ids'[a] # None /\ ids'[a] = map[b] => a = b
    BY <1>5, <1>8, <1>9
  <2>2. \A n \in Ordinal : ids'[n] # None /\ map[n] # None => ids'[n] = map[n]
    BY <1>5, <1>8, <1>9
  <2> QED BY <1>4, <1>10, <1>11, <1>12, <2>1, <2>2 DEF IdsOK
<1>14. BatchOK(c)'
  <2>0. \A n \in batch : ids[n] # None /\ n \in Ordinal
    BY <1>2 DEF BatchOK, TypeOK
  <2>1. \A n \in batch : n # cursor
    BY <1>1, <1>5, <1>7, <2>0
  <2>2. \A n \in batch' : ids'[n] # None
    BY <1>1, <1>4, <1>8, <1>9, <2>0, <2>1
  <2>3. \A n \in Ordinal : ids'[n] # None /\ map[n] = None => n \in batch'
    BY <1>2, <1>4, <1>9 DEF BatchOK
  <2>4. \A n \in batch' : n \in batch \/ n = cursor
    BY <1>4
  <2>5. ASSUME NEW n \in batch PROVE n < cursor
    <3>1. n <= cursor - 1 /\ n \in Int /\ cursor \in Int
      BY <1>1, <1>5, <1>7, <2>0
    <3> QED BY <3>1
  <2>6. cursor \in Media => where = "original"
    BY DEF where, Media
  <2>7. cursor \in Derived => cursor \in Media
    BY ShapeAssumption
  <2>8. ~(cursor < cursor)
    BY <1>1, <1>7
  <2> QED BY <1>2, <1>4, <2>2, <2>3, <2>4, <2>5, <2>6, <2>7, <2>8 DEF BatchOK, Passed
<1>15. CopyOK(c)'
  <2>1. cursor <= Nodes /\ (where = "original" => cursor \in Media) /\ where \in {"original", "counting"}
    BY <1>1 DEF MapNode, where, Media
  <2> QED BY <1>4, <1>13, <1>14, <2>1 DEF CopyOK
<1> QED BY <1>1, <1>4, <1>15, CopyStep

\* An object is staged unless the destination has it: afterwards it is there.
LEMMA RestStage ==
    ASSUME Inv, NEW c \in Converter, StageOriginal(c) \/ StageDerived(c)
    PROVE  Rest'
<1>1. pc[c] \in {"original", "derived"} /\ pc[c] \in Copying
  BY DEF StageOriginal, StageDerived, Copying
<1>2. /\ TypeOK /\ MapOK /\ IdsOK(c) /\ BatchOK(c)
      /\ cursor \in Media /\ cursor <= Nodes /\ cursor \in Ordinal
  BY <1>1, CopierKnows DEF CopyOK, Media
<1> DEFINE role == IF pc[c] = "original" THEN "original" ELSE "derived"
           where == IF pc[c] = "original" THEN "derived" ELSE "counting"
           wanted == pc[c] = "original" \/ cursor \in Derived
<1>3. role \in Role /\ where \in Copying /\ (role = "derived" /\ wanted => cursor \in Derived)
  BY <1>1 DEF Copying, Role
<1>4. /\ staged' = IF wanted /\ ~HasObject(cursor, role)
                   THEN staged \cup {<<cursor, role>>} ELSE staged
      /\ pc'[c] = where /\ Goto(c, where)
      /\ UNCHANGED <<dest, edited, user, src, resumed, map, settings, cursor, batch, ids>>
      /\ UNCHANGED store
  <2>1. CASE StageOriginal(c)
    BY <1>2, <2>1 DEF StageOriginal, Stage, Goto, TypeOK, store, conversion, content, person
  <2>2. CASE StageDerived(c)
    BY <1>2, <2>2 DEF StageDerived, Stage, Goto, TypeOK, store, conversion, content, person
  <2> QED BY <2>1, <2>2
<1>5. IdsOK(c)'
  <2>1. Reached(c)' = Reached(c)
    BY <1>1, <1>4 DEF Reached
  <2> QED BY <1>2, <1>4, <2>1 DEF IdsOK, OneToOne
<1>6. ids[cursor] # None
  BY <1>1, <1>2, ShapeAssumption DEF IdsOK, Reached, Ordinal
<1>7. cursor \in batch \/ map[cursor] # None
  BY <1>2, <1>6 DEF BatchOK
<1>8. ASSUME map[cursor] = None PROVE \A r \in Role : ref[<<ids[cursor], r>>] = None
  <2>1. \A b \in Ordinal : ids[cursor] # map[b]
    BY <1>2, <1>6, <1>8 DEF IdsOK
  <2>2. ids[cursor] \in Id
    BY <1>2, <1>6 DEF TypeOK
  <2> QED BY <1>2, <2>1, <2>2 DEF MapOK, CopiedTo
<1>9. ASSUME map[cursor] # None, wanted PROVE HasObject(cursor, role)
  <2>1. ids[cursor] = map[cursor]
    BY <1>2, <1>6, <1>9 DEF IdsOK
  <2>2. ref[<<map[cursor], role>>] = <<marker, cursor>>
    BY <1>1, <1>2, <1>9 DEF MapOK, CopiedTo
  <2>3. <<marker, cursor>> \in Content
    BY <1>1, <1>2, CopierKnows DEF Content
  <2> QED BY <2>1, <2>2, <2>3, NoneAssumption DEF HasObject
<1> HIDE DEF wanted, role, where
<1>10. ASSUME NEW n \in Media, NEW r \in Role, <<n, r>> \in staged'
       PROVE  n \in batch /\ map[n] = None /\ (r = "derived" => n \in Derived)
  <2>1. CASE <<n, r>> \in staged
    BY <1>2, <2>1 DEF BatchOK
  <2>2. CASE <<n, r>> \notin staged
    BY <1>3, <1>4, <1>7, <1>9, <1>10, <2>2
  <2> QED BY <2>1, <2>2
<1>11. ASSUME map[cursor] = None, wanted PROVE <<cursor, role>> \in staged'
  BY <1>3, <1>4, <1>8, <1>11 DEF HasObject
<1>12. staged \subseteq staged'
  BY <1>4
<1>13. ASSUME NEW n \in batch, map[n] = None
       PROVE  /\ n \in Media /\ Passed(c, n, {"derived", "counting"})' => <<n, "original">> \in staged'
              /\ n \in Derived /\ Passed(c, n, {"counting"})' => <<n, "derived">> \in staged'
  <2>1. CASE n = cursor /\ pc[c] = "original"
    <3>1. wanted /\ role = "original" /\ where = "derived" /\ ~(n < cursor)
      BY <1>2, <2>1, ShapeAssumption DEF wanted, role, where, Ordinal
    <3> QED BY <1>4, <1>11, <1>13, <2>1, <3>1 DEF Passed
  <2>2. CASE n = cursor /\ pc[c] = "derived"
    <3>1. role = "derived" /\ (n \in Derived => wanted)
      BY <2>2 DEF wanted, role
    <3>2. n \in Media => <<n, "original">> \in staged
      BY <1>2, <1>13, <2>2 DEF BatchOK, Passed
    <3> QED BY <1>11, <1>12, <1>13, <2>2, <3>1, <3>2
  <2>3. CASE n # cursor
    <3>1. n \in Ordinal /\ n <= cursor
      BY <1>1, <1>2 DEF BatchOK, IdsOK, Reached, TypeOK
    <3>2. n < cursor
      BY <1>2, <2>3, <3>1, ShapeAssumption DEF Ordinal
    <3> QED BY <1>2, <1>12, <1>13, <3>2 DEF BatchOK, Passed
  <2> QED BY <1>1, <2>1, <2>2, <2>3
<1>14. BatchOK(c)'
  <2>1. \A n \in batch : ids[n] # None
    BY <1>2 DEF BatchOK
  <2>2. \A n \in Ordinal : ids[n] # None /\ map[n] = None => n \in batch
    BY <1>2 DEF BatchOK
  <2> QED BY <1>4, <1>10, <1>13, <2>1, <2>2 DEF BatchOK
<1>15. CopyOK(c)'
  <2>1. where \in {"derived", "counting"}
    BY DEF where
  <2> QED BY <1>2, <1>4, <1>5, <1>14, <2>1 DEF CopyOK
<1> QED BY <1>1, <1>3, <1>4, <1>15, CopyStep

\* Counting a node moves the cursor past it.
LEMMA RestCount ==
    ASSUME Inv, NEW c \in Converter, CountNode(c)
    PROVE  Rest'
<1>1. pc[c] = "counting" /\ pc[c] \in Copying /\ "mapping" \in Copying
  BY DEF CountNode, Copying
<1>2. TypeOK /\ IdsOK(c) /\ BatchOK(c)
  BY <1>1, CopierKnows
<1>3. /\ pc'[c] = "mapping" /\ Goto(c, "mapping") /\ cursor' = cursor + 1
      /\ UNCHANGED <<dest, edited, user, src, resumed, map, settings, batch, ids, staged>>
      /\ UNCHANGED store
  BY <1>2 DEF CountNode, Goto, TypeOK, store, conversion, content, person
<1>4. IdsOK(c)'
  <2>1. Reached(c)' = Reached(c)
    BY <1>1, <1>2, <1>3, ShapeAssumption DEF Reached, TypeOK
  <2> QED BY <1>2, <1>3, <2>1 DEF IdsOK, OneToOne
<1>5. BatchOK(c)'
  <2>1. /\ \A n \in batch : ids[n] # None
        /\ \A n \in Ordinal : ids[n] # None /\ map[n] = None => n \in batch
        /\ \A n \in Media, r \in Role : <<n, r>> \in staged =>
              n \in batch /\ map[n] = None /\ (r = "derived" => n \in Derived)
    BY <1>2 DEF BatchOK
  <2>2. \A n \in batch : map[n] = None =>
              /\ n \in Media => <<n, "original">> \in staged
              /\ n \in Derived => <<n, "derived">> \in staged
    BY <1>1, <1>2 DEF BatchOK, Passed
  <2> QED BY <1>3, <2>1, <2>2 DEF BatchOK
<1>6. CopyOK(c)'
  BY <1>3, <1>4, <1>5 DEF CopyOK
<1> QED BY <1>1, <1>3, <1>6, CopyStep

-----------------------------------------------------------------------------
(* The transactions. *)

\* What a batch writes, node by node: each member of the batch gets its row, its
\* parent and its objects, and no other identity is touched.
LEMMA BatchWrites ==
    ASSUME Inv, NEW c \in Converter, pc[c] \in Copying, CommitBatch(c)
    PROVE  /\ \A n \in batch : row'[ids[n]] = <<src[c], n>>
           /\ \A n \in batch : n # 1 => parent'[ids[n]] = ids[ParentOf[n]]
           /\ \A i \in Id : (\A n \in batch : ids[n] # i) =>
                 row'[i] = row[i] /\ parent'[i] = parent[i]
           /\ \A n \in Media, r \in Role : <<n, r>> \in staged => ref'[<<ids[n], r>>] = <<src[c], n>>
           /\ \A i \in Id, r \in Role : (\A n \in Media : ids[n] = i => <<n, r>> \notin staged) =>
                 ref'[<<i, r>>] = ref[<<i, r>>]
           /\ \A n \in Ordinal : map'[n] = IF n \in batch THEN ids[n] ELSE map[n]
<1>1. TypeOK /\ OneToOne(ids) /\ BatchOK(c)
  BY CopierKnows DEF IdsOK
<1>2. /\ batch \subseteq Ordinal /\ \A n \in batch : ids[n] # None /\ ids[n] \in Id
      /\ \A a, b \in Ordinal : ids[a] # None /\ ids[a] = ids[b] => a = b
      /\ staged \subseteq Media \X Role /\ Media \subseteq Ordinal
  BY <1>1 DEF BatchOK, OneToOne, TypeOK, Media
<1> DEFINE Live == {ids[n] : n \in batch}
           member == [i \in Live |-> CHOOSE n \in batch : ids[n] = i]
<1>3. \A n \in batch : ids[n] \in Live /\ member[ids[n]] = n
  BY <1>2
<1>4. DOMAIN member = Live
  OBVIOUS
<1>5. /\ row' = [i \in Id |-> IF i \in DOMAIN member THEN <<src[c], member[i]>> ELSE row[i]]
      /\ parent' = [i \in Id |-> IF i \in DOMAIN member /\ member[i] # 1
                                 THEN ids[ParentOf[member[i]]] ELSE parent[i]]
  BY DEF CommitBatch
<1>6. \A i \in Id : (\A n \in batch : ids[n] # i) => i \notin Live
  OBVIOUS
<1> HIDE DEF Live, member
<1>7. /\ \A n \in batch : row'[ids[n]] = <<src[c], n>>
      /\ \A n \in batch : n # 1 => parent'[ids[n]] = ids[ParentOf[n]]
  BY <1>2, <1>3, <1>4, <1>5
<1>8. \A i \in Id : (\A n \in batch : ids[n] # i) => row'[i] = row[i] /\ parent'[i] = parent[i]
  BY <1>4, <1>5, <1>6
<1>9. \A k \in Id \X Role :
         ref'[k] = IF \E n \in Media : ids[n] = k[1] /\ <<n, k[2]>> \in staged
                   THEN <<src[c], CHOOSE n \in Media : ids[n] = k[1]>> ELSE ref[k]
  BY DEF CommitBatch, CommittedRefs
<1>10. ASSUME NEW n \in Media, NEW r \in Role, <<n, r>> \in staged
       PROVE  ref'[<<ids[n], r>>] = <<src[c], n>>
  <2>1. ids[n] # None /\ ids[n] \in Id
    BY <1>1, <1>2, <1>10 DEF BatchOK
  <2>2. \A m \in Media : ids[m] = ids[n] <=> m = n
    BY <1>2, <2>1
  <2>3. (CHOOSE m \in Media : ids[m] = ids[n]) = n
    BY <2>2
  <2> QED BY <1>9, <1>10, <2>1, <2>3
<1>11. ASSUME NEW i \in Id, NEW r \in Role, \A n \in Media : ids[n] = i => <<n, r>> \notin staged
       PROVE  ref'[<<i, r>>] = ref[<<i, r>>]
  BY <1>9, <1>11
<1>12. \A n \in Ordinal : map'[n] = IF n \in batch THEN ids[n] ELSE map[n]
  BY DEF CommitBatch, Mapped
<1> QED BY <1>7, <1>8, <1>10, <1>11, <1>12

\* The mapping after a batch: the identities given so far, and behind them what
\* an earlier attempt had mapped.
LEMMA BatchMaps ==
    ASSUME Inv, NEW c \in Converter, pc[c] \in Copying, CommitBatch(c)
    PROVE  /\ \A n \in Ordinal : map'[n] = IF ids[n] # None THEN ids[n] ELSE map[n]
           /\ \A n \in Ordinal : map[n] # None => map'[n] = map[n]
           /\ OneToOne(map)'
<1>1. IdsOK(c) /\ BatchOK(c) /\ OneToOne(map) /\ OneToOne(ids)
  BY CopierKnows DEF MapOK, IdsOK
<1>2. \A n \in Ordinal : map'[n] = IF n \in batch THEN ids[n] ELSE map[n]
  BY BatchWrites
<1>3. \A n \in Ordinal : map'[n] = IF ids[n] # None THEN ids[n] ELSE map[n]
  BY <1>1, <1>2 DEF BatchOK, IdsOK
<1>4. \A n \in Ordinal : map[n] # None => map'[n] = map[n]
  BY <1>1, <1>3 DEF IdsOK
<1>5. map'[1] \in {None, RootId}
  BY <1>1, <1>3, ShapeAssumption DEF OneToOne, Ordinal
<1>6. \A a, b \in Ordinal : map'[a] # None /\ map'[a] = map'[b] => a = b
  <2>1. /\ \A a, b \in Ordinal : ids[a] # None /\ ids[a] = map[b] => a = b
        /\ \A a, b \in Ordinal : ids[a] # None /\ ids[a] = ids[b] => a = b
        /\ \A a, b \in Ordinal : map[a] # None /\ map[a] = map[b] => a = b
    BY <1>1 DEF IdsOK, OneToOne
  <2> QED BY <1>3, <2>1
<1>7. \A a, b \in Ordinal : a < b /\ map'[b] # None => map'[a] # None
  <2>1. /\ \A a, b \in Ordinal : a < b /\ ids[b] # None => ids[a] # None
        /\ \A a, b \in Ordinal : a < b /\ map[b] # None => map[a] # None
    BY <1>1 DEF OneToOne
  <2> QED BY <1>3, <1>4, <2>1
<1> QED BY <1>3, <1>4, <1>5, <1>6, <1>7 DEF OneToOne

\* After a batch the tree on disk is again the mapped nodes and nothing else.
LEMMA BatchCopies ==
    ASSUME Inv, NEW c \in Converter, pc[c] \in {"mapping", "counting"}, CommitBatch(c)
    PROVE  CopiedTo(map, marker)'
<1>0. pc[c] \in Copying
  BY DEF Copying
<1>1. /\ TypeOK /\ IdsOK(c) /\ BatchOK(c) /\ OneToOne(map) /\ CopiedTo(map, marker)
      /\ marker = src[c] /\ src[c] \in Source /\ OneToOne(ids)
  BY <1>0, CopierKnows DEF MapOK, IdsOK
<1>2. /\ \A n \in Ordinal : map'[n] = IF n \in batch THEN ids[n] ELSE map[n]
      /\ \A n \in Ordinal : map[n] # None => map'[n] = map[n]
      /\ \A n \in Ordinal : map'[n] = IF ids[n] # None THEN ids[n] ELSE map[n]
  BY <1>0, BatchWrites, BatchMaps
<1>3. marker' = src[c]
  BY <1>1 DEF CommitBatch
<1>4. /\ batch \subseteq Ordinal /\ \A n \in batch : ids[n] # None /\ ids[n] \in Id
      /\ Media \subseteq Ordinal /\ Derived \subseteq Media
      /\ \A a, b \in Ordinal : ids[a] # None /\ ids[a] = ids[b] => a = b
      /\ \A n \in Ordinal : map[n] # None => map[n] \in Id
  BY <1>1, ShapeAssumption DEF BatchOK, TypeOK, Media, OneToOne
<1>5. \A n \in Ordinal : <<src[c], n>> # None
  BY <1>1, NoneAssumption DEF Content
<1>6. ASSUME NEW n \in Ordinal, n # 1
      PROVE  ParentOf[n] \in Ordinal /\ ParentOf[n] < n
  BY <1>6, ShapeAssumption
<1>7. ASSUME NEW n \in Ordinal, n \in batch
      PROVE  /\ row'[ids[n]] = <<src[c], n>>
             /\ n # 1 => parent'[ids[n]] = map'[ParentOf[n]]
             /\ ref'[<<ids[n], "original">>] = IF n \in Media THEN <<src[c], n>> ELSE None
             /\ ref'[<<ids[n], "derived">>] = IF n \in Derived THEN <<src[c], n>> ELSE None
  <2>1. row'[ids[n]] = <<src[c], n>>
    BY <1>0, <1>7, BatchWrites
  <2>2. ASSUME n # 1 PROVE parent'[ids[n]] = map'[ParentOf[n]]
    <3>1. parent'[ids[n]] = ids[ParentOf[n]]
      BY <1>0, <1>7, <2>2, BatchWrites
    <3>2. ids[ParentOf[n]] # None
      BY <1>1, <1>4, <1>6, <1>7, <2>2 DEF OneToOne
    <3> QED BY <1>2, <1>6, <2>2, <3>1, <3>2
  <2>3. \A m \in Media : ids[m] = ids[n] => m = n
    BY <1>4, <1>7
  <2>4. ASSUME NEW r \in Role, <<n, r>> \notin staged
        PROVE  ref'[<<ids[n], r>>] = ref[<<ids[n], r>>]
    BY <1>0, <1>4, <1>7, <2>3, <2>4, BatchWrites
  <2>5. CASE map[n] = None
    <3>1. \A b \in Ordinal : ids[n] # map[b]
      BY <1>1, <1>4, <1>7, <2>5 DEF IdsOK
    <3>2. \A r \in Role : ref[<<ids[n], r>>] = None
      BY <1>1, <1>4, <1>7, <3>1 DEF CopiedTo
    <3>3. /\ n \in Media => <<n, "original">> \in staged
          /\ n \in Derived => <<n, "derived">> \in staged
      <4>1. Passed(c, n, {"derived", "counting"}) /\ Passed(c, n, {"counting"})
        <5>1. CASE pc[c] = "counting"
          BY <5>1 DEF Passed
        <5>2. CASE pc[c] = "mapping"
          <6>1. n <= cursor - 1 /\ n \in Int /\ cursor \in Int
            BY <1>1, <1>4, <1>7, <5>2, ShapeAssumption DEF IdsOK, Reached, Ordinal, TypeOK
          <6> QED BY <6>1 DEF Passed
        <5> QED BY <5>1, <5>2
      <4> QED BY <1>1, <1>7, <2>5, <4>1 DEF BatchOK
    <3>4. "original" \in Role /\ "derived" \in Role
      BY DEF Role
    <3>5. ref'[<<ids[n], "original">>] = IF n \in Media THEN <<src[c], n>> ELSE None
      <4>1. CASE n \in Media
        BY <1>0, <3>3, <3>4, <4>1, BatchWrites
      <4>2. CASE n \notin Media
        <5>1. <<n, "original">> \notin staged
          BY <1>1, <4>2 DEF TypeOK
        <5> QED BY <2>4, <3>2, <3>4, <4>2, <5>1
      <4> QED BY <4>1, <4>2
    <3>6. ref'[<<ids[n], "derived">>] = IF n \in Derived THEN <<src[c], n>> ELSE None
      <4>1. CASE n \in Derived
        BY <1>0, <1>4, <3>3, <3>4, <4>1, BatchWrites
      <4>2. CASE n \notin Derived
        <5>1. <<n, "derived">> \notin staged
          BY <1>1, <3>4, <4>2 DEF TypeOK, BatchOK
        <5> QED BY <2>4, <3>2, <3>4, <4>2, <5>1
      <4> QED BY <4>1, <4>2
    <3> QED BY <2>1, <2>2, <3>5, <3>6
  <2>6. CASE map[n] # None
    <3>1. ids[n] = map[n]
      BY <1>1, <1>4, <1>7, <2>6 DEF IdsOK
    <3>2. \A r \in Role : <<n, r>> \notin staged
      BY <1>1, <2>6 DEF BatchOK, TypeOK
    <3>3. ASSUME NEW r \in Role PROVE ref'[<<ids[n], r>>] = ref[<<map[n], r>>]
      <4>1. ref'[<<ids[n], r>>] = ref[<<ids[n], r>>]
        BY <2>4, <3>2
      <4> QED BY <3>1, <4>1
    <3> QED BY <1>1, <2>1, <2>2, <2>6, <3>3 DEF CopiedTo, Role
  <2> QED BY <2>5, <2>6
<1>8. ASSUME NEW n \in Ordinal, n \notin batch, map[n] # None
      PROVE  /\ row'[map[n]] = <<src[c], n>>
             /\ n # 1 => parent'[map[n]] = map'[ParentOf[n]]
             /\ ref'[<<map[n], "original">>] = IF n \in Media THEN <<src[c], n>> ELSE None
             /\ ref'[<<map[n], "derived">>] = IF n \in Derived THEN <<src[c], n>> ELSE None
  <2>1. \A m \in Ordinal : ids[m] = map[n] => m = n
    BY <1>1, <1>8 DEF IdsOK
  <2>2. row'[map[n]] = row[map[n]] /\ parent'[map[n]] = parent[map[n]]
    BY <1>0, <1>4, <1>8, <2>1, BatchWrites
  <2>3. \A r \in Role : ref'[<<map[n], r>>] = ref[<<map[n], r>>]
    <3>1. \A m \in Media, r \in Role : ids[m] = map[n] => <<m, r>> \notin staged
      BY <1>1, <1>4, <1>8, <2>1 DEF BatchOK
    <3> QED BY <1>0, <1>4, <1>8, <3>1, BatchWrites
  <2>4. n # 1 => map'[ParentOf[n]] = map[ParentOf[n]]
    BY <1>1, <1>2, <1>6, <1>8 DEF OneToOne
  <2> QED BY <1>1, <1>8, <2>2, <2>3, <2>4 DEF CopiedTo, Role
<1>9. ASSUME NEW i \in Id PROVE row'[i] # None <=> i = RootId \/ \E n \in Ordinal : map'[n] = i
  <2>1. CASE \E n \in batch : ids[n] = i
    <3>1. PICK n \in batch : ids[n] = i
      BY <2>1
    <3>2. n \in Ordinal /\ map'[n] = i /\ row'[i] = <<src[c], n>>
      BY <1>2, <1>4, <1>7, <3>1
    <3> QED BY <1>5, <3>2
  <2>2. CASE \A n \in batch : ids[n] # i
    <3>1. row'[i] = row[i]
      BY <1>0, <2>2, BatchWrites
    <3>2. row[i] # None <=> i = RootId \/ \E n \in Ordinal : map[n] = i
      BY <1>1 DEF CopiedTo
    <3>3. i # None
      BY IdAssumption
    <3>4. (\E n \in Ordinal : map'[n] = i) <=> (\E n \in Ordinal : map[n] = i)
      BY <1>2, <2>2, <3>3
    <3> QED BY <3>1, <3>2, <3>4
  <2> QED BY <2>1, <2>2
<1>10. ASSUME NEW i \in Id, NEW r \in Role, ref'[<<i, r>>] # None PROVE \E n \in Ordinal : map'[n] = i
  <2>1. CASE \E n \in Media : ids[n] = i /\ <<n, r>> \in staged
    BY <1>1, <1>2, <1>4, <2>1 DEF BatchOK
  <2>2. CASE \A n \in Media : ids[n] = i => <<n, r>> \notin staged
    <3>1. ref[<<i, r>>] # None
      BY <1>0, <1>10, <2>2, BatchWrites
    <3>2. PICK n \in Ordinal : map[n] = i
      BY <1>1, <3>1 DEF CopiedTo
    <3> QED BY <1>2, <3>2, IdAssumption
  <2> QED BY <2>1, <2>2
<1>11. ASSUME NEW n \in Ordinal, map'[n] # None
       PROVE  /\ row'[map'[n]] = <<marker', n>>
              /\ n # 1 => parent'[map'[n]] = map'[ParentOf[n]]
              /\ ref'[<<map'[n], "original">>] = IF n \in Media THEN <<marker', n>> ELSE None
              /\ ref'[<<map'[n], "derived">>] = IF n \in Derived THEN <<marker', n>> ELSE None
  BY <1>2, <1>3, <1>7, <1>8, <1>11
<1> QED BY <1>9, <1>10, <1>11 DEF CopiedTo

\* A transaction of the copying converter keeps what the others rely on, and the
\* disk, if it keeps the mapping's own invariant and what was complete.
LEMMA TransactionRest ==
    ASSUME Inv, NEW c \in Converter, pc[c] \in Copying \cup {"cleaning"}, Alone(c),
           UNCHANGED <<dest, edited, user, marker>>, MapOK', Complete => Complete',
           JobOK(c)', CopyOK(c)', staged' = {}
    PROVE  Rest'
<1>1. JobOK(c) /\ DiskInv /\ pc[c] \in Holding /\ pc[c] # "idle"
  BY DEF Inv, JobInv, Holding, Copying
<1>2. marker # None /\ dest = "vault"
  BY <1>1, IdAssumption DEF JobOK, DiskInv
<1>3. DiskInv'
  BY <1>1, <1>2 DEF DiskInv
<1>4. ASSUME NEW d \in Converter \ {c} PROVE JobOK(d)' /\ CopyOK(d)'
  <2>1. pc[d] \notin Holding /\ pc'[d] = pc[d] /\ src'[d] = src[d] /\ JobOK(d)
    BY <1>1, OneHolder DEF Alone, Inv, JobInv
  <2> QED BY <1>2, <2>1 DEF JobOK, CopyOK, Holding
<1> QED BY <1>3, <1>4 DEF Rest, JobInv, CopyInv

\* A batch that is committed, with the cursor moved past its last node.
LEMMA RestCommit ==
    ASSUME Inv, NEW c \in Converter, CommitBatch(c),
           \/ pc[c] = "counting" /\ cursor' = cursor + 1 /\ Goto(c, "mapping")
           \/ pc[c] = "mapping" /\ UNCHANGED <<cursor, pc>>
    PROVE  Rest'
<1>1. pc[c] \in Copying /\ pc[c] \in {"mapping", "counting"}
  BY DEF Copying
<1>2. TypeOK /\ IdsOK(c) /\ JobOK(c)
  BY <1>1, CopierKnows
<1>3. /\ UNCHANGED <<dest, edited, user, marker, settings, garbage, src, resumed, ids>>
      /\ batch' = {} /\ staged' = {} /\ pc'[c] = "mapping" /\ Alone(c)
  BY <1>2 DEF CommitBatch, person, Goto, TypeOK, Alone
<1>4. /\ \A n \in Ordinal : map'[n] = IF ids[n] # None THEN ids[n] ELSE map[n]
      /\ \A n \in Ordinal : map[n] # None => map'[n] = map[n]
  BY <1>1, BatchMaps
<1>5. MapOK'
  BY <1>1, BatchMaps, BatchCopies DEF MapOK
<1>6. Complete => Complete'
  BY <1>3, <1>4 DEF Complete
<1>7. JobOK(c)'
  BY <1>1, <1>2, <1>3 DEF JobOK, Copying
<1>8. CopyOK(c)'
  <2>1. Reached(c)' = Reached(c)
    BY <1>2, <1>3, ShapeAssumption DEF Reached, TypeOK
  <2>2. OneToOne(ids)' /\ \A n \in Ordinal : ids'[n] # None <=> n <= Reached(c)'
    BY <1>2, <1>3, <2>1 DEF IdsOK, OneToOne
  <2>3. /\ \A a, b \in Ordinal : ids[a] # None /\ ids[a] = ids[b] => a = b
        /\ \A a, b \in Ordinal : ids[a] # None /\ ids[a] = map[b] => a = b
    BY <1>2 DEF IdsOK, OneToOne
  <2>4. IdsOK(c)'
    BY <1>3, <1>4, <2>2, <2>3 DEF IdsOK
  <2>5. BatchOK(c)'
    BY <1>3, <1>4 DEF BatchOK
  <2> QED BY <1>3, <2>4, <2>5 DEF CopyOK
<1> QED BY <1>1, <1>3, <1>5, <1>6, <1>7, <1>8, TransactionRest

\* When every node has been given its identity and no batch is open, all is mapped.
LEMMA AllMapped ==
    ASSUME TypeOK, NEW c \in Converter, IdsOK(c), BatchOK(c), batch = {}, Reached(c) = Nodes
    PROVE  /\ \A n \in Ordinal : ids[n] = map[n] /\ map[n] # None
           /\ staged = {}
<1>1. \A n \in Ordinal : ids[n] # None
  BY ShapeAssumption DEF IdsOK, Ordinal
<1>2. \A n \in Ordinal : map[n] # None
  BY <1>1 DEF BatchOK
<1>3. staged = {}
  BY DEF BatchOK, TypeOK
<1> QED BY <1>1, <1>2, <1>3 DEF IdsOK

\* The commit of the whole tree finds it as the batches left it.
LEMMA RestFinalize ==
    ASSUME Inv, NEW c \in Converter, Finalize(c)
    PROVE  Rest'
<1>1. pc[c] = "mapping" /\ pc[c] \in Copying /\ cursor > Nodes /\ batch = {}
  BY DEF Finalize, Copying
<1>2. TypeOK /\ IdsOK(c) /\ BatchOK(c) /\ JobOK(c) /\ MapOK /\ marker = src[c] /\ src[c] \in Source
  BY <1>1, CopierKnows
<1>3. cursor = Nodes + 1 /\ Reached(c) = Nodes
  BY <1>1, <1>2, ShapeAssumption DEF Reached, TypeOK
<1>4. (\A n \in Ordinal : ids[n] = map[n] /\ map[n] # None) /\ staged = {}
  BY <1>1, <1>2, <1>3, AllMapped
<1> DEFINE live == {ids[n] : n \in Ordinal}
<1>5. /\ row' = [i \in Id |-> IF i \in live
                              THEN <<src[c], CHOOSE n \in Ordinal : ids[n] = i>> ELSE None]
      /\ parent' = [i \in Id |-> IF i \in live THEN parent[i] ELSE None]
      /\ ref' = [k \in Id \X Role |-> IF k[1] \in live THEN ref[k] ELSE None]
      /\ garbage' = (garbage \/ \E k \in Id \X Role : k[1] \notin live /\ ref[k] # None)
  BY DEF Finalize
<1>6. /\ UNCHANGED <<dest, edited, user, marker, map, src, resumed, cursor, batch, ids, staged>>
      /\ settings' = src[c] /\ pc'[c] = "cleaning" /\ Alone(c)
  BY <1>2 DEF Finalize, person, copy, conversion, Goto, TypeOK, Alone
<1>7. /\ \A n \in Ordinal : map[n] \in live /\ map[n] \in Id
      /\ \A i \in live : \E n \in Ordinal : map[n] = i
  BY <1>2, <1>4 DEF TypeOK
<1>8. /\ \A i \in Id : (row[i] # None <=> i = RootId \/ \E n \in Ordinal : map[n] = i)
      /\ \A i \in Id, r \in Role : ref[<<i, r>>] # None => \E n \in Ordinal : map[n] = i
      /\ \A a, b \in Ordinal : map[a] # None /\ map[a] = map[b] => a = b
      /\ map[1] = RootId
  BY <1>2, <1>4, ShapeAssumption DEF MapOK, CopiedTo, OneToOne
<1>9. \A n \in Ordinal : row'[map[n]] = <<src[c], n>>
  <2>1. ASSUME NEW n \in Ordinal PROVE (CHOOSE m \in Ordinal : ids[m] = map[n]) = n
    BY <1>4, <1>8
  <2> QED BY <1>5, <1>7, <2>1
<1> HIDE DEF live
<1>10. garbage' = garbage
  BY <1>2, <1>5, <1>7, <1>8 DEF TypeOK
<1>11. CopiedTo(map, marker)'
  <2>1. ASSUME NEW n \in Ordinal, map'[n] # None
        PROVE  /\ row'[map'[n]] = <<marker', n>>
               /\ n # 1 => parent'[map'[n]] = map'[ParentOf[n]]
               /\ ref'[<<map'[n], "original">>] = IF n \in Media THEN <<marker', n>> ELSE None
               /\ ref'[<<map'[n], "derived">>] = IF n \in Derived THEN <<marker', n>> ELSE None
    BY <1>2, <1>4, <1>5, <1>6, <1>7, <1>9 DEF MapOK, CopiedTo, Role
  <2>2. ASSUME NEW i \in Id PROVE row'[i] # None <=> i = RootId \/ \E n \in Ordinal : map'[n] = i
    <3>1. CASE i \in live
      <4>1. PICK n \in Ordinal : map[n] = i
        BY <1>7, <3>1
      <4>2. <<src[c], n>> # None
        BY <1>2, NoneAssumption DEF Content
      <4> QED BY <1>6, <1>9, <4>1, <4>2
    <3>2. CASE i \notin live
      BY <1>5, <1>6, <1>7, <1>8, <3>2, ShapeAssumption
    <3> QED BY <3>1, <3>2
  <2>3. ASSUME NEW i \in Id, NEW r \in Role, ref'[<<i, r>>] # None
        PROVE  \E n \in Ordinal : map'[n] = i
    BY <1>5, <1>6, <1>8, <2>3
  <2> QED BY <2>1, <2>2, <2>3 DEF CopiedTo
<1>12. MapOK'
  BY <1>2, <1>6, <1>11 DEF MapOK, OneToOne
<1>13. Complete => Complete'
  BY <1>2, <1>6, <1>10 DEF Complete
<1>14. JobOK(c)'
  BY <1>1, <1>2, <1>6, <1>10 DEF JobOK, Copying
<1>15. CopyOK(c)'
  <2>1. Reached(c)' = Reached(c)
    BY <1>1, <1>6 DEF Reached
  <2>2. IdsOK(c)'
    BY <1>2, <1>6, <2>1 DEF IdsOK, OneToOne
  <2>3. BatchOK(c)'
    BY <1>1, <1>4, <1>6 DEF BatchOK
  <2> QED BY <1>1, <1>3, <1>6, <2>2, <2>3 DEF CopyOK
<1> QED BY <1>1, <1>4, <1>6, <1>12, <1>13, <1>14, <1>15, TransactionRest

-----------------------------------------------------------------------------
(* Letting the user in. *)

\* A complete conversion is a whole copy of the source its marker names.
LEMMA CompleteIsWhole == TypeOK /\ MapOK /\ Complete => Whole(marker)
<1> SUFFICES ASSUME TypeOK, MapOK, Complete PROVE Whole(marker)
  OBVIOUS
<1>1. map \in [Ordinal -> Id]
  BY DEF TypeOK, Complete
<1> QED BY <1>1 DEF MapOK, Complete, Whole

\* garbage_collect leaves a complete conversion without stray objects.
LEMMA RestCleanUp ==
    ASSUME Inv, NEW c \in Converter, CleanUp(c)
    PROVE  Rest'
<1>1. TypeOK /\ JobOK(c) /\ CopyOK(c) /\ DiskInv /\ pc[c] = "cleaning"
  BY DEF Inv, JobInv, CopyInv, CleanUp
<1>2. /\ src[c] \in Source /\ marker = src[c] /\ (garbage => resumed[c])
      /\ settings = src[c] /\ batch = {} /\ cursor = Nodes + 1 /\ IdsOK(c) /\ BatchOK(c)
  BY <1>1 DEF JobOK, CopyOK
<1>3. \A n \in Ordinal : map[n] # None
  <2>1. Reached(c) = Nodes
    BY <1>1, <1>2, ShapeAssumption DEF Reached
  <2> QED BY <1>1, <1>2, <2>1, AllMapped
<1>4. /\ UNCHANGED <<dest, edited, user, marker, map, row, parent, ref, settings, src>>
      /\ garbage' = (garbage /\ ~resumed[c]) /\ pc'[c] = "released" /\ Alone(c) /\ staged' = {}
  BY <1>1 DEF CleanUp, Collected, NoCopy, person, conversion, content, Goto, TypeOK, Alone
<1>5. MapOK /\ marker # None
  BY <1>1, <1>2, IdAssumption DEF DiskInv
<1>6. MapOK'
  BY <1>4, <1>5 DEF MapOK, OneToOne, CopiedTo
<1>7. Complete'
  BY <1>2, <1>3, <1>4 DEF Complete
<1>8. JobOK(c)' /\ CopyOK(c)'
  BY <1>2, <1>4, <1>5, <1>7 DEF JobOK, CopyOK, Copying
<1> QED BY <1>1, <1>4, <1>6, <1>7, <1>8, TransactionRest

\* The marker goes, and the copy it leaves behind is whole.
LEMMA RestFinish ==
    ASSUME Inv, NEW c \in Converter, FinishConversion(c)
    PROVE  Rest'
<1>1. TypeOK /\ JobInv /\ JobOK(c) /\ DiskInv /\ CopyInv /\ pc[c] = "finishing" /\ pc[c] \in Holding
  BY DEF Inv, JobInv, FinishConversion, Holding
<1>2. /\ UNCHANGED <<dest, edited, user, row, parent, ref, settings, garbage, src, staged>>
      /\ marker' = None /\ pc'[c] = "finished" /\ Alone(c)
  BY <1>1 DEF FinishConversion, person, content, copy, Goto, TypeOK, Alone
<1>3. dest = "vault"
  BY <1>1, PastCreation
<1>4. \A s : Whole(s)' <=> Whole(s)
  BY <1>2 DEF Whole, CopiedTo, OneToOne
<1>5. ASSUME NEW d \in Converter, pc[d] \in {"released", "reopened", "finishing"}
      PROVE  edited \/ Whole(src[d])
  <2>1. JobOK(d)
    BY <1>1 DEF JobInv
  <2>2. CASE marker # None
    BY <1>1, <1>5, <2>1, <2>2, CompleteIsWhole DEF JobOK, DiskInv
  <2> QED BY <1>5, <2>1, <2>2 DEF JobOK
<1>6. src[c] \in Source /\ ~garbage
  BY <1>1 DEF JobOK, DiskInv, Complete
<1>7. DiskInv'
  <2>1. ~edited => \E s \in Source : Whole(s)'
    BY <1>1, <1>4, <1>5, <1>6
  <2> QED BY <1>2, <1>3, <1>6, <2>1 DEF DiskInv
<1>8. ASSUME NEW d \in Converter \ {c} PROVE JobOK(d)' /\ CopyOK(d)'
  <2>1. pc[d] \notin Holding /\ pc'[d] = pc[d] /\ src'[d] = src[d] /\ JobOK(d)
    BY <1>1, <1>2, OneHolder DEF Alone, JobInv
  <2>2. ASSUME pc[d] = "released" PROVE edited' \/ Whole(src[d])'
    <3>1. Whole(src[d])' <=> Whole(src[d])
      BY <1>2, <2>1 DEF Whole, CopiedTo, OneToOne
    <3> QED BY <1>2, <1>5, <2>2, <3>1
  <2> QED BY <1>2, <2>1, <2>2 DEF JobOK, CopyOK, Holding
<1>9. JobOK(c)' /\ CopyOK(c)'
  BY <1>2, <1>6 DEF JobOK, CopyOK, Copying
<1>10. staged' # {} => \E d \in Converter : pc'[d] \in Copying
  BY <1>1, <1>2 DEF CopyInv, Alone, Copying
<1> QED BY <1>7, <1>8, <1>9, <1>10 DEF Rest, JobInv, CopyInv

\* The user edits only what no converter holds and no marker guards.
LEMMA RestEdits ==
    ASSUME Inv, UserEdits
    PROVE  Rest'
<1>1. DiskInv /\ JobInv /\ CopyInv /\ LockInv /\ user = "browsing" /\ holder = User
  BY DEF Inv, UserEdits, LockInv
<1>2. marker = None /\ dest = "vault"
  BY <1>1 DEF DiskInv
<1>3. /\ UNCHANGED <<dest, marker, garbage, pc, src, staged, user>> /\ edited' = TRUE
      /\ UNCHANGED <<copy, map, settings>>
  BY DEF UserEdits, job, copy, conversion
<1>4. DiskInv'
  BY <1>1, <1>2, <1>3 DEF DiskInv
<1>5. ASSUME NEW d \in Converter PROVE JobOK(d)' /\ CopyOK(d)'
  <2>1. pc[d] \notin Holding /\ JobOK(d) /\ CopyOK(d)
    BY <1>1, HolderAssumption DEF LockInv, JobInv, CopyInv
  <2> QED BY <1>2, <1>3, <2>1 DEF JobOK, CopyOK, Holding
<1> QED BY <1>1, <1>3, <1>4, <1>5 DEF Rest, JobInv, CopyInv

-----------------------------------------------------------------------------
(* The invariant. *)

\* It holds when nothing has been done yet.
LEMMA InvInit == Init => Inv
<1> SUFFICES ASSUME Init PROVE Inv
  OBVIOUS
<1>1. TypeOK
  BY TypeInit
<1>2. LockInv
  BY HolderAssumption DEF Init, LockInv, Holding, Copying
<1>3. DiskInv
  BY IdAssumption DEF Init, DiskInv
<1>4. JobInv /\ CopyInv
  BY DEF Init, JobInv, JobOK, CopyInv, CopyOK, Copying
<1> QED BY <1>1, <1>2, <1>3, <1>4 DEF Inv

\* A converter's step keeps it.
LEMMA RestWork == ASSUME Inv, NEW c \in Converter, Work(c) PROVE Rest'
<1>1. CASE CreateVault(c)
  BY <1>1, RestCreateVault
<1>2. CASE BeginConversion(c)
  BY <1>2, RestBegin
<1>3. CASE \/ AcceptMarker(c) \/ RejectMarker(c) \/ Reopen(c) \/ ReopenBusy(c)
           \/ Compare(c) \/ CompareFails(c) \/ OpenCopy(c)
  BY <1>3, QuietWork
<1>4. CASE CheckDestination(c)
  BY <1>4, RestCheck
<1>5. CASE MapNode(c)
  BY <1>5, RestMapNode
<1>6. CASE StageOriginal(c) \/ StageDerived(c)
  BY <1>6, RestStage
<1>7. ASSUME BatchRefused(c), pc[c] \in Copying PROVE Rest'
  BY <1>7, RestLoseCopy DEF BatchRefused, person
<1>8. CASE CommitFull(c)
  BY <1>7, <1>8, RestCommit DEF CommitFull, Copying
<1>9. CASE CommitTail(c)
  BY <1>7, <1>9, RestCommit DEF CommitTail, Copying
<1>10. CASE CountNode(c)
  BY <1>10, RestCount
<1>11. CASE Finalize(c)
  BY <1>11, RestFinalize
<1>12. CASE CleanUp(c)
  BY <1>12, RestCleanUp
<1>13. CASE FinishConversion(c)
  BY <1>13, RestFinish
<1> QED BY <1>1, <1>2, <1>3, <1>4, <1>5, <1>6, <1>8, <1>9, <1>10, <1>11, <1>12, <1>13 DEF Work

\* So does every step.
LEMMA InvStep == Inv /\ [Next]_vars => Inv'
<1> SUFFICES ASSUME Inv, [Next]_vars PROVE Inv'
  OBVIOUS
<1>1. TypeOK' /\ LockInv'
  BY TypeStep, LockStep
<1>2. Rest'
  <2>1. ASSUME NEW c \in Converter, Work(c) PROVE Rest'
    BY <2>1, RestWork
  <2>2. ASSUME NEW c \in Converter, Stop(c) PROVE Rest'
    BY <2>2, RestStop
  <2>3. ASSUME NEW c \in Converter, NEW s \in Source, Request(c, s) PROVE Rest'
    BY <2>3, RestStartNew, RestResume DEF Request
  <2>4. CASE UserEdits
    BY <2>4, RestEdits
  <2>5. CASE \/ UserUnlock \/ UserEnters \/ UserRefused \/ UserLeaves
             \/ \E c \in Converter : Refuse(c)
             \/ UNCHANGED vars
    BY <2>5, QuietRest
  <2> QED BY <2>1, <2>2, <2>3, <2>4, <2>5 DEF Next
<1> QED BY <1>1, <1>2 DEF Inv, Rest

\* The lock, the disk, every converter and the copy under way stay as described,
\* however many converters there are and wherever they are stopped.
THEOREM InvCorrect == Spec => []Inv
<1>1. Inv /\ [Next]_vars => Inv'
  BY InvStep
<1> QED BY InvInit, <1>1, PTL DEF Spec

\* Every variable of the conversion stays within its type.
THEOREM TypeCorrect == Spec => []TypeOK
<1>1. Inv => TypeOK
  BY DEF Inv
<1> QED BY InvCorrect, <1>1, PTL

-----------------------------------------------------------------------------
(* The properties of the runs follow. *)

\* As many identities as nodes are mapped to.
LEMMA ImageSize ==
    ASSUME NEW m, NEW S \in SUBSET Ordinal,
           \A a, b \in S : m[a] = m[b] => a = b
    PROVE  IsFiniteSet(S) /\ Cardinality({m[n] : n \in S}) = Cardinality(S)
<1> DEFINE T == {m[n] : n \in S}
           f == [n \in S |-> m[n]]
<1>1. IsFiniteSet(S)
  <2>1. IsFiniteSet(Ordinal)
    BY ShapeAssumption, FS_Interval DEF Ordinal
  <2> QED BY <2>1, FS_Subset
<1>2. f \in Bijection(S, T)
  <2>1. f \in [S -> T] /\ \A a, b \in S : f[a] = f[b] => a = b
    OBVIOUS
  <2>2. \A t \in T : \E n \in S : f[n] = t
    OBVIOUS
  <2> QED BY <2>1, <2>2 DEF Bijection, Injection, Surjection, IsInjective
<1>3. ExistsBijection(S, T)
  BY <1>2 DEF ExistsBijection
<1> QED BY <1>1, <1>3, FS_Bijection

\* Ordinals without a gap below them are counted by their number.
LEMMA Downward ==
    ASSUME NEW S \in SUBSET Ordinal, \A a, b \in Ordinal : a < b /\ b \in S => a \in S
    PROVE  S = 1 .. Cardinality(S)
<1> DEFINE T == {n \in Nat : n \in 1 .. Nodes + 1 /\ n \notin S}
           R == {ss \in Nat \X Nat : ss[1] < ss[2]}
<1>0. Nodes \in Nat
  BY ShapeAssumption
<1>1. T \subseteq Nat /\ Nodes + 1 \in T
  BY <1>0 DEF Ordinal
<1>2. IsWellFoundedOn(R, Nat)
  BY NatLessThanWellFounded, Zenon DEF OpToRel
<1>3. PICK t \in T : \A u \in T : ~(<<u, t>> \in R)
  <2> HIDE DEF T, R
  <2> QED BY <1>1, <1>2, WFMin, Zenon
<1>4. \A u \in T : t <= u
  <2> SUFFICES ASSUME NEW u \in T PROVE t <= u
    OBVIOUS
  <2>1. u \in Nat /\ t \in Nat /\ <<u, t>> \notin {ss \in Nat \X Nat : ss[1] < ss[2]}
    BY <1>3
  <2> QED BY <2>1
<1>5. t \in Nat /\ t >= 1 /\ t <= Nodes + 1 /\ t \notin S
  BY <1>0
<1>6. ASSUME NEW n \in 1 .. t - 1 PROVE n \in S
  BY <1>0, <1>4, <1>5
<1>7. ASSUME NEW n \in S PROVE n \in 1 .. t - 1
  <2>1. n \in Ordinal /\ n \in Nat /\ n >= 1 /\ n <= Nodes
    BY <1>0 DEF Ordinal
  <2>2. ~(t < n)
    <3> SUFFICES ASSUME t < n PROVE FALSE
      OBVIOUS
    <3>1. t \in Ordinal
      BY <1>0, <1>5, <2>1 DEF Ordinal
    <3> QED BY <1>5, <2>1, <3>1
  <2> QED BY <1>5, <2>1, <2>2
<1>8. S = 1 .. t - 1
  BY <1>6, <1>7
<1>9. Cardinality(1 .. t - 1) = t - 1
  BY <1>5, FS_Interval
<1> QED BY <1>8, <1>9

\* A whole copy passes the comparison, and the deep check finds no damage.
LEMMA WholeIsSame ==
    ASSUME TypeOK, NEW s \in Source, Whole(s)
    PROVE  SameAs(s) /\ ~Damaged
<1>1. PICK m \in [Ordinal -> Id] : OneToOne(m) /\ CopiedTo(m, s)
  BY DEF Whole
<1>2. \A n \in Ordinal : m[n] # None /\ m[n] \in Id /\ <<s, n>> # None
  BY IdAssumption, NoneAssumption DEF Content
<1>3. 1 \in Ordinal /\ m[1] = RootId
  BY <1>1, <1>2, ShapeAssumption DEF OneToOne, Ordinal
<1>4. \A n \in Ordinal :
         /\ row[m[n]] = <<s, n>> /\ m[n] \in Rows
         /\ n # 1 => parent[m[n]] = m[ParentOf[n]]
         /\ n \in Media => ref[<<m[n], "original">>] = <<s, n>>
         /\ n \in Derived => ref[<<m[n], "derived">>] = <<s, n>>
  <2> SUFFICES ASSUME NEW n \in Ordinal
               PROVE  /\ row[m[n]] = <<s, n>> /\ m[n] \in Rows
                      /\ n # 1 => parent[m[n]] = m[ParentOf[n]]
                      /\ n \in Media => ref[<<m[n], "original">>] = <<s, n>>
                      /\ n \in Derived => ref[<<m[n], "derived">>] = <<s, n>>
    OBVIOUS
  <2> QED BY <1>1, <1>2 DEF CopiedTo, Rows
<1>5. ASSUME NEW n \in Ordinal
      PROVE  \E i \in Rows :
                /\ row[i] = <<s, n>>
                /\ IF n = 1 THEN i = RootId
                            ELSE parent[i] # None /\ row[parent[i]] = <<s, ParentOf[n]>>
                /\ n \in Media => ref[<<i, "original">>] = <<s, n>>
                /\ n \in Derived => ref[<<i, "derived">>] = <<s, n>>
  <2>1. n # 1 => ParentOf[n] \in Ordinal
    BY ShapeAssumption
  <2>2. n # 1 => parent[m[n]] # None /\ row[parent[m[n]]] = <<s, ParentOf[n]>>
    BY <1>2, <1>4, <2>1
  <2>3. m[n] \in Rows
    BY <1>4
  <2> QED BY <1>3, <1>4, <2>2, <2>3
<1>6. Rows = {m[n] : n \in Ordinal}
  <2>1. \A i \in Id : row[i] # None => \E n \in Ordinal : m[n] = i
    BY <1>1, <1>3 DEF CopiedTo
  <2>2. \A i \in Rows : \E n \in Ordinal : m[n] = i
    BY <2>1 DEF Rows
  <2> QED BY <1>4, <2>2
<1>7. Cardinality(Rows) = Nodes
  <2>1. \A a, b \in Ordinal : m[a] = m[b] => a = b
    BY <1>1, <1>2 DEF OneToOne
  <2>2. Cardinality(Ordinal) = Nodes
    BY ShapeAssumption, FS_Interval DEF Ordinal
  <2> QED BY <1>6, <2>1, <2>2, ImageSize, ZenonT(40)
<1>8. ~Damaged
  <2> SUFFICES ASSUME NEW i \in Rows, NEW n \in Media, row[i] \in Source \X {n},
                      ref[<<i, "original">>] = None
               PROVE  FALSE
    BY DEF Damaged
  <2>1. PICK a \in Ordinal : m[a] = i
    BY <1>6
  <2>2. a = n
    <3>1. <<s, a>> \in Source \X {n}
      BY <1>4, <2>1
    <3> QED BY <3>1
  <2> QED BY <1>2, <1>4, <2>1, <2>2
<1> QED BY <1>5, <1>7, <1>8 DEF SameAs, Whole

\* Whatever the user browses is a complete copy, or the empty vault a stopped
\* creation left: unlock_directory asks for the marker, and the marker goes only
\* after the comparison.
THEOREM OpensOnlyWholeTheorem == Spec => []OpensOnlyWhole
<1>1. Inv => OpensOnlyWhole
  <2> SUFFICES ASSUME Inv, user = "browsing", ~edited
               PROVE  Empty \/ \E s \in Source : SameAs(s)
    BY DEF OpensOnlyWhole
  <2>1. TypeOK /\ (Untouched \/ \E s \in Source : Whole(s))
    BY DEF Inv, DiskInv
  <2>2. CASE Untouched
    BY <2>2, IdAssumption, NoneAssumption DEF Untouched, Empty, Rows
  <2> QED BY <2>1, <2>2, WholeIsSame
<1> QED BY InvCorrect, <1>1, PTL

\* What interrupted batches left on disk is a prefix of the source in depth-first
\* order, mapped one to one, each node with its parent and all of its objects.
THEOREM CommittedPrefixTheorem == Spec => []CommittedPrefix
<1>1. Inv => CommittedPrefix
  <2> SUFFICES ASSUME Inv, marker # None PROVE CommittedPrefix
    BY DEF CommittedPrefix
  <2> DEFINE mapped == {n \in Ordinal : map[n] # None}
  <2>1. TypeOK /\ OneToOne(map) /\ CopiedTo(map, marker)
    BY DEF Inv, DiskInv, MapOK
  <2>2. mapped = 1 .. Cardinality(mapped)
    <3>1. \A a, b \in Ordinal : a < b /\ b \in mapped => a \in mapped
      BY <2>1 DEF OneToOne
    <3> QED BY <3>1, Downward
  <2>3. Rows = {map[n] : n \in mapped} \cup {RootId}
    <3>1. \A i \in Id : row[i] # None <=> i = RootId \/ \E n \in Ordinal : map[n] = i
      BY <2>1 DEF CopiedTo
    <3>2. \A i \in Rows : i = RootId \/ \E n \in mapped : map[n] = i
      BY <3>1, IdAssumption DEF Rows
    <3>3. \A n \in mapped : map[n] \in Rows
      BY <2>1, <3>1 DEF Rows, TypeOK
    <3>4. RootId \in Rows
      BY <3>1, IdAssumption DEF Rows
    <3> QED BY <3>2, <3>3, <3>4
  <2>4. Cardinality({map[n] : n \in mapped}) = Cardinality(mapped)
    <3>1. \A a, b \in mapped : map[a] = map[b] => a = b
      BY <2>1 DEF OneToOne
    <3>2. mapped \in SUBSET Ordinal
      OBVIOUS
    <3> HIDE DEF mapped
    <3> QED BY <3>1, <3>2, ImageSize
  <2>5. \A n \in mapped :
           /\ row[map[n]] = <<marker, n>>
           /\ n # 1 => parent[map[n]] = map[ParentOf[n]]
           /\ ref[<<map[n], "original">>] = IF n \in Media THEN <<marker, n>> ELSE None
           /\ ref[<<map[n], "derived">>] = IF n \in Derived THEN <<marker, n>> ELSE None
    BY <2>1 DEF CopiedTo
  <2> QED BY <2>2, <2>3, <2>4, <2>5 DEF CommittedPrefix
<1> QED BY InvCorrect, <1>1, PTL

\* The comparison on the reopened vault finds no difference, however often the
\* conversion was stopped and resumed, unless the user has edited the copy since.
THEOREM CopyIsFaithfulTheorem == Spec => []CopyIsFaithful
<1>1. Inv => CopyIsFaithful
  <2> SUFFICES ASSUME Inv, NEW c \in Converter, pc[c] = "reopened", ~edited PROVE Verified(c)
    BY DEF CopyIsFaithful
  <2>1. TypeOK /\ DiskInv /\ JobOK(c)
    BY DEF Inv, JobInv
  <2>2. src[c] \in Source /\ Whole(src[c])
    <3>1. CASE marker # None
      BY <2>1, <3>1, CompleteIsWhole DEF JobOK, DiskInv
    <3> QED BY <2>1, <3>1 DEF JobOK
  <2> QED BY <2>1, <2>2, WholeIsSame DEF Verified
<1> QED BY InvCorrect, <1>1, PTL

\* Objects of attempts that did not reach their transaction are gone when the
\* marker is.
THEOREM FinishedWithoutGarbageTheorem == Spec => []FinishedWithoutGarbage
<1>1. Inv => FinishedWithoutGarbage
  BY DEF Inv, DiskInv, FinishedWithoutGarbage
<1> QED BY InvCorrect, <1>1, PTL

\* Once the user has edited the vault, no conversion writes to its tree again.
THEOREM EditsSurviveTheorem == Spec => EditsSurvive
<1>1. Inv /\ [Next]_vars => [edited => UNCHANGED content]_vars
  <2> SUFFICES ASSUME Inv, Next, edited PROVE UNCHANGED content
    BY DEF vars
  <2>1. dest = "vault" /\ marker = None
    BY DEF Inv, DiskInv
  <2>2. ASSUME NEW c \in Converter PROVE pc[c] \notin Copying \cup {"creating"}
    <3>1. JobOK(c)
      BY DEF Inv, JobInv
    <3> QED BY <2>1, <3>1, IdAssumption DEF JobOK, Copying
  <2>3. ASSUME NEW c \in Converter, Work(c) PROVE UNCHANGED content
    <3>1. ~CreateVault(c) /\ ~CommitFull(c) /\ ~CommitTail(c) /\ ~Finalize(c)
      BY <2>2 DEF CreateVault, CommitFull, CommitTail, Finalize, Copying
    <3> QED BY <2>3, <3>1
        DEF Work, BeginConversion, AcceptMarker, RejectMarker, CheckDestination, MapNode,
            StageOriginal, StageDerived, Stage, CountNode, CleanUp, Reopen, ReopenBusy, Compare,
            CompareFails, FinishConversion, OpenCopy, store
  <2>4. ASSUME NEW c \in Converter, Stop(c) PROVE UNCHANGED content
    BY <2>4 DEF Stop
  <2>5. ASSUME NEW c \in Converter, Refuse(c) \/ \E s \in Source : Request(c, s)
        PROVE  UNCHANGED content
    BY <2>5 DEF Refuse, Request, StartNew, Resume, store
  <2>6. CASE UserUnlock \/ UserEnters \/ UserRefused \/ UserEdits \/ UserLeaves
    BY <2>6 DEF UserUnlock, UserEnters, UserRefused, UserEdits, UserLeaves, store
  <2> QED BY <2>3, <2>4, <2>5, <2>6 DEF Next
<1> QED BY InvCorrect, <1>1, PTL DEF Spec, EditsSurvive
=============================================================================
