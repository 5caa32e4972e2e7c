---------------------------- MODULE V3StoreProofs ----------------------------
(***************************************************************************)
(* Theorems about V3Store for every set of nodes and shards, every number  *)
(* of objects, faults and crashes, and any number of readers.              *)
(***************************************************************************)
EXTENDS V3Store, WellFoundedInduction, TLAPS

(***************************************************************************)
(* The staged objects of a node have a last one.                           *)
(***************************************************************************)

\* The order of allocation lets "the last staged object" be spoken of.
LEMMA LastStaged ==
    ASSUME NEW S, S \subseteq Obj, S # {}
    PROVE  Max(S) \in S /\ \A o \in S : o <= Max(S)
<1> DEFINE T == {MaxObj - o : o \in S}
<1>1. S \subseteq Int /\ MaxObj \in Int
  BY MaxObjAssumption DEF Obj
<1>2. T \subseteq Nat /\ T # {}
  <2>1. \A o \in S : MaxObj - o \in Nat
    BY MaxObjAssumption DEF Obj
  <2> QED BY <2>1
<1> DEFINE R == {ss \in Nat \X Nat : ss[1] < ss[2]}
<1>a. IsWellFoundedOn(R, Nat)
  BY NatLessThanWellFounded, Zenon DEF OpToRel
<1>3. PICK t \in T : \A u \in T : ~(<<u, t>> \in R)
  <2> HIDE DEF T, R
  <2> QED BY <1>2, <1>a, WFMin, Zenon
<1>4. \A u \in T : t <= u
  <2> SUFFICES ASSUME NEW u \in T PROVE t <= u
    OBVIOUS
  <2> HIDE DEF T
  <2>1. u \in Nat /\ t \in Nat
    BY <1>2, <1>3
  <2>2. <<u, t>> \notin {ss \in Nat \X Nat : ss[1] < ss[2]}
    BY <1>3
  <2> QED BY <2>1, <2>2
<1>5. PICK m \in S : t = MaxObj - m
  OBVIOUS
<1>6. \A o \in S : m >= o
  BY <1>1, <1>4, <1>5
<1> QED BY <1>1, <1>6 DEF Max

-----------------------------------------------------------------------------
(* Type correctness. *)

\* The state of a freshly created vault is well typed.
LEMMA TypeInit == Init => TypeOK
BY MaxObjAssumption, BoundsAssumption
DEF Init, TypeOK, Idle, NoRefs, NoReads, NoRead, FileState, ShardState, Life, StagePc, Key, Role, Obj, NoObj, NoKey

\* A session lost to lock, crash or power loss leaves well-typed variables behind.
LEMMA ForgetType == TypeOK /\ Forget =>
    /\ session' \in {"locked", "unlocked", "damaged"}
    /\ staged' \subseteq Obj
    /\ stagedIndex' \in [Key -> Obj \cup {NoObj}]
    /\ index' \in [Key -> Obj \cup {NoObj}]
    /\ op' \in [pc : StagePc \cup {"idle", "gc"}, key : Key \cup {NoKey},
               obj : Obj \cup {NoObj}, todo : SUBSET Obj]
    /\ op'.pc \notin StagePc
    /\ life' \in [Node -> Life]
    /\ treeOp' \in {"idle", "commit", "rethumb"}
    /\ reader' \in [Reader -> [pc : {"idle", "found", "failed"},
                              key : Key \cup {NoKey}, obj : Obj \cup {NoObj}]]
BY DEF Forget, TypeOK, Idle, NoRefs, NoReads, NoRead, Life, StagePc

\* A failing call stays within the budget of faults.
LEMMA FaultType == TypeOK /\ Fault => faults' \in 0 .. MaxFaults /\ crashes' \in 0 .. MaxCrashes
BY BoundsAssumption DEF Fault, TypeOK

\* A crash stays within the budget of crashes.
LEMMA CrashingType == TypeOK /\ Crashing => faults' \in 0 .. MaxFaults /\ crashes' \in 0 .. MaxCrashes
BY BoundsAssumption DEF Crashing, TypeOK

\* The rows a commit leaves, and the index rebuilt from them.
LEMMA SyncType ==
    TypeOK /\ SyncMetadata => dbNodes' \subseteq Node /\ ref' \in [Key -> Obj \cup {NoObj}]
<1> SUFFICES ASSUME TypeOK, SyncMetadata PROVE ref' \in [Key -> Obj \cup {NoObj}]
  BY DEF SyncMetadata, Live
<1>1. ASSUME NEW k \in Key, StagedFor(k) # {} PROVE Max(StagedFor(k)) \in Obj
  <2>1. StagedFor(k) \subseteq Obj
    BY DEF StagedFor, TypeOK
  <2> QED BY <1>1, <2>1, LastStaged
<1> QED BY <1>1 DEF SyncMetadata, TypeOK

\* Every operation and every failure keeps the types.
LEMMA TypeStep == TypeOK /\ [Next]_vars => TypeOK'
<1> SUFFICES ASSUME TypeOK, [Next]_vars PROVE TypeOK'
  OBVIOUS
<1> USE DEF vars, disk, db, volatile, tree, budget
<1>1. ASSUME NEW k \in Key, BeginStage(k) PROVE TypeOK'
  <2>1. next' \in Obj
    BY <1>1, MaxObjAssumption DEF BeginStage, TypeOK, Obj
  <2>2. next' \in 0 .. MaxObj
    BY <2>1 DEF Obj
  <2>3. op' \in [pc : StagePc \cup {"idle", "gc"}, key : Key \cup {NoKey},
                obj : Obj \cup {NoObj}, todo : SUBSET Obj]
        /\ op'.obj \in Obj /\ op'.key \in Key
    BY <1>1, <2>1 DEF BeginStage, StagePc
  <2>4. life' \in [Node -> Life] /\ treeOp' \in {"idle", "commit", "rethumb"}
    BY <1>1 DEF BeginStage, TypeOK, Life
  <2> QED BY <1>1, <2>1, <2>2, <2>3, <2>4 DEF BeginStage, TypeOK
<1>2. CASE WriteTemp
  BY <1>2 DEF WriteTemp, At, TypeOK, StagePc, FileState
<1>3. CASE SyncTemp
  BY <1>3 DEF SyncTemp, At, TypeOK, StagePc
<1>4. CASE MakeShard
  BY <1>4 DEF MakeShard, At, TypeOK, StagePc, ShardState
<1>5. CASE SyncObjectsDir
  BY <1>5 DEF SyncObjectsDir, At, TypeOK, StagePc, ShardState
<1>6. CASE Rename
  BY <1>6 DEF Rename, At, TypeOK, StagePc, FileState
<1>7. CASE FinishStage
  BY <1>7 DEF FinishStage, TypeOK, StagePc, Idle, SyncShard, TreeOwnerResumes, StagedLife, Life
<1>8. CASE AbortStage
  BY <1>8, FaultType DEF AbortStage, TypeOK, Idle, SyncShard, TreeOwnerResumes, Life, FileState, StagePc
<1>9. ASSUME NEW n \in Node, Attach(n) \/ Skip(n) \/ RemoveImage(n) PROVE TypeOK'
  BY <1>9 DEF Attach, Skip, RemoveImage, TypeOK, Life
<1>10. CASE RequestCommit
  BY <1>10 DEF RequestCommit, TypeOK
<1>11. CASE CommitMetadata
  BY <1>11, SyncType DEF CommitMetadata, RebuildObjectIndex, TypeOK
<1>12. CASE CommitUnread
  BY <1>12, SyncType, FaultType DEF CommitUnread, TypeOK
<1>13. CASE CommitFails
  BY <1>13, FaultType DEF CommitFails, TypeOK
<1>14. CASE BeginGc
  BY <1>14 DEF BeginGc, TypeOK, Collecting, StagePc, FileState, Garbage, Published
<1>15. CASE CleanupStaging
  BY <1>15 DEF CleanupStaging, TypeOK, FileState
<1>16. ASSUME NEW o \in Obj, CollectOne(o) \/ CollectFails(o) PROVE TypeOK'
  <2>1. CASE CollectOne(o)
    BY <2>1 DEF CollectOne, TypeOK, Idle, FileState, SyncShard, AfterGc, Collecting, StagePc
  <2>2. CASE CollectFails(o)
    BY <2>2, FaultType DEF CollectFails, TypeOK, Idle, FileState, StagePc
  <2> QED BY <1>16, <2>1, <2>2
<1>17. ASSUME NEW r \in Reader, (\E k \in Key : ReaderLookup(r, k)) \/ ReaderOpen(r) \/ ReaderGivesUp(r)
       PROVE TypeOK'
  BY <1>17 DEF ReaderLookup, ReaderOpen, ReaderGivesUp, TypeOK, NoRead, Lookup
<1>18. CASE Lock
  BY <1>18, ForgetType DEF Lock, TypeOK
<1>19. CASE Unlock
  BY <1>19 DEF Unlock, TypeOK, Life
<1>20. CASE Crash
  BY <1>20, ForgetType, CrashingType DEF Crash, TypeOK
<1>21. CASE PowerLoss
  BY <1>21, ForgetType, CrashingType DEF PowerLoss, TypeOK, Survivors, FileState, ShardState
<1>22. CASE UNCHANGED vars
  BY <1>22 DEF TypeOK
<1> QED BY <1>1, <1>2, <1>3, <1>4, <1>5, <1>6, <1>7, <1>8, <1>9, <1>10, <1>11, <1>12, <1>13,
           <1>14, <1>15, <1>16, <1>17, <1>18, <1>19, <1>20, <1>21, <1>22 DEF Next

\* Every variable of the store keeps its type, whatever fails or crashes.
THEOREM TypeCorrect == Spec => []TypeOK
BY TypeInit, TypeStep, PTL DEF Spec

-----------------------------------------------------------------------------
(* The inductive invariant. *)

\* Publication: what is in place, or may come back, is complete and in a shard
\* that will survive; each step of a staging finds what the last one left.
PublicationInv ==
    /\ \A o \in Obj : file[o] = "published" \/ o \in unsynced =>
          o \in whole /\ shard[ShardOf[o]] = "durable"
    /\ \A o \in Obj : o > next => file[o] = "absent" /\ o \notin unsynced
    /\ op.pc \in StagePc => op.obj = next
    /\ op.pc \in StagePc \ {"renamed"} => file[op.obj] # "published"
    /\ op.pc \in {"synced", "sharded", "ready", "renamed"} => op.obj \in whole
    /\ op.pc \in {"ready", "renamed"} => shard[ShardOf[op.obj]] = "durable"
    /\ op.pc = "renamed" => file[op.obj] = "published"
    /\ op.pc = "gc" => \A o \in op.todo : file[o] = "published"

\* Pinning: nothing referenced or staged is in the hands of a staging or of the
\* collector.
PinInv ==
    /\ StagedObjectsPinned
    /\ NoDanglingReference
    /\ \A o \in staged : o <= next
    /\ \A k \in Key : ref[k] <= next
    /\ op.pc \in StagePc =>
          /\ op.obj \notin staged
          /\ \A k \in Key : ref[k] # op.obj
          /\ owner[op.obj] = op.key
    /\ op.pc = "gc" => \A o \in op.todo : o \notin staged /\ \A k \in Key : ref[k] # o

Originals(n) == StagedFor(Original(n))

\* A node's original is a slot of its own: object rows are keyed by node and role.
LEMMA OriginalKey ==
    /\ \A n \in Node : Original(n) \in Key /\ Original(n)[1] = n
    /\ \A k \in Key : k[1] \in Node /\ k[2] \in Role /\ (k[2] = "original" => k = Original(k[1]))
BY DEF Original, Key, Role

\* A node on its way into the tree has a staged original, a node in the tree a
\* staged or a committed one.
OriginalsInv ==
    \A n \in Node :
        /\ life[n] \in {"has_original", "has_both"} => Originals(n) # {}
        /\ life[n] = "attached" => ref[Original(n)] # NoObj \/ Originals(n) # {}

\* The node being staged is nowhere else, or it keeps the tree's owner busy.
StagingInv ==
    op.pc \in StagePc =>
        IF op.key[2] = "thumb" /\ life[op.key[1]] = "attached" THEN treeOp = "rethumb"
        ELSE /\ life[op.key[1]] = "staging"
             /\ op.key[2] = "thumb" => Originals(op.key[1]) # {}

\* Nothing is committed for a node that was never in the tree, and the index
\* agrees with the database wherever nothing is staged over it.
IndexInv ==
    \A k \in Key :
        /\ life[k[1]] \notin {"attached", "gone"} =>
              k[1] \notin dbNodes /\ ref[k] = NoObj /\ index[k] = NoObj
        /\ life[k[1]] = "attached" /\ stagedIndex[k] = NoObj => index[k] = ref[k]

SessionInv ==
    /\ session = "locked" => staged = {} /\ op = Idle
    /\ session # "damaged"

TreeInv ==
    /\ StagedIndexIsLatest
    /\ CommittedMediaComplete
    /\ OriginalsInv
    /\ StagingInv
    /\ IndexInv
    /\ SessionInv

Inv == TypeOK /\ PublicationInv /\ PinInv /\ TreeInv

-----------------------------------------------------------------------------
(* Publication. *)

\* A freshly created store has published nothing.
LEMMA PublicationInit == Init => PublicationInv
BY DEF Init, PublicationInv, Idle, StagePc

\* Leaving the disk alone, and ending or not having a staging.
LEMMA PublicationKept ==
    ASSUME PublicationInv,
           UNCHANGED <<file, whole, unsynced, shard, next>>,
           op' = op \/ op'.pc = "idle"
    PROVE  PublicationInv'
BY DEF PublicationInv, StagePc

\* Each step of write_object, garbage_collect and a power loss keeps PublicationInv.
LEMMA PublicationStep == TypeOK /\ PublicationInv /\ [Next]_vars => PublicationInv'
<1> SUFFICES ASSUME TypeOK, PublicationInv, [Next]_vars PROVE PublicationInv'
  OBVIOUS
<1> USE DEF vars, disk, db, volatile, tree, budget
<1> DEFINE InPlace == \A o \in Obj : file[o] = "published" \/ o \in unsynced =>
                         o \in whole /\ shard[ShardOf[o]] = "durable"
           Unused == \A o \in Obj : o > next => file[o] = "absent" /\ o \notin unsynced
<1>0. /\ Obj \subseteq Int /\ next \in Int
      /\ \A o \in Obj : ShardOf[o] \in Shard
      /\ op.pc \in StagePc => op.obj \in Obj
  BY MaxObjAssumption, ShardAssumption DEF TypeOK, Obj
<1>1. ASSUME NEW k \in Key, BeginStage(k) PROVE PublicationInv'
  <2>1. next' \in Obj /\ next' > next
    BY <1>1, <1>0, MaxObjAssumption DEF BeginStage, TypeOK, Obj
  <2> QED BY <1>0, <1>1, <2>1 DEF BeginStage, PublicationInv, StagePc, TypeOK
<1>2. CASE WriteTemp
  BY <1>0, <1>2 DEF WriteTemp, At, PublicationInv, StagePc, TypeOK
<1>3. CASE SyncTemp
  BY <1>0, <1>3 DEF SyncTemp, At, PublicationInv, StagePc, TypeOK
<1>4. CASE MakeShard
  BY <1>0, <1>4 DEF MakeShard, At, PublicationInv, StagePc, TypeOK
<1>5. CASE SyncObjectsDir
  BY <1>0, <1>5 DEF SyncObjectsDir, At, PublicationInv, StagePc, TypeOK
<1>6. CASE Rename
  BY <1>0, <1>6 DEF Rename, At, PublicationInv, StagePc, TypeOK
<1>7. CASE FinishStage
  BY <1>0, <1>7 DEF FinishStage, PublicationInv, StagePc, TypeOK, SyncShard, Idle
<1>8. CASE AbortStage
  BY <1>0, <1>8 DEF AbortStage, PublicationInv, StagePc, TypeOK, SyncShard, Idle
<1>9. ASSUME NEW n \in Node, Attach(n) \/ Skip(n) \/ RemoveImage(n) PROVE PublicationInv'
  BY <1>9, PublicationKept DEF Attach, Skip, RemoveImage
<1>10. CASE RequestCommit \/ CommitMetadata \/ CommitUnread \/ CommitFails
  BY <1>10, PublicationKept DEF RequestCommit, CommitMetadata, CommitUnread, CommitFails
<1>11. CASE BeginGc
  BY <1>0, <1>11 DEF BeginGc, Collecting, PublicationInv, StagePc, TypeOK, Temps, Garbage, Published
<1>12. CASE CleanupStaging
  BY <1>0, <1>12 DEF CleanupStaging, Idle, PublicationInv, StagePc, TypeOK, Temps
<1>13. ASSUME NEW o \in Obj, CollectOne(o) PROVE PublicationInv'
  <2>1. /\ file' = file \/ file' = [file EXCEPT ![o] = "absent"]
        /\ unsynced' \subseteq unsynced
        /\ UNCHANGED <<whole, shard, next>>
    BY <1>13 DEF CollectOne, SyncShard
  <2>2. op' = Idle \/ op' = Collecting(op.todo \ {o})
    BY <1>13 DEF CollectOne, AfterGc
  <2>3. op'.pc \notin StagePc /\ (op'.pc = "gc" => op'.todo \subseteq op.todo \ {o})
    BY <2>2 DEF Idle, Collecting, StagePc
  <2>4. op.pc = "gc"
    BY <1>13 DEF CollectOne
  <2>5. InPlace' /\ Unused'
    BY <1>0, <2>1 DEF PublicationInv, TypeOK
  <2>6. op'.pc = "gc" => \A p \in op'.todo : file'[p] = "published"
    BY <1>0, <2>1, <2>3, <2>4, ZenonT(40) DEF PublicationInv, TypeOK
  <2> QED BY <2>1, <2>3, <2>5, <2>6 DEF PublicationInv, StagePc
<1>14. ASSUME NEW o \in Obj, CollectFails(o) PROVE PublicationInv'
  BY <1>0, <1>14 DEF CollectFails, Idle, PublicationInv, StagePc, TypeOK
<1>15. ASSUME NEW r \in Reader, (\E k \in Key : ReaderLookup(r, k)) \/ ReaderOpen(r) \/ ReaderGivesUp(r)
       PROVE PublicationInv'
  BY <1>15, PublicationKept DEF ReaderLookup, ReaderOpen, ReaderGivesUp
<1>16. CASE Lock \/ Unlock \/ Crash
  BY <1>16, PublicationKept DEF Lock, Unlock, Crash, Forget, Idle
<1>17. CASE PowerLoss
  <2>1. PICK lost \in SUBSET {s \in Shard : shard[s] = "volatile"},
             after \in [unsynced \cup Temps -> FileState] :
         /\ \A o \in DOMAIN after : after[o] \in Survivors(o)
         /\ file' = [o \in Obj |->
                       IF ShardOf[o] \in lost /\ file[o] = "published" THEN "absent"
                       ELSE IF o \in DOMAIN after THEN after[o] ELSE file[o]]
         /\ shard' = [s \in Shard |-> IF s \in lost THEN "absent"
                                      ELSE IF shard[s] = "volatile" THEN "durable"
                                      ELSE shard[s]]
    BY <1>17, Zenon DEF PowerLoss
  <2>2. /\ unsynced' = {} /\ whole' = whole /\ next' = next /\ op' = Idle
    BY <1>17 DEF PowerLoss, Forget
  <2>3. ASSUME NEW o \in Obj, file'[o] = "published" PROVE file[o] = "published" \/ o \in unsynced
    <3>1. o \in unsynced \cup Temps => after[o] \in Survivors(o)
      BY <2>1
    <3> QED BY <2>1, <2>3, <3>1 DEF Survivors, Temps
  <2>4. ASSUME NEW o \in Obj, file[o] = "absent", o \notin unsynced PROVE file'[o] = "absent"
    BY <2>1, <2>4 DEF Temps
  <2>5. InPlace'
    BY <1>0, <2>1, <2>2, <2>3 DEF PublicationInv
  <2>6. Unused'
    BY <2>2, <2>4 DEF PublicationInv
  <2> QED BY <2>2, <2>5, <2>6 DEF PublicationInv, Idle, StagePc
<1>18. CASE UNCHANGED vars
  BY <1>18, PublicationKept
<1> QED BY <1>1, <1>2, <1>3, <1>4, <1>5, <1>6, <1>7, <1>8, <1>9, <1>10, <1>11, <1>12, <1>13,
           <1>14, <1>15, <1>16, <1>17, <1>18 DEF Next

-----------------------------------------------------------------------------
(* Pinning. *)

\* A durable object stays durable unless the collector holds it.
LEMMA DurableStep ==
    ASSUME TypeOK, PublicationInv, [Next]_vars,
           NEW o \in Obj, Durable(o), op.pc = "gc" => o \notin op.todo
    PROVE  Durable(o)'
<1> USE DEF vars, disk, db, volatile, tree, budget, Durable, Published
<1>0. /\ ShardOf[o] \in Shard
      /\ op.pc \in StagePc => op.obj \in Obj
      /\ op.pc \in StagePc \ {"renamed"} => op.obj # o
  BY ShardAssumption DEF TypeOK, PublicationInv
<1>1. ASSUME NEW k \in Key, BeginStage(k) PROVE Durable(o)'
  BY <1>1 DEF BeginStage
<1>2. CASE WriteTemp \/ SyncTemp \/ MakeShard \/ SyncObjectsDir \/ Rename
  BY <1>0, <1>2 DEF WriteTemp, SyncTemp, MakeShard, SyncObjectsDir, Rename, TypeOK, StagePc
<1>3. CASE FinishStage
  BY <1>3 DEF FinishStage, SyncShard
<1>4. CASE AbortStage
  BY <1>0, <1>4 DEF AbortStage, SyncShard, TypeOK
<1>5. ASSUME NEW n \in Node, Attach(n) \/ Skip(n) \/ RemoveImage(n) PROVE Durable(o)'
  BY <1>5 DEF Attach, Skip, RemoveImage
<1>6. CASE RequestCommit \/ CommitMetadata \/ CommitUnread \/ CommitFails
  BY <1>6 DEF RequestCommit, CommitMetadata, CommitUnread, CommitFails
<1>7. CASE BeginGc \/ CleanupStaging
  BY <1>7 DEF BeginGc, CleanupStaging, Temps
<1>8. ASSUME NEW p \in Obj, CollectOne(p) \/ CollectFails(p) PROVE Durable(o)'
  BY <1>8 DEF CollectOne, CollectFails, SyncShard, TypeOK
<1>9. ASSUME NEW r \in Reader, (\E k \in Key : ReaderLookup(r, k)) \/ ReaderOpen(r) \/ ReaderGivesUp(r)
      PROVE Durable(o)'
  BY <1>9 DEF ReaderLookup, ReaderOpen, ReaderGivesUp
<1>10. CASE Lock \/ Unlock \/ Crash
  BY <1>10 DEF Lock, Unlock, Crash
<1>11. CASE PowerLoss
  BY <1>0, <1>11 DEF PowerLoss, Temps
<1>12. CASE UNCHANGED vars
  BY <1>12
<1> QED BY <1>1, <1>2, <1>3, <1>4, <1>5, <1>6, <1>7, <1>8, <1>9, <1>10, <1>11, <1>12 DEF Next

\* What a step may do to what pins an object: the references, the staged
\* objects, the staging under way and the collector's candidates.
Allocation ==
    /\ next' \in {next, next + 1}
    /\ \A o \in Obj : o <= next => owner'[o] = owner[o]
Referencing == \A k \in Key :
    \/ ref'[k] \in {NoObj, ref[k]}
    \/ ref'[k] \in StagedFor(k) /\ op = Idle /\ op' = Idle /\ UNCHANGED disk
StagingStep == op'.pc \in StagePc =>
    /\ UNCHANGED <<staged, ref>>
    /\ \/ op.pc \in StagePc /\ op'.obj = op.obj /\ op'.key = op.key /\ UNCHANGED owner
       \/ op'.obj = next + 1 /\ owner'[op'.obj] = op'.key
CollectingStep == op'.pc = "gc" =>
    /\ UNCHANGED <<staged, ref>>
    /\ \/ op.pc = "gc" /\ op'.todo \subseteq op.todo
       \/ op'.todo \subseteq Garbage
Shape ==
    /\ Allocation
    /\ Referencing
    /\ staged' \subseteq staged \/ FinishStage
    /\ StagingStep
    /\ CollectingStep

\* sync_metadata keeps a row, drops it, or moves it to a staged object of its slot.
LEMMA ReferencesMove == TypeOK /\ SyncMetadata =>
    \A k \in Key : ref'[k] \in {NoObj, ref[k]} \/ ref'[k] \in StagedFor(k)
<1> SUFFICES ASSUME TypeOK, SyncMetadata, NEW k \in Key
             PROVE  ref'[k] \in {NoObj, ref[k]} \/ ref'[k] \in StagedFor(k)
  OBVIOUS
<1>1. StagedFor(k) # {} => Max(StagedFor(k)) \in StagedFor(k)
  <2>1. StagedFor(k) \subseteq Obj
    BY DEF StagedFor, TypeOK
  <2> QED BY <2>1, LastStaged
<1> QED BY <1>1 DEF SyncMetadata

\* Every step of the system has the shape described above.
LEMMA ShapeStep == TypeOK /\ [Next]_vars => Shape
<1> SUFFICES ASSUME TypeOK, [Next]_vars PROVE Shape
  OBVIOUS
<1> USE DEF vars, disk, db, volatile, tree, budget, Shape, Allocation, Referencing, StagingStep, CollectingStep
<1>0. Obj \subseteq Int /\ next \in Int
  BY MaxObjAssumption DEF TypeOK, Obj
<1>1. ASSUME NEW k \in Key, BeginStage(k) PROVE Shape
  <2>1. next + 1 \in Obj
    BY <1>1, MaxObjAssumption DEF BeginStage, TypeOK, Obj
  <2> QED BY <1>0, <1>1, <2>1 DEF BeginStage, StagePc, TypeOK
<1>2. CASE WriteTemp \/ SyncTemp \/ MakeShard \/ SyncObjectsDir \/ Rename
  BY <1>2 DEF WriteTemp, SyncTemp, MakeShard, SyncObjectsDir, Rename, At, StagePc
<1>3. CASE FinishStage \/ AbortStage
  BY <1>3 DEF FinishStage, AbortStage, Idle, StagePc
<1>4. ASSUME NEW n \in Node, Attach(n) \/ Skip(n) \/ RemoveImage(n) PROVE Shape
  BY <1>4 DEF Attach, Skip, RemoveImage, StagePc
<1>5. CASE CommitMetadata
  BY <1>5, ReferencesMove DEF CommitMetadata, RebuildObjectIndex, Idle, StagePc
<1>6. CASE CommitUnread
  BY <1>6, ReferencesMove DEF CommitUnread, Idle, StagePc
<1>7. CASE RequestCommit \/ CommitFails \/ CleanupStaging
  BY <1>7 DEF RequestCommit, CommitFails, CleanupStaging, StagePc
<1>8. CASE BeginGc
  BY <1>8 DEF BeginGc, Collecting, StagePc
<1>9. ASSUME NEW o \in Obj, CollectOne(o) \/ CollectFails(o) PROVE Shape
  BY <1>9 DEF CollectOne, CollectFails, AfterGc, Collecting, Idle, StagePc
<1>10. ASSUME NEW r \in Reader, (\E k \in Key : ReaderLookup(r, k)) \/ ReaderOpen(r) \/ ReaderGivesUp(r)
       PROVE Shape
  BY <1>10 DEF ReaderLookup, ReaderOpen, ReaderGivesUp, StagePc
<1>11. CASE Lock \/ Unlock \/ Crash
  BY <1>11 DEF Lock, Unlock, Crash, Forget, Idle, StagePc
<1>12. CASE PowerLoss
  <2>1. UNCHANGED <<next, owner, ref>> /\ staged' = {} /\ op' = Idle
    BY <1>12 DEF PowerLoss, Forget
  <2> QED BY <2>1 DEF Idle, StagePc
<1>13. CASE UNCHANGED vars
  BY <1>13 DEF StagePc
<1> QED BY <1>1, <1>2, <1>3, <1>4, <1>5, <1>6, <1>7, <1>8, <1>9, <1>10, <1>11, <1>12, <1>13 DEF Next

\* A freshly created store pins nothing.
LEMMA PinInit == Init => PinInv
BY DEF Init, PinInv, StagedObjectsPinned, NoDanglingReference, Idle, NoRefs, StagePc, NoObj

\* No operation takes a referenced or staged object away from its owner.
LEMMA PinStep == TypeOK /\ PublicationInv /\ PinInv /\ [Next]_vars => PinInv'
<1> SUFFICES ASSUME TypeOK, PublicationInv, PinInv, [Next]_vars PROVE PinInv'
  OBVIOUS
<1>0. Shape /\ PublicationInv' /\ TypeOK'
  BY ShapeStep, PublicationStep, TypeStep
<1>1. Allocation /\ Referencing /\ (staged' \subseteq staged \/ FinishStage) /\ StagingStep /\ CollectingStep
  BY <1>0 DEF Shape
<1>2. /\ Obj \subseteq Int /\ next \in Int /\ next' \in Int /\ next <= next' /\ NoObj \notin Obj /\ NoObj <= next
      /\ \A k \in Key : ref[k] \in Obj \cup {NoObj}
      /\ staged \subseteq Obj /\ NoKey \notin Key
  BY <1>1, MaxObjAssumption DEF TypeOK, Obj, NoObj, Allocation, Key, NoKey
\* What is pinned now stays durable and keeps its owner.
<1>3. ASSUME NEW o \in Obj, Durable(o), o <= next, op.pc = "gc" => o \notin op.todo
      PROVE  Durable(o)' /\ owner'[o] = owner[o]
  BY <1>1, <1>3, DurableStep DEF Allocation
<1>4. ASSUME NEW o \in staged PROVE Durable(o)' /\ owner'[o] = owner[o] /\ owner[o] \in Key /\ o <= next
  BY <1>2, <1>3 DEF PinInv, StagedObjectsPinned
<1>5. ASSUME FinishStage, NEW o \in Obj, o = op.obj
      PROVE  staged' = staged \cup {o} /\ o <= next' /\ Durable(o)' /\ owner'[o] \in Key
  <2>1. op.pc = "renamed" /\ op.key \in Key /\ op.pc \in StagePc
    BY <1>5 DEF FinishStage, TypeOK, StagePc
  <2>2. file[o] = "published" /\ o \in whole /\ shard[ShardOf[o]] = "durable" /\ o = next /\ owner[o] = op.key
    BY <1>5, <2>1 DEF PublicationInv, PinInv
  <2>3. Durable(o)'
    BY <1>5, <2>2 DEF FinishStage, Durable, Published, SyncShard
  <2> QED BY <1>2, <1>5, <2>1, <2>2, <2>3 DEF FinishStage
<1>6. ASSUME NEW o \in staged' PROVE Durable(o)' /\ owner'[o] \in Key /\ o <= next'
  <2>1. CASE o \in staged
    BY <1>2, <1>4, <2>1
  <2>2. CASE o \notin staged
    <3>1. FinishStage
      BY <1>1, <1>6, <2>2
    <3>2. op.obj \in Obj /\ staged' = staged \cup {op.obj}
      BY <3>1 DEF FinishStage, TypeOK, StagePc
    <3> QED BY <1>5, <1>6, <2>2, <3>1, <3>2
  <2> QED BY <2>1, <2>2
<1>7. StagedObjectsPinned'
  BY <1>6 DEF StagedObjectsPinned
<1>8. ASSUME NEW k \in Key, NEW o \in Obj, o = ref'[k]
      PROVE  Durable(o)' /\ owner'[o] = k /\ o <= next'
  <2>1. CASE o = ref[k]
    <3>1. Durable(o) /\ owner[o] = k /\ o <= next
      BY <1>2, <2>1 DEF PinInv, NoDanglingReference
    <3>2. op.pc = "gc" => o \notin op.todo
      BY <2>1 DEF PinInv
    <3> QED BY <1>2, <1>3, <3>1, <3>2
  <2>2. CASE o \in StagedFor(k)
    <3>1. o \in staged /\ owner[o] = k
      BY <2>2 DEF StagedFor
    <3> QED BY <1>2, <1>4, <3>1
  <2> QED BY <1>1, <1>2, <1>8, <2>1, <2>2 DEF Referencing
<1>9. NoDanglingReference'
  <2>1. \A k \in Key : ref'[k] # NoObj => ref'[k] \in Obj
    BY <1>0 DEF TypeOK
  <2>2. \A k \in Key : \A o \in Obj : o = ref'[k] =>
          /\ file'[o] = "published" /\ o \in whole' /\ o \notin unsynced'
          /\ shard'[ShardOf[o]] = "durable" /\ owner'[o] = k
    BY <1>8 DEF Durable, Published
  <2> QED BY <2>1, <2>2 DEF NoDanglingReference, Durable, Published
<1>10. ASSUME NEW k \in Key PROVE ref'[k] <= next'
  <2>1. ref'[k] = NoObj \/ ref'[k] \in Obj
    BY <1>0 DEF TypeOK
  <2>2. CASE ref'[k] = NoObj
    BY <1>2, <2>2 DEF NoObj
  <2>3. CASE ref'[k] \in Obj
    BY <1>8, <2>3
  <2> QED BY <2>1, <2>2, <2>3
<1>11. ASSUME op'.pc \in StagePc
       PROVE  /\ op'.obj \notin staged'
              /\ \A k \in Key : ref'[k] # op'.obj
              /\ owner'[op'.obj] = op'.key
  <2>1. staged' = staged /\ ref' = ref
    BY <1>1, <1>11 DEF StagingStep
  <2>2. CASE op.pc \in StagePc /\ op'.obj = op.obj /\ op'.key = op.key /\ UNCHANGED owner
    BY <2>1, <2>2 DEF PinInv
  <2>3. CASE op'.obj = next + 1 /\ owner'[op'.obj] = op'.key
    <3>1. \A o \in staged : o <= next
      BY DEF PinInv
    <3>2. \A k \in Key : ref[k] <= next
      BY DEF PinInv
    <3>3. next + 1 \notin staged
      BY <1>2, <3>1
    <3>4. \A k \in Key : ref[k] # next + 1
      BY <1>2, <3>2 DEF NoObj
    <3> QED BY <2>1, <2>3, <3>3, <3>4
  <2> QED BY <1>1, <1>11, <2>2, <2>3 DEF StagingStep
<1>12. ASSUME op'.pc = "gc" PROVE \A o \in op'.todo : o \notin staged' /\ \A k \in Key : ref'[k] # o
  <2>1. staged' = staged /\ ref' = ref
    BY <1>1, <1>12 DEF CollectingStep
  <2>2. \A o \in Garbage : o \in Obj /\ o \notin staged /\ \A k \in Key : ref[k] # o
    BY <1>2 DEF Garbage, Published, Referenced
  <2> QED BY <1>1, <1>12, <2>1, <2>2 DEF CollectingStep, PinInv
<1> QED BY <1>6, <1>7, <1>9, <1>10, <1>11, <1>12 DEF PinInv

-----------------------------------------------------------------------------
(* The tree. *)

\* A freshly created vault has an empty tree.
LEMMA TreeInit == Init => TreeInv
BY DEF Init, TreeInv, StagedIndexIsLatest, CommittedMediaComplete, OriginalsInv, StagingInv, IndexInv,
       SessionInv, Originals, StagedFor, Idle, NoRefs, StagePc

\* A step that leaves the tree and what is staged and committed alone.
LEMMA TreeKept ==
    ASSUME TreeInv,
           UNCHANGED <<dbNodes, ref, session, staged, stagedIndex, index, life, owner>>,
           op'.pc \in StagePc => op.pc \in StagePc /\ op'.key = op.key,
           treeOp = "rethumb" => treeOp' = "rethumb",
           session = "locked" => op' = op
    PROVE  TreeInv'
<1>1. \A k \in Key : StagedFor(k)' = StagedFor(k)
  BY DEF StagedFor
<1>2. \A n \in Node : Originals(n)' = Originals(n)
  BY DEF StagedFor, Originals
<1>3. StagedIndexIsLatest' /\ CommittedMediaComplete' /\ IndexInv' /\ SessionInv'
  BY <1>1 DEF TreeInv, StagedIndexIsLatest, CommittedMediaComplete, IndexInv, SessionInv
<1>4. OriginalsInv'
  BY <1>2 DEF TreeInv, OriginalsInv
<1>5. StagingInv'
  BY DEF TreeInv, StagingInv, Originals, StagedFor
<1> QED BY <1>3, <1>4, <1>5 DEF TreeInv

\* What is staged for a node, when nothing is staged or committed.
LEMMA StagedForKept ==
    ASSUME staged' = staged, \A o \in staged : owner'[o] = owner[o]
    PROVE  /\ \A k \in Key : StagedFor(k)' = StagedFor(k)
           /\ \A n \in Node : Originals(n)' = Originals(n)
BY DEF StagedFor, Originals

\* staged_index_ serves a slot exactly when something is staged for it.
LEMMA StagedLookup == TypeOK /\ StagedIndexIsLatest =>
    \A k \in Key : stagedIndex[k] = NoObj <=> StagedFor(k) = {}
<1> SUFFICES ASSUME TypeOK, StagedIndexIsLatest, NEW k \in Key
             PROVE  stagedIndex[k] = NoObj <=> StagedFor(k) = {}
  OBVIOUS
<1>1. StagedFor(k) \subseteq Obj
  BY DEF StagedFor, TypeOK
<1>2. StagedFor(k) # {} => Max(StagedFor(k)) \in Obj
  BY <1>1, LastStaged
<1>3. NoObj \notin Obj
  BY MaxObjAssumption DEF Obj, NoObj
<1> QED BY <1>2, <1>3 DEF StagedIndexIsLatest

\* Beginning to stage an object keeps TreeInv.
LEMMA TreeBeginStage ==
    ASSUME TypeOK, PinInv, TreeInv, NEW k \in Key, BeginStage(k)
    PROVE  TreeInv'
<1> USE DEF disk, db, volatile, tree, budget
<1>0. k[1] \in Node /\ k[2] \in Role /\ (\A j \in Key : j[1] \in Node)
  BY DEF Key
<1>1. staged' = staged /\ \A o \in staged : owner'[o] = owner[o]
  <2>1. \A o \in staged : o # next + 1
    <3>1. \A o \in staged : o <= next
      BY DEF PinInv
    <3> QED BY <3>1, MaxObjAssumption DEF TypeOK
  <2> QED BY <2>1 DEF BeginStage
<1>2. /\ \A j \in Key : StagedFor(j)' = StagedFor(j)
      /\ \A n \in Node : Originals(n)' = Originals(n)
  BY <1>1, StagedForKept
<1>3. StagedIndexIsLatest' /\ CommittedMediaComplete'
  BY <1>2 DEF BeginStage, TreeInv, StagedIndexIsLatest, CommittedMediaComplete
<1>4. OriginalsInv'
  <2>1. \A n \in Node : life'[n] = life[n] \/ life'[n] = "staging"
    BY DEF BeginStage, TypeOK
  <2>2. ref' = ref
    BY DEF BeginStage
  <2> QED BY <1>2, <2>1, <2>2 DEF TreeInv, OriginalsInv
<1>5. op'.key = k /\ op' # Idle /\ session = "unlocked"
  BY DEF BeginStage, Unlocked, Idle
<1>6. IF k[2] = "thumb" /\ life'[k[1]] = "attached" THEN treeOp' = "rethumb"
      ELSE life'[k[1]] = "staging" /\ (k[2] = "thumb" => Originals(k[1]) # {})
  BY <1>0 DEF BeginStage, MayStage, TreeInv, OriginalsInv, TypeOK
<1>7. StagingInv'
  BY <1>0, <1>2, <1>5, <1>6 DEF StagingInv
<1>8. IndexInv'
  BY <1>0 DEF BeginStage, MayStage, TreeInv, IndexInv, TypeOK
<1>9. SessionInv'
  BY <1>5 DEF BeginStage, SessionInv
<1> QED BY <1>3, <1>4, <1>7, <1>8, <1>9 DEF TreeInv

\* Recording a published object in the session keeps TreeInv.
LEMMA TreeFinishStage ==
    ASSUME TypeOK, PublicationInv, PinInv, TreeInv, FinishStage
    PROVE  TreeInv'
<1> USE DEF disk, db, volatile, tree, budget
<1>0. /\ op.pc \in StagePc /\ op.obj \in Obj /\ op.key \in Key /\ op.key[1] \in Node /\ op.key[2] \in Role
      /\ \A j \in Key : j[1] \in Node
      /\ op.obj = next /\ owner[op.obj] = op.key /\ session = "unlocked"
  BY DEF FinishStage, TypeOK, StagePc, Key, PublicationInv, PinInv, TreeInv, SessionInv, Idle
<1>1. \A k \in Key : StagedFor(k)' = IF k = op.key THEN StagedFor(k) \cup {op.obj} ELSE StagedFor(k)
  BY <1>0 DEF FinishStage, StagedFor
<1>2. Max(StagedFor(op.key) \cup {op.obj}) = op.obj
  <2> DEFINE S == StagedFor(op.key) \cup {op.obj}
  <2>1. S \subseteq Obj /\ S # {}
    BY <1>0 DEF StagedFor, TypeOK
  <2>2. \A o \in S : o <= op.obj
    BY <1>0, MaxObjAssumption DEF StagedFor, PinInv, Obj
  <2>3. Max(S) \in S /\ op.obj <= Max(S)
    <3> HIDE DEF S
    <3>1. Max(S) \in S /\ \A o \in S : o <= Max(S)
      BY <2>1, LastStaged
    <3> QED BY <3>1, <2>2 DEF S
  <2>4. Max(S) <= op.obj /\ Max(S) \in Int /\ op.obj \in Int
    BY <2>1, <2>2, <2>3, MaxObjAssumption DEF Obj
  <2> QED BY <2>3, <2>4
<1>3. StagedIndexIsLatest'
  <2>1. ASSUME NEW k \in Key, k = op.key PROVE stagedIndex'[k] = op.obj
    BY <2>1 DEF FinishStage, TypeOK
  <2>2. ASSUME NEW k \in Key, k # op.key PROVE stagedIndex'[k] = stagedIndex[k]
    BY <2>2 DEF FinishStage, TypeOK
  <2>3. ASSUME NEW k \in Key PROVE stagedIndex'[k] = (IF StagedFor(k)' = {} THEN NoObj ELSE Max(StagedFor(k)'))
    BY <1>1, <1>2, <2>1, <2>2 DEF TreeInv, StagedIndexIsLatest
  <2> QED BY <2>3 DEF StagedIndexIsLatest
<1>4. CommittedMediaComplete'
  <2>1. dbNodes' = dbNodes /\ ref' = ref
    BY DEF FinishStage
  <2> QED BY <2>1 DEF TreeInv, CommittedMediaComplete
<1>5. \A n \in Node : Originals(n) # {} => Originals(n)' # {}
  BY DEF FinishStage, Originals, StagedFor
<1>6. \A n \in Node : op.key = Original(n) => Originals(n)' # {}
  BY <1>0 DEF FinishStage, Originals, StagedFor
<1>7. \/ life' = life
      \/ /\ life[op.key[1]] = "staging"
         /\ \A n \in Node : n = op.key[1] => Originals(n)' # {}
         /\ \E l \in {"has_original", "has_both"} : life' = [life EXCEPT ![op.key[1]] = l]
  <2>1. CASE op.key[2] = "thumb" /\ life[op.key[1]] = "attached"
    BY <1>0, <2>1 DEF FinishStage, StagedLife, TypeOK
  <2>2. CASE ~(op.key[2] = "thumb" /\ life[op.key[1]] = "attached")
    <3>1. life[op.key[1]] = "staging" /\ (op.key[2] = "thumb" => Originals(op.key[1]) # {})
      BY <1>0, <2>2 DEF TreeInv, StagingInv
    <3>2. op.key[2] = "original" => op.key = Original(op.key[1])
      BY <1>0, OriginalKey
    <3>3. \A n \in Node : n = op.key[1] => Originals(n)' # {}
      BY <1>0, <1>5, <1>6, <3>1, <3>2 DEF Role
    <3>4. StagedLife(op.key[1], op.key[2]) \in {"has_original", "has_both"}
      BY <1>0, <3>1 DEF StagedLife
    <3> QED BY <3>1, <3>3, <3>4 DEF FinishStage
  <2> QED BY <2>1, <2>2
<1>8. OriginalsInv'
  <2>1. ref' = ref
    BY DEF FinishStage
  <2>2. ASSUME NEW n \in Node, life'[n] \in {"has_original", "has_both", "attached"}
        PROVE  \/ life'[n] = life[n]
               \/ life'[n] # "attached" /\ Originals(n)' # {}
    BY <1>0, <1>7, <2>2 DEF TypeOK
  <2> QED BY <1>5, <2>1, <2>2 DEF TreeInv, OriginalsInv
<1>9. StagingInv' /\ SessionInv'
  BY <1>0 DEF FinishStage, StagingInv, SessionInv, Idle, StagePc
<1>10. IndexInv'
  <2>1. \A k \in Key : stagedIndex'[k] = NoObj => stagedIndex[k] = NoObj
    BY <1>0, MaxObjAssumption DEF FinishStage, TypeOK, Obj, NoObj
  <2>2. UNCHANGED <<dbNodes, ref, index>>
    BY DEF FinishStage
  <2>3. \A n \in Node : \/ life'[n] = life[n]
                        \/ life[n] = "staging" /\ life'[n] \in {"has_original", "has_both"}
    BY <1>0, <1>7 DEF TypeOK
  <2> QED BY <1>0, <2>1, <2>2, <2>3 DEF TreeInv, IndexInv
<1> QED BY <1>3, <1>4, <1>8, <1>9, <1>10 DEF TreeInv

\* A failed staging keeps TreeInv: it drops the node or leaves the attached one as it was.
LEMMA TreeAbortStage ==
    ASSUME TypeOK, TreeInv, AbortStage
    PROVE  TreeInv'
<1> USE DEF disk, db, volatile, tree, budget
<1>0. op.pc \in StagePc /\ op.key \in Key /\ op.key[1] \in Node /\ session = "unlocked"
  BY OriginalKey DEF AbortStage, TypeOK, StagePc, TreeInv, SessionInv, Idle
<1>1. /\ UNCHANGED <<dbNodes, ref, session, staged, stagedIndex, index, owner>>
      /\ op' = Idle
  BY DEF AbortStage
<1>2. /\ \A k \in Key : StagedFor(k)' = StagedFor(k)
      /\ \A n \in Node : Originals(n)' = Originals(n)
  BY <1>1, StagedForKept
<1>3. \A n \in Node : life'[n] = life[n] \/ life'[n] = "gone"
  BY DEF AbortStage, TypeOK
<1>4. StagedIndexIsLatest' /\ CommittedMediaComplete' /\ OriginalsInv'
  BY <1>1, <1>2, <1>3 DEF TreeInv, StagedIndexIsLatest, CommittedMediaComplete, OriginalsInv
<1>5. StagingInv' /\ SessionInv'
  BY <1>0, <1>1 DEF StagingInv, SessionInv, Idle, StagePc
<1>6. IndexInv'
  BY <1>1, <1>3, OriginalKey DEF TreeInv, IndexInv
<1> QED BY <1>4, <1>5, <1>6 DEF TreeInv

\* Attaching, skipping and removing a node, and asking for a commit, keep TreeInv.
LEMMA TreeEdit ==
    ASSUME TypeOK, TreeInv, NEW n \in Node, Attach(n) \/ Skip(n) \/ RemoveImage(n)
    PROVE  TreeInv'
<1> USE DEF disk, db, volatile, tree, budget
<1>1. /\ UNCHANGED <<dbNodes, ref, session, staged, stagedIndex, index, owner, op>>
      /\ session = "unlocked"
  BY DEF Attach, Skip, RemoveImage, Unlocked
<1>2. /\ \A k \in Key : StagedFor(k)' = StagedFor(k)
      /\ \A m \in Node : Originals(m)' = Originals(m)
  BY <1>1, StagedForKept
<1>3. /\ \A m \in Node : m # n => life'[m] = life[m]
      /\ \/ life[n] \in {"has_original", "has_both"} /\ life'[n] \in {"attached", "gone"} /\ treeOp' = treeOp
         \/ life[n] = "attached" /\ life'[n] = "gone" /\ treeOp = "idle"
  BY DEF Attach, Skip, RemoveImage, TypeOK
<1>4. StagedIndexIsLatest' /\ CommittedMediaComplete'
  BY <1>1, <1>2 DEF TreeInv, StagedIndexIsLatest, CommittedMediaComplete
<1>5. OriginalsInv'
  BY <1>1, <1>2, <1>3 DEF TreeInv, OriginalsInv
<1>6. StagingInv'
  <2>1. ASSUME op.pc \in StagePc
        PROVE  life'[op.key[1]] = life[op.key[1]] /\ (treeOp = "rethumb" => treeOp' = treeOp)
    BY <1>3, <2>1, OriginalKey DEF TreeInv, StagingInv, TypeOK
  <2>2. op.pc \in StagePc => op.key[1] \in Node
    BY OriginalKey DEF TypeOK
  <2> QED BY <1>1, <1>2, <2>1, <2>2 DEF TreeInv, StagingInv
<1>7. IndexInv'
  <2>1. ASSUME NEW k \in Key, k[1] = n, life'[n] = "attached", stagedIndex[k] = NoObj
        PROVE  index[k] = ref[k]
    BY <1>3, <2>1 DEF TreeInv, IndexInv
  <2> QED BY <1>1, <1>3, <2>1, OriginalKey DEF TreeInv, IndexInv
<1>8. SessionInv'
  BY <1>1 DEF SessionInv
<1> QED BY <1>4, <1>5, <1>6, <1>7, <1>8 DEF TreeInv

\* What sync_metadata leaves, whether or not its rows could be read back.
LEMMA TreeCommitted ==
    ASSUME TypeOK, TreeInv, SyncMetadata
    PROVE  /\ CommittedMediaComplete'
           /\ \A n \in Live : ref'[Original(n)] # NoObj
           /\ \A k \in Key : k[1] \notin Live => k[1] \notin dbNodes' /\ ref'[k] = NoObj
           /\ \A k \in Key : k[1] \in Live /\ stagedIndex[k] = NoObj => ref'[k] = ref[k]
<1>0. NoObj \notin Obj
  BY MaxObjAssumption DEF Obj, NoObj
<1>1. ASSUME NEW k \in Key, StagedFor(k) # {} PROVE Max(StagedFor(k)) # NoObj
  <2>1. StagedFor(k) \subseteq Obj
    BY DEF StagedFor, TypeOK
  <2> QED BY <1>0, <1>1, <2>1, LastStaged
<1>2. ASSUME NEW n \in Live PROVE ref'[Original(n)] # NoObj
  <2>1. n \in Node /\ life[n] = "attached" /\ Original(n) \in Key /\ Original(n)[1] = n
    BY OriginalKey DEF Live
  <2>2. ref[Original(n)] # NoObj \/ StagedFor(Original(n)) # {}
    BY <2>1 DEF TreeInv, OriginalsInv, Originals
  <2> QED BY <1>1, <2>1, <2>2 DEF SyncMetadata
<1>3. \A k \in Key : k[1] \notin Live => k[1] \notin dbNodes' /\ ref'[k] = NoObj
  BY DEF SyncMetadata
<1>4. \A k \in Key : k[1] \in Live /\ stagedIndex[k] = NoObj => ref'[k] = ref[k]
  BY StagedLookup DEF SyncMetadata, TreeInv
<1>5. CommittedMediaComplete'
  BY <1>2 DEF CommittedMediaComplete, SyncMetadata
<1> QED BY <1>2, <1>3, <1>4, <1>5

\* commit_metadata keeps TreeInv.
LEMMA TreeCommit ==
    ASSUME TypeOK, TreeInv, CommitMetadata
    PROVE  TreeInv'
<1> USE DEF disk, db, volatile, tree, budget
<1>1. SyncMetadata /\ RebuildObjectIndex /\ op = Idle /\ UNCHANGED <<owner, session, op, life>> /\ session = "unlocked"
  BY DEF CommitMetadata, Unlocked
<1>2. /\ CommittedMediaComplete'
      /\ \A n \in Live : ref'[Original(n)] # NoObj
      /\ \A k \in Key : k[1] \notin Live => k[1] \notin dbNodes' /\ ref'[k] = NoObj
  BY <1>1, TreeCommitted
<1>3. \A k \in Key : StagedFor(k)' = IF k[1] \in Live THEN {} ELSE StagedFor(k)
  BY <1>1 DEF RebuildObjectIndex, StagedFor
<1>4. \A n \in Node : n \notin Live => Originals(n)' = Originals(n)
  BY <1>3, OriginalKey DEF Originals
<1>5. StagedIndexIsLatest'
  BY <1>1, <1>3 DEF RebuildObjectIndex, TreeInv, StagedIndexIsLatest
<1>6. OriginalsInv'
  BY <1>1, <1>2, <1>4 DEF TreeInv, OriginalsInv, Live
<1>7. StagingInv' /\ SessionInv'
  BY <1>1 DEF StagingInv, SessionInv, Idle, StagePc
<1>8. IndexInv'
  BY <1>1, <1>2, OriginalKey DEF RebuildObjectIndex, IndexInv, Live
<1> QED BY <1>2, <1>5, <1>6, <1>7, <1>8 DEF TreeInv

\* A commit whose rows could not be read back keeps TreeInv.
LEMMA TreeCommitUnread ==
    ASSUME TypeOK, TreeInv, CommitUnread
    PROVE  TreeInv'
<1> USE DEF disk, db, volatile, tree, budget
<1>1. /\ SyncMetadata /\ op = Idle /\ session = "unlocked"
      /\ UNCHANGED <<owner, session, staged, stagedIndex, index, op, life>>
  BY DEF CommitUnread, Unlocked
<1>2. /\ CommittedMediaComplete'
      /\ \A n \in Live : ref'[Original(n)] # NoObj
      /\ \A k \in Key : k[1] \notin Live => k[1] \notin dbNodes' /\ ref'[k] = NoObj
      /\ \A k \in Key : k[1] \in Live /\ stagedIndex[k] = NoObj => ref'[k] = ref[k]
  BY <1>1, TreeCommitted
<1>3. /\ \A k \in Key : StagedFor(k)' = StagedFor(k)
      /\ \A n \in Node : Originals(n)' = Originals(n)
  BY <1>1, StagedForKept
<1>4. StagedIndexIsLatest'
  BY <1>1, <1>3 DEF TreeInv, StagedIndexIsLatest
<1>5. OriginalsInv'
  BY <1>1, <1>2, <1>3 DEF TreeInv, OriginalsInv, Live
<1>6. StagingInv' /\ SessionInv'
  BY <1>1 DEF StagingInv, SessionInv, Idle, StagePc
<1>7. IndexInv'
  BY <1>1, <1>2, OriginalKey DEF TreeInv, IndexInv, Live
<1> QED BY <1>2, <1>4, <1>5, <1>6, <1>7 DEF TreeInv

\* Losing the session keeps TreeInv.
LEMMA TreeForget ==
    ASSUME TypeOK, TreeInv, Forget, UNCHANGED <<dbNodes, ref, owner>>
    PROVE  TreeInv'
<1>1. \A k \in Key : StagedFor(k)' = {}
  BY DEF Forget, StagedFor
<1>2. StagedIndexIsLatest'
  BY <1>1 DEF Forget, StagedIndexIsLatest, NoRefs
<1>3. CommittedMediaComplete'
  BY DEF TreeInv, CommittedMediaComplete
<1>4. OriginalsInv' /\ StagingInv' /\ SessionInv'
  BY DEF Forget, OriginalsInv, StagingInv, SessionInv, Idle, StagePc
<1>5. IndexInv'
  BY OriginalKey DEF Forget, TreeInv, IndexInv, NoRefs
<1> QED BY <1>2, <1>3, <1>4, <1>5 DEF TreeInv

\* Where references hold and committed media are complete, an unlock finds nothing damaged.
LEMMA NotDamaged == TypeOK /\ NoDanglingReference /\ CommittedMediaComplete => ~Damaged
BY DEF Damaged, NoDanglingReference, CommittedMediaComplete, Durable

\* An unlock rebuilds a tree that satisfies TreeInv.
LEMMA TreeUnlock ==
    ASSUME TypeOK, PinInv, TreeInv, Unlock
    PROVE  TreeInv'
<1> USE DEF disk, db, volatile, tree, budget
<1>1. /\ session = "locked" /\ op = Idle /\ staged = {} /\ session' = "unlocked" /\ index' = ref
      /\ UNCHANGED <<dbNodes, ref, owner, staged, stagedIndex, op>>
      /\ \A n \in Node : life'[n] = IF n \in dbNodes THEN "attached" ELSE life[n]
  BY NotDamaged DEF Unlock, PinInv, TreeInv, SessionInv, TypeOK
<1>2. /\ \A k \in Key : StagedFor(k)' = StagedFor(k)
      /\ \A n \in Node : Originals(n)' = Originals(n)
  BY <1>1, StagedForKept
<1>3. StagedIndexIsLatest' /\ CommittedMediaComplete'
  BY <1>1, <1>2 DEF TreeInv, StagedIndexIsLatest, CommittedMediaComplete
<1>4. OriginalsInv'
  BY <1>1, <1>2 DEF TreeInv, OriginalsInv, CommittedMediaComplete
<1>5. StagingInv' /\ SessionInv'
  BY <1>1 DEF StagingInv, SessionInv, Idle, StagePc
<1>6. IndexInv'
  BY <1>1, OriginalKey DEF TreeInv, IndexInv
<1> QED BY <1>3, <1>4, <1>5, <1>6 DEF TreeInv

\* Every step keeps TreeInv.
LEMMA TreeStep == Inv /\ [Next]_vars => TreeInv'
<1> SUFFICES ASSUME Inv, [Next]_vars PROVE TreeInv'
  OBVIOUS
<1> USE DEF vars, disk, db, volatile, tree, budget, Inv
<1>0. op # Idle => session = "unlocked"
  BY DEF TreeInv, SessionInv, TypeOK
<1>1. ASSUME NEW k \in Key, BeginStage(k) PROVE TreeInv'
  BY <1>1, TreeBeginStage
<1>2. CASE WriteTemp \/ SyncTemp \/ MakeShard \/ SyncObjectsDir \/ Rename
  BY <1>0, <1>2, TreeKept DEF WriteTemp, SyncTemp, MakeShard, SyncObjectsDir, Rename, At, StagePc, Idle
<1>3. CASE FinishStage
  BY <1>3, TreeFinishStage
<1>4. CASE AbortStage
  BY <1>4, TreeAbortStage
<1>5. ASSUME NEW n \in Node, Attach(n) \/ Skip(n) \/ RemoveImage(n) PROVE TreeInv'
  BY <1>5, TreeEdit
<1>6. CASE RequestCommit
  BY <1>6, TreeKept DEF RequestCommit, Unlocked
<1>7. CASE CommitMetadata
  BY <1>7, TreeCommit
<1>8. CASE CommitUnread
  BY <1>8, TreeCommitUnread
<1>9. CASE CommitFails
  BY <1>9, TreeKept DEF CommitFails, Unlocked
<1>10. CASE BeginGc \/ CleanupStaging
  BY <1>10, TreeKept DEF BeginGc, CleanupStaging, Collecting, Unlocked, StagePc
<1>11. ASSUME NEW o \in Obj, CollectOne(o) \/ CollectFails(o) PROVE TreeInv'
  BY <1>0, <1>11, TreeKept DEF CollectOne, CollectFails, AfterGc, Collecting, Idle, StagePc
<1>12. ASSUME NEW r \in Reader, (\E k \in Key : ReaderLookup(r, k)) \/ ReaderOpen(r) \/ ReaderGivesUp(r)
       PROVE TreeInv'
  BY <1>12, TreeKept DEF ReaderLookup, ReaderOpen, ReaderGivesUp
<1>13. CASE Lock \/ Crash \/ PowerLoss
  BY <1>13, TreeForget DEF Lock, Crash, PowerLoss
<1>14. CASE Unlock
  BY <1>14, TreeUnlock
<1>15. CASE UNCHANGED vars
  BY <1>15, TreeKept
<1> QED BY <1>1, <1>2, <1>3, <1>4, <1>5, <1>6, <1>7, <1>8, <1>9, <1>10, <1>11, <1>12, <1>13,
           <1>14, <1>15 DEF Next

-----------------------------------------------------------------------------
(* Safety. *)

\* The inductive invariant of the store holds in every reachable state of V3Store.
THEOREM InvCorrect == Spec => []Inv
<1>1. Init => Inv
  BY TypeInit, PublicationInit, PinInit, TreeInit DEF Inv
<1>2. Inv /\ [Next]_vars => Inv'
  BY TypeStep, PublicationStep, PinStep, TreeStep DEF Inv
<1> QED BY <1>1, <1>2, PTL DEF Spec

\* No row of the database ever names a missing, torn, foreign or volatile
\* object: publish completes before any commit, and garbage_collect asks first.
THEOREM ReferencesHold == Spec => []NoDanglingReference
<1>1. Inv => NoDanglingReference
  BY DEF Inv, PinInv
<1> QED BY <1>1, InvCorrect, PTL

\* What stage_object recorded outlives every garbage_collect until committed.
THEOREM StagedSurvive == Spec => []StagedObjectsPinned
<1>1. Inv => StagedObjectsPinned
  BY DEF Inv, PinInv
<1> QED BY <1>1, InvCorrect, PTL

\* incomplete_media_nodes is empty after every sync_metadata.
THEOREM MediaComplete == Spec => []CommittedMediaComplete
<1>1. Inv => CommittedMediaComplete
  BY DEF Inv, TreeInv
<1> QED BY <1>1, InvCorrect, PTL

\* staged_index_ and staged_objects_ never disagree.
THEOREM StagedIndexHolds == Spec => []StagedIndexIsLatest
<1>1. Inv => StagedIndexIsLatest
  BY DEF Inv, TreeInv
<1> QED BY <1>1, InvCorrect, PTL

\* Every unlock succeeds, after any crash, power loss or failed call.
THEOREM UnlockNeverRefuses == Spec => []NeverRefusedAsDamaged
<1>1. Inv => NeverRefusedAsDamaged
  BY DEF Inv, TreeInv, SessionInv, NeverRefusedAsDamaged
<1> QED BY <1>1, InvCorrect, PTL

\* What object_for returns is a readable object of the slot it was asked for.
LEMMA LookupReadable ==
    ASSUME Inv, NEW k \in Key, life[k[1]] = "attached", Lookup(k) # NoObj
    PROVE  Readable(k, Lookup(k))
<1>1. CASE stagedIndex[k] # NoObj
  <2>1. StagedFor(k) # {} /\ StagedFor(k) \subseteq Obj
    BY <1>1, StagedLookup DEF Inv, TreeInv, TypeOK, StagedFor
  <2>2. stagedIndex[k] \in StagedFor(k)
    BY <2>1, LastStaged DEF Inv, TreeInv, StagedIndexIsLatest
  <2>3. Durable(stagedIndex[k]) /\ owner[stagedIndex[k]] = k
    BY <2>2 DEF StagedFor, Inv, PinInv, StagedObjectsPinned
  <2> QED BY <1>1, <2>3 DEF Lookup, Readable, Durable
<1>2. CASE stagedIndex[k] = NoObj
  <2>1. Lookup(k) = ref[k]
    BY <1>2 DEF Lookup, Inv, TreeInv, IndexInv
  <2> QED BY <2>1 DEF Readable, Durable, Inv, PinInv, NoDanglingReference
<1> QED BY <1>1, <1>2

\* Whatever the live tree shows, read_id finds a whole object of that node.
THEOREM LiveReadable == Spec => []LiveNodesReadable
<1>1. Inv => LiveNodesReadable
  <2> SUFFICES ASSUME Inv, NEW n \in Live
               PROVE  /\ Readable(Original(n), Lookup(Original(n)))
                      /\ Lookup(Thumb(n)) # NoObj => Readable(Thumb(n), Lookup(Thumb(n)))
    BY DEF LiveNodesReadable
  <2>1. /\ n \in Node /\ life[n] = "attached"
        /\ Original(n) \in Key /\ Original(n)[1] = n /\ Thumb(n) \in Key /\ Thumb(n)[1] = n
    BY DEF Live, Original, Thumb, Key, Role
  <2>2. Lookup(Original(n)) # NoObj
    <3>1. stagedIndex[Original(n)] = NoObj => index[Original(n)] = ref[Original(n)] /\ ref[Original(n)] # NoObj
      BY <2>1, StagedLookup DEF Inv, TreeInv, IndexInv, OriginalsInv, Originals
    <3> QED BY <3>1 DEF Lookup
  <2> QED BY <2>1, <2>2, LookupReadable
<1> QED BY <1>1, InvCorrect, PTL

-----------------------------------------------------------------------------
(* Replacements only go forward. *)

\* What is staged for a slot is not older than what the database has of it.
StagedAboveRef == \A k \in Key : stagedIndex[k] # NoObj => ref[k] <= stagedIndex[k]

\* A read in flight is of an object that its slot had and may have replaced; one
\* that failed is of an object that its slot has no more.
Reads(r) ==
    reader[r].pc # "idle" =>
        /\ Unlocked /\ reader[r].key \in Key /\ reader[r].obj # NoObj
        /\ life[reader[r].key[1]] \in {"attached", "gone"}
        /\ life[reader[r].key[1]] = "attached" =>
              /\ reader[r].obj <= Lookup(reader[r].key)
              /\ reader[r].pc = "failed" => Lookup(reader[r].key) # reader[r].obj

ReaderInv == \A r \in Reader : Reads(r)

\* Object numbers can be compared.
LEMMA Numbers == TypeOK =>
    /\ next \in Int
    /\ \A k \in Key : stagedIndex[k] \in Int /\ index[k] \in Int /\ ref[k] \in Int /\ Lookup(k) \in Int
    /\ \A r \in Reader : reader[r].obj \in Int
<1>1. Obj \cup {NoObj} \subseteq Int
  BY MaxObjAssumption DEF Obj, NoObj
<1> QED BY <1>1 DEF TypeOK, Lookup

\* The object that is being staged is younger than all that is staged or committed.
LEMMA Younger ==
    ASSUME Inv, op.pc \in StagePc, NEW k \in Key
    PROVE  stagedIndex[k] < op.obj /\ ref[k] < op.obj
<1>1. op.obj = next /\ op.obj \in Obj /\ op.obj \notin staged /\ ref[k] # op.obj /\ ref[k] <= next
  BY DEF Inv, PublicationInv, PinInv, TypeOK
<1>2. ref[k] < op.obj
  BY <1>1, Numbers DEF Inv
<1>3. CASE StagedFor(k) = {}
  <2>1. stagedIndex[k] = 0
    BY <1>3 DEF Inv, TreeInv, StagedIndexIsLatest, NoObj
  <2> QED BY <1>1, <1>2, <2>1, MaxObjAssumption DEF Obj
<1>4. CASE StagedFor(k) # {}
  <2>1. stagedIndex[k] \in StagedFor(k)
    <3>1. StagedFor(k) \subseteq Obj
      BY DEF StagedFor, Inv, TypeOK
    <3> QED BY <1>4, <3>1, LastStaged DEF Inv, TreeInv, StagedIndexIsLatest
  <2>2. stagedIndex[k] \in staged
    BY <2>1 DEF StagedFor
  <2>3. stagedIndex[k] <= next /\ stagedIndex[k] # op.obj
    BY <1>1, <2>2 DEF Inv, PinInv
  <2> QED BY <1>1, <1>2, <2>3, Numbers DEF Inv
<1> QED BY <1>3, <1>4

\* What a commit writes for a node of the tree: the staged object, or what was there.
LEMMA CommitRows ==
    ASSUME Inv, SyncMetadata, NEW k \in Key
    PROVE  ref'[k] = IF k[1] \notin Live THEN NoObj
                     ELSE IF stagedIndex[k] # NoObj THEN stagedIndex[k] ELSE ref[k]
<1>1. stagedIndex[k] = NoObj <=> StagedFor(k) = {}
  BY StagedLookup DEF Inv, TreeInv
<1>2. stagedIndex[k] # NoObj => stagedIndex[k] = Max(StagedFor(k))
  BY DEF Inv, TreeInv, StagedIndexIsLatest
<1>3. ref'[k] = IF k[1] \notin Live THEN NoObj
                ELSE IF StagedFor(k) # {} THEN Max(StagedFor(k)) ELSE ref[k]
  BY DEF SyncMetadata
<1> QED BY <1>1, <1>2, <1>3

\* A staging, a commit that half failed and its retry keep staged objects above rows.
LEMMA StagedAboveStep == Inv /\ StagedAboveRef /\ [Next]_vars => StagedAboveRef'
<1> SUFFICES ASSUME Inv, StagedAboveRef, [Next]_vars, NEW k \in Key, stagedIndex'[k] # NoObj
             PROVE  ref'[k] <= stagedIndex'[k]
  BY DEF StagedAboveRef
<1> USE DEF vars, disk, db, volatile, tree, budget
<1>0. stagedIndex[k] \in Int /\ ref[k] \in Int /\ 0 <= stagedIndex[k]
  BY Numbers, MaxObjAssumption DEF Inv, TypeOK, Obj, NoObj
<1>1. CASE UNCHANGED <<ref, stagedIndex>>
  BY <1>1 DEF StagedAboveRef
<1>2. CASE FinishStage
  <2>1. op.pc \in StagePc /\ op.key \in Key /\ op.obj \in Int
    BY <1>2, MaxObjAssumption DEF FinishStage, StagePc, Inv, TypeOK, Obj
  <2>2. ref' = ref /\ stagedIndex' = [stagedIndex EXCEPT ![op.key] = op.obj]
    BY <1>2 DEF FinishStage
  <2>3. CASE k = op.key
    <3>1. stagedIndex'[k] = op.obj
      BY <2>2, <2>3 DEF Inv, TypeOK
    <3> QED BY <1>0, <2>1, <2>2, <3>1, Younger
  <2>4. CASE k # op.key
    <3>1. stagedIndex'[k] = stagedIndex[k]
      BY <2>2, <2>4 DEF Inv, TypeOK
    <3> QED BY <2>2, <3>1 DEF StagedAboveRef
  <2> QED BY <2>3, <2>4
<1>3. CASE CommitMetadata
  <2>1. k[1] \notin Live /\ stagedIndex'[k] = stagedIndex[k]
    BY <1>3 DEF CommitMetadata, RebuildObjectIndex
  <2>2. ref'[k] = 0
    BY <1>3, <2>1, CommitRows DEF CommitMetadata, NoObj
  <2> QED BY <1>0, <2>1, <2>2
<1>4. CASE CommitUnread
  <2>1. stagedIndex' = stagedIndex
    BY <1>4 DEF CommitUnread
  <2>2. ref'[k] \in {0, stagedIndex[k]}
    BY <1>4, <2>1, CommitRows DEF CommitUnread, NoObj
  <2> QED BY <1>0, <2>1, <2>2
<1>5. CASE Lock \/ Crash \/ PowerLoss
  BY <1>5 DEF Lock, Crash, PowerLoss, Forget, NoRefs
<1> QED
  BY <1>1, <1>2, <1>3, <1>4, <1>5
  DEF Next, BeginStage, WriteTemp, SyncTemp, MakeShard, SyncObjectsDir, Rename, AbortStage, Attach,
      Skip, RemoveImage, RequestCommit, CommitFails, BeginGc, CleanupStaging, CollectOne,
      CollectFails, ReaderLookup, ReaderOpen, ReaderGivesUp, Unlock

\* While a session stays unlocked a node of the tree stays there or is gone for good.
LEMMA LivesAdvance ==
    ASSUME Inv, [Next]_vars, Unlocked, Unlocked', NEW n \in Node
    PROVE  /\ life[n] = "gone" => life'[n] = "gone"
           /\ life[n] = "attached" => life'[n] \in {"attached", "gone"}
<1> USE DEF vars, disk, db, volatile, tree, budget
<1>1. ASSUME NEW k \in Key, BeginStage(k)
      PROVE  (life[n] = "gone" => life'[n] = "gone") /\ (life[n] = "attached" => life'[n] = "attached")
  BY <1>1 DEF BeginStage, MayStage, Inv, TypeOK
<1>2. CASE FinishStage
  <2>1. op.pc \in StagePc /\ op.key \in Key
    BY <1>2 DEF FinishStage, StagePc, Inv, TypeOK
  <2>2. life[op.key[1]] = "staging" \/ (op.key[2] = "thumb" /\ life[op.key[1]] = "attached")
    BY <2>1 DEF Inv, TreeInv, StagingInv
  <2> QED BY <1>2, <2>2 DEF FinishStage, StagedLife, Inv, TypeOK
<1>3. CASE AbortStage
  BY <1>3 DEF AbortStage, Inv, TypeOK
<1>4. ASSUME NEW m \in Node, Attach(m) \/ Skip(m) \/ RemoveImage(m)
      PROVE  (life[n] = "gone" => life'[n] = "gone") /\ (life[n] = "attached" => life'[n] \in {"attached", "gone"})
  BY <1>4 DEF Attach, Skip, RemoveImage, Inv, TypeOK
<1>5. ~(Lock \/ Unlock \/ Crash \/ PowerLoss)
  BY DEF Lock, Unlock, Crash, PowerLoss, Forget, Unlocked
<1>6. CASE UNCHANGED life
  BY <1>6
<1> QED
  BY <1>1, <1>2, <1>3, <1>4, <1>5, <1>6
  DEF Next, WriteTemp, SyncTemp, MakeShard, SyncObjectsDir, Rename, RequestCommit, CommitMetadata,
      CommitUnread, CommitFails, BeginGc, CleanupStaging, CollectOne, CollectFails, ReaderLookup,
      ReaderOpen, ReaderGivesUp

\* What object_for returns for a node of the tree is replaced by younger objects
\* only, whether they are staged, committed, or committed and not read back.
LEMMA LookupGrows ==
    ASSUME Inv, [Next]_vars, Unlocked, Unlocked', NEW k \in Key, life[k[1]] = "attached"
    PROVE  Lookup(k) <= Lookup(k)'
<1> USE DEF vars, disk, db, volatile, tree, budget
<1>0. Lookup(k) \in Int /\ stagedIndex[k] \in Int /\ ref[k] \in Int
  BY Numbers DEF Inv
<1>1. CASE UNCHANGED <<stagedIndex, index>>
  BY <1>0, <1>1 DEF Lookup
<1>2. CASE FinishStage
  <2>1. op.pc \in StagePc /\ op.key \in Key /\ op.obj \in Obj
    BY <1>2 DEF FinishStage, StagePc, Inv, TypeOK
  <2>2. index' = index /\ stagedIndex' = [stagedIndex EXCEPT ![op.key] = op.obj]
    BY <1>2 DEF FinishStage
  <2>3. CASE k = op.key
    <3>1. op.obj \in Int /\ op.obj # NoObj
      BY <2>1, MaxObjAssumption DEF Obj, NoObj
    <3>2. Lookup(k)' = op.obj
      BY <2>2, <2>3, <3>1 DEF Lookup, Inv, TypeOK
    <3>3. Lookup(k) \in {stagedIndex[k], ref[k]}
      BY DEF Lookup, Inv, TreeInv, IndexInv
    <3> QED BY <1>0, <2>1, <3>1, <3>2, <3>3, Younger
  <2>4. CASE k # op.key
    <3>1. stagedIndex'[k] = stagedIndex[k]
      BY <2>2, <2>4 DEF Inv, TypeOK
    <3> QED BY <1>0, <2>2, <3>1 DEF Lookup
  <2> QED BY <2>3, <2>4
<1>3. CASE CommitMetadata
  <2>1. k[1] \in Live
    BY OriginalKey DEF Live
  <2>2. stagedIndex'[k] = NoObj /\ index'[k] = ref'[k]
    BY <1>3, <2>1 DEF CommitMetadata, RebuildObjectIndex
  <2>3. ref'[k] = IF stagedIndex[k] # NoObj THEN stagedIndex[k] ELSE ref[k]
    BY <1>3, <2>1, CommitRows DEF CommitMetadata
  <2>4. Lookup(k) = IF stagedIndex[k] # NoObj THEN stagedIndex[k] ELSE ref[k]
    BY DEF Lookup, Inv, TreeInv, IndexInv
  <2>5. Lookup(k)' = Lookup(k)
    BY <2>2, <2>3, <2>4 DEF Lookup
  <2> QED BY <1>0, <2>5
<1>4. ~(Lock \/ Unlock \/ Crash \/ PowerLoss)
  BY DEF Lock, Unlock, Crash, PowerLoss, Forget, Unlocked
<1> QED
  BY <1>1, <1>2, <1>3, <1>4
  DEF Next, BeginStage, WriteTemp, SyncTemp, MakeShard, SyncObjectsDir, Rename, AbortStage, Attach,
      Skip, RemoveImage, RequestCommit, CommitUnread, CommitFails, BeginGc, CleanupStaging,
      CollectOne, CollectFails, ReaderLookup, ReaderOpen, ReaderGivesUp

\* A read in flight is left behind by replacements, never caught up with.
LEMMA ReaderStep == Inv /\ ReaderInv /\ [Next]_vars => ReaderInv'
<1> SUFFICES ASSUME Inv, ReaderInv, [Next]_vars, NEW r \in Reader PROVE Reads(r)'
  BY DEF ReaderInv
<1> USE DEF vars, disk, db, volatile, tree, budget
<1>1. TypeOK /\ TypeOK'
  BY TypeStep DEF Inv
<1>2. Reads(r)
  BY DEF ReaderInv
<1>3. ASSUME UNCHANGED reader, reader[r].pc # "idle" PROVE Reads(r)'
  <2>1. PICK k \in Key, o \in Obj : k = reader[r].key /\ o = reader[r].obj
    BY <1>1, <1>2, <1>3 DEF Reads, TypeOK
  <2>2. /\ Unlocked /\ life[k[1]] \in {"attached", "gone"}
        /\ life[k[1]] = "attached" => o <= Lookup(k) /\ (reader[r].pc = "failed" => Lookup(k) # o)
    BY <1>2, <1>3, <2>1 DEF Reads
  <2>3. Unlocked'
    <3>1. ~(Lock \/ Crash \/ PowerLoss)
      BY <1>3 DEF Lock, Crash, PowerLoss, Forget, NoReads, NoRead
    <3> QED
      BY <2>2, <3>1
      DEF Unlocked, Next, BeginStage, WriteTemp, SyncTemp, MakeShard, SyncObjectsDir, Rename,
          FinishStage, AbortStage, Attach, Skip, RemoveImage, RequestCommit, CommitMetadata,
          CommitUnread, CommitFails, BeginGc, CleanupStaging, CollectOne, CollectFails,
          ReaderLookup, ReaderOpen, ReaderGivesUp, Unlock
  <2>4. k[1] \in Node
    BY OriginalKey
  <2>5. /\ life'[k[1]] \in {"attached", "gone"}
        /\ life'[k[1]] = "attached" => life[k[1]] = "attached"
    BY <2>2, <2>3, <2>4, LivesAdvance
  <2>6. ASSUME life'[k[1]] = "attached"
        PROVE  o <= Lookup(k)' /\ (reader[r].pc = "failed" => Lookup(k)' # o)
    <3>1. Lookup(k) <= Lookup(k)'
      BY <2>2, <2>3, <2>5, <2>6, LookupGrows
    <3>2. Lookup(k) \in Int /\ o \in Int
      BY <1>1, Numbers, MaxObjAssumption DEF Obj
    <3>3. Lookup(k)' \in Int
      <4>1. stagedIndex'[k] \in Obj \cup {NoObj} /\ index'[k] \in Obj \cup {NoObj}
        BY <1>1 DEF TypeOK
      <4> QED BY <4>1, MaxObjAssumption DEF Lookup, Obj, NoObj
    <3>4. o <= Lookup(k) /\ (reader[r].pc = "failed" => Lookup(k) # o)
      BY <2>2, <2>5, <2>6
    <3> QED BY <3>1, <3>2, <3>3, <3>4
  <2>7. reader'[r] = reader[r] /\ o # NoObj
    BY <1>3, MaxObjAssumption DEF Obj, NoObj
  <2> QED BY <2>1, <2>3, <2>5, <2>6, <2>7 DEF Reads, Lookup
<1>4. ASSUME UNCHANGED <<session, life, stagedIndex, index>>, reader'[r] = reader[r]
      PROVE  Reads(r)'
  BY <1>2, <1>4 DEF Reads, Unlocked, Lookup
<1>5. ASSUME NEW s \in Reader, NEW q \in Key, ReaderLookup(s, q) PROVE Reads(r)'
  <2>1. UNCHANGED <<session, life, stagedIndex, index>>
    BY <1>5 DEF ReaderLookup
  <2>2. CASE r = s
    <3>1. reader'[r] = [pc |-> "found", key |-> q, obj |-> Lookup(q)]
      BY <1>1, <1>5, <2>2 DEF ReaderLookup, TypeOK
    <3>2. Unlocked /\ life[q[1]] = "attached" /\ Lookup(q) # NoObj /\ Lookup(q) \in Int
      BY <1>1, <1>5, Numbers DEF ReaderLookup, Live
    <3>3. Lookup(q)' = Lookup(q) /\ Lookup(q) <= Lookup(q)
      BY <2>1, <3>2 DEF Lookup
    <3> QED BY <2>1, <3>1, <3>2, <3>3 DEF Unlocked, Reads, Lookup
  <2>3. CASE r # s
    BY <1>1, <1>4, <1>5, <2>1, <2>3 DEF ReaderLookup, TypeOK
  <2> QED BY <2>2, <2>3
<1>6. ASSUME NEW s \in Reader, ReaderOpen(s) \/ ReaderGivesUp(s) PROVE Reads(r)'
  <2>1. UNCHANGED <<session, life, stagedIndex, index>>
    BY <1>6 DEF ReaderOpen, ReaderGivesUp
  <2>2. CASE r # s
    BY <1>1, <1>4, <1>6, <2>1, <2>2 DEF ReaderOpen, ReaderGivesUp, TypeOK
  <2>3. CASE r = s /\ reader'[r] = NoRead
    BY <2>3 DEF Reads, NoRead
  <2>4. CASE r = s /\ reader'[r] # NoRead
    <3>1. /\ reader[r].pc = "found"
          /\ ~Readable(reader[r].key, reader[r].obj)
          /\ reader'[r] = [pc |-> "failed", key |-> reader[r].key, obj |-> reader[r].obj]
      BY <1>1, <1>6, <2>4 DEF ReaderOpen, ReaderGivesUp, TypeOK
    <3>2. PICK k \in Key, o \in Obj : k = reader[r].key /\ o = reader[r].obj
      BY <1>1, <1>2, <3>1 DEF Reads, TypeOK
    <3>3. /\ Unlocked /\ life[k[1]] \in {"attached", "gone"} /\ o # NoObj
          /\ life[k[1]] = "attached" => o <= Lookup(k)
      BY <1>2, <3>1, <3>2 DEF Reads
    <3>4. life[k[1]] = "attached" => Lookup(k) # o
      BY <3>1, <3>2, <3>3, LookupReadable
    <3>5. reader'[r] = [pc |-> "failed", key |-> k, obj |-> o]
      BY <3>1, <3>2
    <3> QED BY <2>1, <3>3, <3>4, <3>5 DEF Unlocked, Lookup, Reads
  <2> QED BY <2>2, <2>3, <2>4
<1>7. ASSUME reader' = NoReads \/ (reader' = reader /\ reader[r].pc = "idle") PROVE Reads(r)'
  BY <1>7 DEF Reads, NoReads, NoRead
<1> QED
  BY <1>3, <1>5, <1>6, <1>7
  DEF Next, BeginStage, WriteTemp, SyncTemp, MakeShard, SyncObjectsDir, Rename,
      FinishStage, AbortStage, Attach, Skip, RemoveImage, RequestCommit, CommitMetadata,
      CommitUnread, CommitFails, BeginGc, CleanupStaging, CollectOne, CollectFails, Unlock,
      Lock, Crash, PowerLoss, Forget

\* object_for releases state_mutex_ before the file is opened, so that a read can
\* lose its file to the collector; one whose object is still what object_for
\* would return never fails, however many replacements, half-failed commits and
\* collections come between.
THEOREM ReadsHold == Spec => []ReadFailsOnlyIfSuperseded
<1>1. Init => ReaderInv
  BY DEF Init, ReaderInv, Reads, NoReads, NoRead
<1>2. Spec => []ReaderInv
  BY <1>1, InvCorrect, ReaderStep, PTL DEF Spec
<1>3. Inv /\ ReaderInv => ReadFailsOnlyIfSuperseded
  BY OriginalKey DEF ReaderInv, Reads, ReadFailsOnlyIfSuperseded, Live
<1> QED BY <1>2, <1>3, InvCorrect, PTL

\* The commit that retries a half-failed one, or commits a replacement, never
\* takes a row back to an object that was replaced.
THEOREM NoReversionTheorem == Spec => NoReversion
<1>1. Init => StagedAboveRef
  BY DEF Init, StagedAboveRef, NoRefs
<1>2. Spec => []StagedAboveRef
  BY <1>1, InvCorrect, StagedAboveStep, PTL DEF Spec
<1>3. Inv /\ StagedAboveRef /\ [Next]_vars
        => [\A k \in Key : ref[k] # NoObj /\ k[1] \in dbNodes' => ref'[k] >= ref[k]]_vars
  <2> SUFFICES ASSUME Inv, StagedAboveRef, [Next]_vars, NEW k \in Key, k[1] \in dbNodes'
               PROVE  ref'[k] >= ref[k]
    OBVIOUS
  <2>0. ref[k] \in Int
    BY Numbers DEF Inv
  <2>1. CASE SyncMetadata
    <3>1. k[1] \in Live
      BY <2>1 DEF SyncMetadata
    <3>2. ref'[k] = IF stagedIndex[k] # NoObj THEN stagedIndex[k] ELSE ref[k]
      BY <2>1, <3>1, CommitRows
    <3>3. stagedIndex[k] \in Int
      BY Numbers DEF Inv
    <3> QED BY <2>0, <3>2, <3>3 DEF StagedAboveRef
  <2>2. CASE UNCHANGED ref
    BY <2>0, <2>2
  <2> QED
    BY <2>1, <2>2
    DEF vars, db, Next, BeginStage, WriteTemp, SyncTemp, MakeShard, SyncObjectsDir, Rename,
        FinishStage, AbortStage, Attach, Skip, RemoveImage, RequestCommit, CommitMetadata,
        CommitUnread, CommitFails, BeginGc, CleanupStaging, CollectOne, CollectFails,
        ReaderLookup, ReaderOpen, ReaderGivesUp, Lock, Unlock, Crash, PowerLoss
<1> QED BY <1>2, <1>3, InvCorrect, PTL DEF Spec, NoReversion

-----------------------------------------------------------------------------
(* The store implements ObjectVault. *)

\* A freshly created store is an empty ObjectVault.
LEMMA VaultInit == Init => Vault!Init
BY DEF Init, Vault!Init, Published, NoRefs

Files == Published \cap whole

\* A step that moves no file and no reference is at most a directory sync.
LEMMA VaultQuiet ==
    ASSUME Files' = Files, ref' = ref, unsynced' \subseteq unsynced
    PROVE  [Vault!Next]_<<Files, unsynced, ref>>
BY DEF Vault!Next, Vault!Sync, Files

\* sync_metadata is a switch of references to objects that are in place for good.
LEMMA VaultSwitch ==
    ASSUME TypeOK, PinInv, PinInv', TypeOK', UNCHANGED disk
    PROVE  [Vault!Next]_<<Files, unsynced, ref>>
<1>1. ref' \in [Key -> (Files \ unsynced) \cup {NoObj}]
  <2>1. ref' \in [Key -> Obj \cup {NoObj}]
    BY DEF TypeOK
  <2>2. \A k \in Key : ref'[k] # NoObj => ref'[k] \in Files' \ unsynced'
    BY DEF PinInv, NoDanglingReference, Durable, Files, Published
  <2>3. Files' = Files /\ unsynced' = unsynced
    BY DEF disk, Files, Published
  <2> QED BY <2>1, <2>2, <2>3
<1> QED BY <1>1 DEF Vault!Next, Vault!Switch, Files, Published, disk

\* Every step of the store is a step of ObjectVault or a stutter.
LEMMA VaultStep == Inv /\ Inv' /\ [Next]_vars => [Vault!Next]_<<Files, unsynced, ref>>
<1> SUFFICES ASSUME Inv, Inv', [Next]_vars PROVE [Vault!Next]_<<Files, unsynced, ref>>
  OBVIOUS
<1> USE DEF vars, disk, db, volatile, tree, budget, Inv
<1>0. /\ op.pc \in StagePc => op.obj \in Obj
      /\ op.pc \in StagePc \ {"renamed"} => file[op.obj] # "published"
      /\ op.pc = "ready" => op.obj \in whole
      /\ \A o \in Obj : file[o] = "published" => o \in whole
  BY DEF TypeOK, PublicationInv, StagePc
<1>1. ASSUME NEW k \in Key, BeginStage(k) PROVE Files' = Files /\ ref' = ref /\ unsynced' \subseteq unsynced
  BY <1>1 DEF BeginStage, Files, Published
<1>2. CASE WriteTemp \/ SyncTemp \/ MakeShard \/ SyncObjectsDir
  <2>1. Files' = Files
    BY <1>0, <1>2 DEF WriteTemp, SyncTemp, MakeShard, SyncObjectsDir, Files, Published, TypeOK, StagePc
  <2> QED BY <1>2, <2>1, VaultQuiet DEF WriteTemp, SyncTemp, MakeShard, SyncObjectsDir
<1>3. CASE Rename
  <2>1. op.obj \in Obj /\ op.obj \notin Files /\ op.obj \in whole
    BY <1>0, <1>3 DEF Rename, Files, Published, StagePc
  <2>2. Files' = Files \cup {op.obj}
    BY <1>3, <2>1 DEF Rename, Files, Published, TypeOK
  <2>3. Vault!Publish(op.obj)
    BY <1>3, <2>1, <2>2 DEF Vault!Publish, Rename, Files
  <2> QED BY <2>1, <2>3 DEF Vault!Next
<1>4. CASE FinishStage \/ AbortStage
  <2>1. Files' = Files
    BY <1>0, <1>4 DEF FinishStage, AbortStage, Files, Published, TypeOK
  <2>2. ref' = ref /\ unsynced' \subseteq unsynced
    BY <1>4 DEF FinishStage, AbortStage, SyncShard
  <2> QED BY <2>1, <2>2, VaultQuiet
<1>5. ASSUME NEW n \in Node, Attach(n) \/ Skip(n) \/ RemoveImage(n) PROVE Files' = Files /\ ref' = ref /\ unsynced' = unsynced
  BY <1>5 DEF Attach, Skip, RemoveImage, Files, Published
<1>6. CASE RequestCommit \/ CommitMetadata \/ CommitUnread \/ CommitFails
  BY <1>6, VaultSwitch DEF RequestCommit, CommitMetadata, CommitUnread, CommitFails
<1>7. CASE BeginGc \/ CleanupStaging
  <2>1. Files' = Files /\ ref' = ref /\ unsynced' = unsynced
    BY <1>7 DEF BeginGc, CleanupStaging, Files, Published, Temps
  <2> QED BY <2>1, VaultQuiet
<1>8. ASSUME NEW o \in Obj, CollectOne(o) \/ CollectFails(o) PROVE [Vault!Next]_<<Files, unsynced, ref>>
  <2>1. CASE UNCHANGED <<file, whole, unsynced, ref>>
    BY <2>1, VaultQuiet DEF Files, Published
  <2>2. CASE ~UNCHANGED <<file, whole, unsynced, ref>>
    <3>1. /\ op.pc = "gc" /\ o \in op.todo /\ o \notin Referenced
          /\ file' = [file EXCEPT ![o] = "absent"] /\ UNCHANGED <<whole, ref>>
          /\ unsynced' \subseteq unsynced \cup {o}
      BY <1>8, <2>2 DEF CollectOne, CollectFails, SyncShard
    <3>2. o \in Files /\ Files' = Files \ {o}
      BY <1>0, <3>1 DEF PublicationInv, TypeOK, Files, Published
    <3>3. Vault!Reclaim(o)
      BY <3>1, <3>2 DEF Vault!Reclaim, Vault!Referenced, Referenced, Files
    <3> QED BY <3>3 DEF Vault!Next
  <2> QED BY <2>1, <2>2
<1>9. ASSUME NEW r \in Reader, (\E k \in Key : ReaderLookup(r, k)) \/ ReaderOpen(r) \/ ReaderGivesUp(r)
      PROVE Files' = Files /\ ref' = ref /\ unsynced' = unsynced
  BY <1>9 DEF ReaderLookup, ReaderOpen, ReaderGivesUp, Files, Published
<1>10. CASE Lock \/ Unlock \/ Crash
  <2>1. Files' = Files /\ ref' = ref /\ unsynced' = unsynced
    BY <1>10 DEF Lock, Unlock, Crash, Files, Published
  <2> QED BY <2>1, VaultQuiet
<1>11. CASE PowerLoss
  <2>1. unsynced' = {} /\ UNCHANGED <<whole, ref>>
    BY <1>11 DEF PowerLoss
  <2>2. \A o \in Files : o \in unsynced \/ o \in Files'
    BY <1>11, ShardAssumption DEF PowerLoss, PublicationInv, Files, Published, Temps
  <2>3. \A o \in Files' : o \in Files \cup unsynced
    <3> SUFFICES ASSUME NEW o \in Files', o \notin unsynced PROVE file[o] = "published"
      BY <2>1 DEF Files, Published
    <3> QED BY <1>11 DEF PowerLoss, Files, Published, Temps, Survivors
  <2>4. Files' = (Files \ unsynced) \cup (Files' \cap unsynced)
    BY <2>2, <2>3
  <2>5. Vault!PowerLoss
    BY <2>1, <2>4 DEF Vault!PowerLoss, Files
  <2> QED BY <2>5 DEF Vault!Next
<1>12. CASE UNCHANGED vars
  BY <1>12 DEF Files, Published
<1> QED BY VaultQuiet, <1>1, <1>2, <1>3, <1>4, <1>5, <1>6, <1>7, <1>8, <1>9, <1>10, <1>11, <1>12 DEF Next

\* The store refines the promise of the format document.
THEOREM Refinement == Spec => ImplementsObjectVault
<1>1. Inv /\ Inv' /\ [Next]_vars => [Vault!Next]_<<Files, unsynced, ref>>
  BY VaultStep
<1> QED BY <1>1, VaultInit, InvCorrect, PTL DEF Spec, Vault!Spec, ImplementsObjectVault, Files
=============================================================================
