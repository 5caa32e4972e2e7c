------------------------------- MODULE V3Store -------------------------------
(***************************************************************************)
(* The object store of a directory (v3) vault: immutable object files, the *)
(* metadata database that references them, and the one unlocked session    *)
(* that stages, commits and garbage-collects them                          *)
(* (vault/v3_read_session, v3_object_store, v3_fs, v3_recovery, v3_db).    *)
(*                                                                         *)
(* One holder of state_mutex_ at a time runs a critical section (`op');    *)
(* readers, process crashes and power losses interleave with its steps.    *)
(* The database is SQLite: a commit is one atomic, durable step.           *)
(*                                                                         *)
(* A definition marked "Variant" is a defective form of the next one, used *)
(* only to show that TLC would find the defect.                            *)
(***************************************************************************)
EXTENDS Integers, FiniteSets, FiniteSetsExt

CONSTANTS
    Node,        \* media nodes, each imported at most once (node ids are fresh)
    Shard,       \* subdirectories of objects/
    MaxObj,      \* objects an instance may allocate
    ShardOf,     \* the shard an object's random id falls into
    MaxFaults,   \* system calls and database calls that fail
    MaxCrashes,  \* process crashes and power losses
    Reader       \* threads that read objects without holding state_mutex_

Obj   == 1 .. MaxObj     \* in order of allocation: a later object is larger
NoObj == 0
Role  == {"original", "thumb"}
Key   == Node \X Role
NoKey == <<>>

Original(n) == <<n, "original">>
Thumb(n)    == <<n, "thumb">>

ASSUME MaxObjAssumption == MaxObj \in Nat
ASSUME BoundsAssumption == MaxFaults \in Nat /\ MaxCrashes \in Nat
ASSUME ShardAssumption  == ShardOf \in [Obj -> Shard]

VARIABLES
    file,        \* what the directory entries of each object are
    whole,       \* objects whose every byte has been fdatasync'ed
    unsynced,    \* objects whose entry in the shard may flip on power loss
    shard,       \* the shard directories themselves
    owner,       \* the (node, role) written into the object's header record
    next,        \* the last allocated object
    dbNodes,     \* media rows of the database
    ref,         \* object rows of the database, by (node, role)
    session,     \* ReadSession::unlocked_
    staged,      \* ReadSession::staged_objects_
    stagedIndex, \* ReadSession::staged_index_
    index,       \* ReadSession::object_index_
    op,          \* the critical section that holds state_mutex_
    life,        \* each node's way from the importer into the live tree
    treeOp,      \* what the owner of the live tree is in the middle of
    reader,      \* object reads in flight
    faults, crashes

disk    == <<file, whole, unsynced, shard, owner, next>>
db      == <<dbNodes, ref>>
volatile == <<session, staged, stagedIndex, index>>
tree    == <<life, treeOp>>
budget  == <<faults, crashes>>
vars    == <<disk, db, volatile, op, tree, reader, budget>>

FileState  == {"absent", "temp", "published"}
ShardState == {"absent", "volatile", "durable"}
Life       == {"new", "staging", "has_original", "has_both", "attached", "gone"}
StagePc    == {"create", "written", "synced", "sharded", "ready", "renamed"}

Idle == [pc |-> "idle", key |-> NoKey, obj |-> NoObj, todo |-> {}]

TypeOK ==
    /\ file \in [Obj -> FileState]
    /\ whole \subseteq Obj
    /\ unsynced \subseteq Obj
    /\ shard \in [Shard -> ShardState]
    /\ owner \in [Obj -> Key \cup {NoKey}]
    /\ next \in 0 .. MaxObj
    /\ dbNodes \subseteq Node
    /\ ref \in [Key -> Obj \cup {NoObj}]
    /\ session \in {"locked", "unlocked", "damaged"}
    /\ staged \subseteq Obj
    /\ stagedIndex \in [Key -> Obj \cup {NoObj}]
    /\ index \in [Key -> Obj \cup {NoObj}]
    /\ op \in [pc : StagePc \cup {"idle", "gc"}, key : Key \cup {NoKey},
               obj : Obj \cup {NoObj}, todo : SUBSET Obj]
    /\ op.pc \in StagePc => op.obj \in Obj /\ op.key \in Key
    /\ life \in [Node -> Life]
    /\ treeOp \in {"idle", "commit", "rethumb"}
    /\ reader \in [Reader -> [pc : {"idle", "found", "failed"},
                              key : Key \cup {NoKey}, obj : Obj \cup {NoObj}]]
    /\ faults \in 0 .. MaxFaults
    /\ crashes \in 0 .. MaxCrashes

-----------------------------------------------------------------------------
(* What the code computes from this state. *)

Unlocked   == session = "unlocked"
Referenced == {ref[k] : k \in Key} \ {NoObj}
Published  == {o \in Obj : file[o] = "published"}
Temps      == {o \in Obj : file[o] = "temp"}
Live       == {n \in Node : life[n] = "attached"}

\* Variant: what is committed is preferred to what is staged.
LookupCommittedFirst(k) == IF index[k] # NoObj THEN index[k] ELSE stagedIndex[k]

\* object_for: what a reader of (node, role) is sent to.
Lookup(k) == IF stagedIndex[k] # NoObj THEN stagedIndex[k] ELSE index[k]

\* The staged objects of one (node, role), of which the last staged wins.
StagedFor(k) == {o \in staged : owner[o] = k}

\* Variant: the session's staged objects are not spared.
GarbageUnpinned == Published \ Referenced

\* reconcile_objects, less the session's staged objects.
Garbage == (Published \ Referenced) \ staged

\* The quick check of an unlock: a missing or short object, a media row
\* without its original.
Damaged ==
    \/ \E k \in Key : ref[k] # NoObj /\ ~(ref[k] \in Published /\ ref[k] \in whole)
    \/ \E n \in dbNodes : ref[Original(n)] = NoObj

\* Variant: the directory is never synced.
SyncShardSkipped(s) == unsynced

\* sync_dir(shard) makes every entry of that directory durable.
SyncShard(s) == {o \in unsynced : ShardOf[o] # s}

NoRead  == [pc |-> "idle", key |-> NoKey, obj |-> NoObj]
NoReads == [r \in Reader |-> NoRead]
NoRefs  == [k \in Key |-> NoObj]

Fault == faults < MaxFaults /\ faults' = faults + 1 /\ UNCHANGED crashes

Init ==
    /\ file = [o \in Obj |-> "absent"]
    /\ whole = {} /\ unsynced = {}
    /\ shard = [s \in Shard |-> "absent"]
    /\ owner = [o \in Obj |-> NoKey]
    /\ next = 0
    /\ dbNodes = {} /\ ref = NoRefs
    /\ session = "unlocked"            \* ReadSession::create
    /\ staged = {} /\ stagedIndex = NoRefs /\ index = NoRefs
    /\ op = Idle
    /\ life = [n \in Node |-> "new"]
    /\ treeOp = "idle"
    /\ reader = NoReads
    /\ faults = 0 /\ crashes = 0

-----------------------------------------------------------------------------
(* stage_object / stage_object_stream: write_object and publish, one durable *)
(* step at a time.                                                           *)

\* stage_image and stage_video stage a fresh node's original, then its
\* thumbnail or poster; apply_image_thumb re-stages an attached node's.
MayStage(k) ==
    \/ k[2] = "original" /\ life[k[1]] = "new"
    \/ k[2] = "thumb" /\ life[k[1]] = "has_original"
    \/ k[2] = "thumb" /\ life[k[1]] = "attached" /\ treeOp = "idle"

BeginStage(k) ==
    /\ Unlocked /\ op = Idle /\ MayStage(k)
    /\ next < MaxObj
    /\ next' = next + 1
    /\ owner' = [owner EXCEPT ![next'] = k]
    /\ op' = [pc |-> "create", key |-> k, obj |-> next', todo |-> {}]
    /\ IF life[k[1]] = "attached"
         THEN treeOp' = "rethumb" /\ UNCHANGED life
         ELSE life' = [life EXCEPT ![k[1]] = "staging"] /\ UNCHANGED treeOp
    /\ UNCHANGED <<file, whole, unsynced, shard, db, volatile, reader, budget>>

\* Variant: the staging forgets for which node it runs.
AtUnkeyed(pc) == [pc |-> pc, key |-> NoKey, obj |-> op.obj, todo |-> {}]

\* The same staging, one step further.
At(pc) == [pc |-> pc, key |-> op.key, obj |-> op.obj, todo |-> {}]

\* create_staging_file and every write_all.
WriteTemp ==
    /\ op.pc = "create"
    /\ file' = [file EXCEPT ![op.obj] = "temp"]
    /\ op' = At("written")
    /\ UNCHANGED <<whole, unsynced, shard, owner, next, db, volatile, tree, reader, budget>>

\* Variant: the file is closed without fdatasync.
SyncTempSkipped ==
    /\ op.pc = "written"
    /\ op' = At("synced")
    /\ UNCHANGED <<disk, db, volatile, tree, reader, budget>>

\* DurableFile::sync.
SyncTemp ==
    /\ op.pc = "written"
    /\ whole' = whole \cup {op.obj}
    /\ op' = At("synced")
    /\ UNCHANGED <<file, unsynced, shard, owner, next, db, volatile, tree, reader, budget>>

\* ensure_shard: mkdirat, which an existing shard answers with EEXIST...
MakeShard ==
    /\ op.pc = "synced"
    /\ shard' = [shard EXCEPT ![ShardOf[op.obj]] = IF @ = "absent" THEN "volatile" ELSE @]
    /\ op' = At("sharded")
    /\ UNCHANGED <<file, whole, unsynced, owner, next, db, volatile, tree, reader, budget>>

\* Variant: objects/ is not synced.
SyncObjectsDirSkipped ==
    /\ op.pc = "sharded"
    /\ op' = At("ready")
    /\ UNCHANGED <<disk, db, volatile, tree, reader, budget>>

\* ...and the sync of objects/, made in either case.
SyncObjectsDir ==
    /\ op.pc = "sharded"
    /\ shard' = [shard EXCEPT ![ShardOf[op.obj]] = "durable"]
    /\ op' = At("ready")
    /\ UNCHANGED <<file, whole, unsynced, owner, next, db, volatile, tree, reader, budget>>

\* rename_noreplace of the temporary file into its shard.
Rename ==
    /\ op.pc = "ready"
    /\ file' = [file EXCEPT ![op.obj] = "published"]
    /\ unsynced' = unsynced \cup {op.obj}
    /\ op' = At("renamed")
    /\ UNCHANGED <<whole, shard, owner, next, db, volatile, tree, reader, budget>>

TreeOwnerResumes == treeOp' = IF treeOp = "rethumb" THEN "idle" ELSE treeOp

StagedLife(n, r) ==
    IF r = "original" THEN "has_original"
    ELSE IF life[n] = "attached" THEN "attached" ELSE "has_both"

\* Both directories synced, the object recorded in the session: it is pinned.
FinishStage ==
    /\ op.pc = "renamed"
    /\ unsynced' = SyncShard(ShardOf[op.obj])
    /\ staged' = staged \cup {op.obj}
    /\ stagedIndex' = [stagedIndex EXCEPT ![op.key] = op.obj]
    /\ life' = [life EXCEPT ![op.key[1]] = StagedLife(op.key[1], op.key[2])]
    /\ TreeOwnerResumes
    /\ op' = Idle
    /\ UNCHANGED <<file, whole, shard, owner, next, db, session, index, reader, budget>>

\* Any step fails: the unpublished temporary file is unlinked; a file already
\* renamed stays, its entry durable or not (the shard's sync, the staging
\* directory's or the append failed), and nothing pins it. The node is dropped.
AbortStage ==
    /\ op.pc \in StagePc
    /\ Fault
    /\ IF op.pc = "renamed"
         THEN unsynced' \in {unsynced, SyncShard(ShardOf[op.obj])} /\ UNCHANGED file
         ELSE file' = [file EXCEPT ![op.obj] = "absent"] /\ UNCHANGED unsynced
    /\ life' = [life EXCEPT ![op.key[1]] = IF @ = "attached" THEN @ ELSE "gone"]
    /\ TreeOwnerResumes
    /\ op' = Idle
    /\ UNCHANGED <<whole, shard, owner, next, db, volatile, reader>>

-----------------------------------------------------------------------------
(* The owner of the live tree. *)

\* attach_staged; an image whose decoder gave no thumbnail has only an original.
Attach(n) ==
    /\ Unlocked /\ treeOp = "idle" /\ life[n] \in {"has_original", "has_both"}
    /\ life' = [life EXCEPT ![n] = "attached"]
    /\ UNCHANGED <<disk, db, volatile, op, treeOp, reader, budget>>

\* The import drops the record: a name already taken, a cancelled batch.
Skip(n) ==
    /\ Unlocked /\ life[n] \in {"has_original", "has_both"}
    /\ life' = [life EXCEPT ![n] = "gone"]
    /\ UNCHANGED <<disk, db, volatile, op, treeOp, reader, budget>>

\* remove_image: the tree is edited first, then committed.
RemoveImage(n) ==
    /\ Unlocked /\ treeOp = "idle" /\ life[n] = "attached"
    /\ life' = [life EXCEPT ![n] = "gone"]
    /\ treeOp' = "commit"
    /\ UNCHANGED <<disk, db, volatile, op, reader, budget>>

\* commit_index of the tree as it stands.
RequestCommit ==
    /\ Unlocked /\ treeOp = "idle"
    /\ treeOp' = "commit"
    /\ UNCHANGED <<disk, db, volatile, op, life, reader, budget>>

\* Variant: all object rows are dropped and only staged objects inserted.
SyncMetadataReinserts ==
    /\ dbNodes' = Live
    /\ ref' = [k \in Key |-> IF k[1] \in Live /\ StagedFor(k) # {}
                             THEN Max(StagedFor(k)) ELSE NoObj]

\* sync_metadata: rows of nodes outside the tree go, with their objects; every
\* staged object of a node in the tree replaces its row, in staging order.
SyncMetadata ==
    /\ dbNodes' = Live
    /\ ref' = [k \in Key |-> IF k[1] \notin Live THEN NoObj
                             ELSE IF StagedFor(k) # {} THEN Max(StagedFor(k))
                             ELSE ref[k]]

\* Variants: everything staged is forgotten, committed or not; or the staged
\* index keeps its entries.
RebuildObjectIndexClears ==
    /\ index' = [k \in Key |-> IF k[1] \in Live THEN ref'[k] ELSE NoObj]
    /\ staged' = {} /\ stagedIndex' = NoRefs

RebuildObjectIndexStale ==
    /\ index' = [k \in Key |-> IF k[1] \in Live THEN ref'[k] ELSE NoObj]
    /\ staged' = {o \in staged : owner[o][1] \notin Live}
    /\ UNCHANGED stagedIndex

\* rebuild_object_index.
RebuildObjectIndex ==
    /\ index' = [k \in Key |-> IF k[1] \in Live THEN ref'[k] ELSE NoObj]
    /\ staged' = {o \in staged : owner[o][1] \notin Live}
    /\ stagedIndex' = [k \in Key |-> IF k[1] \in Live THEN NoObj ELSE stagedIndex[k]]

CommitMetadata ==
    /\ Unlocked /\ treeOp = "commit" /\ op = Idle
    /\ SyncMetadata
    /\ RebuildObjectIndex
    /\ treeOp' = "idle"
    /\ UNCHANGED <<disk, session, op, life, reader, budget>>

\* Variant: staged objects are forgotten before the rows are read back.
CommitUnreadForgets ==
    /\ Unlocked /\ treeOp = "commit" /\ op = Idle
    /\ Fault
    /\ SyncMetadata
    /\ staged' = {} /\ stagedIndex' = NoRefs
    /\ treeOp' = "idle"
    /\ UNCHANGED <<disk, session, index, op, life, reader>>

\* The transaction committed but reading the rows back failed: the caller is
\* told of an error and the session keeps its staged objects and old index.
CommitUnread ==
    /\ Unlocked /\ treeOp = "commit" /\ op = Idle
    /\ Fault
    /\ SyncMetadata
    /\ treeOp' = "idle"
    /\ UNCHANGED <<disk, volatile, op, life, reader>>

\* The transaction rolled back; the live tree keeps the edit.
CommitFails ==
    /\ Unlocked /\ treeOp = "commit" /\ op = Idle
    /\ Fault
    /\ treeOp' = "idle"
    /\ UNCHANGED <<disk, db, volatile, op, life, reader>>

-----------------------------------------------------------------------------
(* garbage_collect. *)

Collecting(todo) == [pc |-> "gc", key |-> NoKey, obj |-> NoObj, todo |-> todo]

\* cleanup_staging removes the old temporary files; of the garbage, the
\* objects past the grace period are the candidates.
BeginGc ==
    /\ Unlocked /\ op = Idle
    /\ \E oldTemps \in SUBSET Temps, old \in (SUBSET Garbage) \ {{}} :
         /\ file' = [o \in Obj |-> IF o \in oldTemps THEN "absent" ELSE file[o]]
         /\ op' = Collecting(old)
    /\ UNCHANGED <<whole, unsynced, shard, owner, next, db, volatile, tree, reader, budget>>

\* A run that finds nothing old among the objects only empties staging/.
CleanupStaging ==
    /\ Unlocked /\ op = Idle
    /\ \E oldTemps \in (SUBSET Temps) \ {{}} :
         file' = [o \in Obj |-> IF o \in oldTemps THEN "absent" ELSE file[o]]
    /\ UNCHANGED <<whole, unsynced, shard, owner, next, db, volatile, op, tree, reader, budget>>

AfterGc(todo) == IF todo = {} THEN Idle ELSE Collecting(todo)

\* collect_garbage: each candidate is checked against the database once more
\* before unlink_object, which syncs the shard.
CollectOne(o) ==
    /\ op.pc = "gc" /\ o \in op.todo
    /\ IF o \in Referenced
         THEN UNCHANGED <<file, unsynced>>
         ELSE /\ file' = [file EXCEPT ![o] = "absent"]
              /\ unsynced' = SyncShard(ShardOf[o])
    /\ op' = AfterGc(op.todo \ {o})
    /\ UNCHANGED <<whole, shard, owner, next, db, volatile, tree, reader, budget>>

\* A failed query or unlink ends the run with the rest undone; a failed sync
\* ends it after the unlink.
CollectFails(o) ==
    /\ op.pc = "gc" /\ o \in op.todo
    /\ Fault
    /\ \/ UNCHANGED <<file, unsynced>>
       \/ /\ o \notin Referenced
          /\ file' = [file EXCEPT ![o] = "absent"]
          /\ unsynced' = unsynced \cup {o}
    /\ op' = Idle
    /\ UNCHANGED <<whole, shard, owner, next, db, volatile, tree, reader>>

-----------------------------------------------------------------------------
(* Readers: object_for under state_mutex_, the file opened after it. *)

ReaderLookup(r, k) ==
    /\ Unlocked /\ op = Idle /\ reader[r].pc = "idle"
    /\ k[1] \in Live /\ Lookup(k) # NoObj
    /\ reader' = [reader EXCEPT ![r] = [pc |-> "found", key |-> k, obj |-> Lookup(k)]]
    /\ UNCHANGED <<disk, db, volatile, op, tree, budget>>

\* ObjectReader::open reads any file that is there and authenticates its
\* header record against the expected owner and role.
Readable(k, o) == o \in Published /\ o \in whole /\ owner[o] = k

ReaderOpen(r) ==
    /\ reader[r].pc = "found"
    /\ reader' = [reader EXCEPT ![r] =
          IF Readable(reader[r].key, reader[r].obj) THEN NoRead
          ELSE [pc |-> "failed", key |-> reader[r].key, obj |-> reader[r].obj]]
    /\ UNCHANGED <<disk, db, volatile, op, tree, budget>>

ReaderGivesUp(r) ==
    /\ reader[r].pc = "failed"
    /\ reader' = [reader EXCEPT ![r] = NoRead]
    /\ UNCHANGED <<disk, db, volatile, op, tree, budget>>

-----------------------------------------------------------------------------
(* Sessions and crashes. *)

\* The live tree and the session's state are lost; committed nodes come back
\* with the next unlock.
Forget ==
    /\ session' = "locked"
    /\ staged' = {} /\ stagedIndex' = NoRefs /\ index' = NoRefs
    /\ op' = Idle
    /\ life' = [n \in Node |-> IF life[n] = "new" THEN "new" ELSE "gone"]
    /\ treeOp' = "idle"
    /\ reader' = NoReads

\* Vault::lock, after end_session has drained the import queue; it waits for
\* reads in flight (thumb_mutex_).
Lock ==
    /\ Unlocked /\ op = Idle /\ treeOp = "idle"
    /\ \A n \in Node : life[n] \in {"new", "attached", "gone"}
    /\ \A r \in Reader : reader[r].pc # "found"
    /\ Forget
    /\ UNCHANGED <<disk, db, budget>>

\* ReadSession::unlock and Vault::unlock_directory: the tree and the index are
\* materialised from the database, and a damaged vault is refused.
Unlock ==
    /\ session = "locked"
    /\ IF Damaged
         THEN session' = "damaged" /\ UNCHANGED <<index, life>>
         ELSE /\ session' = "unlocked"
              /\ index' = ref
              /\ life' = [n \in Node |-> IF n \in dbNodes THEN "attached" ELSE life[n]]
    /\ UNCHANGED <<disk, db, staged, stagedIndex, op, treeOp, reader, budget>>

Crashing == crashes < MaxCrashes /\ crashes' = crashes + 1 /\ UNCHANGED faults

\* The process dies; what it wrote stays as the kernel has it.
Crash ==
    /\ Unlocked /\ Crashing
    /\ Forget
    /\ UNCHANGED <<disk, db>>

\* What an entry that was not synced may be after power is lost: a rename or an
\* unlink may be undone, a temporary file may be missing.
Survivors(o) == IF file[o] = "temp" THEN {"temp", "absent"}
                ELSE IF file[o] = "published" THEN FileState
                ELSE {"absent", "published"}

\* A shard whose entry in objects/ was not synced may be gone with its files.
PowerLoss ==
    /\ Crashing
    /\ \E lost \in SUBSET {s \in Shard : shard[s] = "volatile"},
          after \in [unsynced \cup Temps -> FileState] :
         /\ \A o \in DOMAIN after : after[o] \in Survivors(o)
         /\ file' = [o \in Obj |->
                       IF ShardOf[o] \in lost /\ file[o] = "published" THEN "absent"
                       ELSE IF o \in DOMAIN after THEN after[o] ELSE file[o]]
         /\ shard' = [s \in Shard |-> IF s \in lost THEN "absent"
                                      ELSE IF shard[s] = "volatile" THEN "durable"
                                      ELSE shard[s]]
    /\ unsynced' = {}
    /\ Forget
    /\ UNCHANGED <<whole, owner, next, db>>

Next ==
    \/ \E k \in Key : BeginStage(k)
    \/ WriteTemp \/ SyncTemp \/ MakeShard \/ SyncObjectsDir \/ Rename
    \/ FinishStage \/ AbortStage
    \/ \E n \in Node : Attach(n) \/ Skip(n) \/ RemoveImage(n)
    \/ RequestCommit \/ CommitMetadata \/ CommitUnread \/ CommitFails
    \/ BeginGc \/ CleanupStaging
    \/ \E o \in Obj : CollectOne(o) \/ CollectFails(o)
    \/ \E r \in Reader : (\E k \in Key : ReaderLookup(r, k)) \/ ReaderOpen(r) \/ ReaderGivesUp(r)
    \/ Lock \/ Unlock \/ Crash \/ PowerLoss

Spec == Init /\ [][Next]_vars

-----------------------------------------------------------------------------
(* Properties. *)

Durable(o) ==
    /\ o \in Published /\ o \in whole /\ o \notin unsynced
    /\ shard[ShardOf[o]] = "durable"

\* No object row of the database names a file that is missing, incomplete,
\* another node's, or that a power loss could still take away: publication is
\* complete before the commit, and nothing collects a referenced object.
NoDanglingReference ==
    \A k \in Key : ref[k] # NoObj => Durable(ref[k]) /\ owner[ref[k]] = k

\* Whatever the session has staged survives until a commit can reference it,
\* although the database does not know of it: garbage_collect spares it, and
\* stage_object records only what is published for good.
StagedObjectsPinned ==
    \A o \in staged : Durable(o) /\ owner[o] \in Key

\* No commit leaves a media row without its original (incomplete_media_nodes),
\* whichever of an image's two stagings failed or were still under way.
CommittedMediaComplete ==
    \A n \in dbNodes : ref[Original(n)] # NoObj

\* staged_index_ serves the same object that the commit of staged_objects_ will
\* reference, also after a node was staged twice or a commit half failed.
StagedIndexIsLatest ==
    \A k \in Key : stagedIndex[k] = (IF StagedFor(k) = {} THEN NoObj ELSE Max(StagedFor(k)))

\* What the live tree shows can be read: every attached node resolves to a
\* readable original, and to a readable thumbnail or none, committed or not,
\* while objects are staged, replaced and collected around it.
LiveNodesReadable ==
    Unlocked => \A n \in Live :
        /\ Readable(Original(n), Lookup(Original(n)))
        /\ LET thumb == Lookup(Thumb(n))
           IN thumb # NoObj => Readable(Thumb(n), thumb)

\* A read that looked its object up before a replacement or a removal may lose
\* the file to the collector; a read of what is still current never fails.
ReadFailsOnlyIfSuperseded ==
    \A r \in Reader : reader[r].pc = "failed" =>
        \/ reader[r].key[1] \notin Live
        \/ Lookup(reader[r].key) # reader[r].obj

\* No crash, failed call or interleaving makes the next unlock refuse the vault.
NeverRefusedAsDamaged == session # "damaged"

\* A commit that removed nothing never takes a node back to an object that was
\* replaced: a retried commit re-applies its staged rows without reverting.
NoReversion ==
    [][\A k \in Key : ref[k] # NoObj /\ k[1] \in dbNodes' => ref'[k] >= ref[k]]_vars

\* The store keeps the promise of the documented publication order.
Vault == INSTANCE ObjectVault WITH
    Object <- Obj, Slot <- Key, None <- NoObj,
    files <- Published \cap whole, fragile <- unsynced, refs <- ref
ImplementsObjectVault == Vault!Spec
=============================================================================
