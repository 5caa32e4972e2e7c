# Obscura Safe Vault: specification and proofs

TLA+ models of the vault engine of Obscura Safe Vault (OSV), the TLC instances
that check them and the TLAPS proofs about them. OSV is a desktop image and
video vault: a C++ program that keeps encrypted media in a *directory vault*
(format v3: a header, an SQLCipher database of metadata and one immutable file
per encrypted object), can read and convert the older *single-file vaults*, and
imports media in the background while the user browses.

What can go wrong in it is mostly about order: files are published before the
rows that name them, rows are switched before files are collected, a tree in
memory is edited before the transaction that stores it, and threads of an import
share all of that with the user interface. The models keep that order, every
failure between two steps included, and leave the data out.

## Inventory

| Component | State | Operations | Depends on | Correct when |
|---|---|---|---|---|
| Object files (`vault/v3_fs`, `v3_object_store`) | staging files, shard directories, published objects | create, write, sync, publish, unlink, scan, clean staging | the file system | what is published is complete and survives; nothing half-written is ever published |
| Metadata database (`vault/v3_db`, `v3_schema.h`) | nodes, objects, tags, settings, searches | `sync_metadata`, references, conversion tables, backup | SQLite | a commit mirrors the tree or changes nothing; references are to objects of that node |
| Read session (`vault/v3_read_session`) | `staged_objects_`, `staged_index_`, `object_index_`, tree, header | create, unlock, stage, commit, collect, read, lock, change password | files, database | staged media survive until committed; readers get what the tree shows |
| Recovery (`vault/v3_recovery`) | none | reconcile, collect, verify | files, database | only garbage is collected; damage is reported, a healthy vault is not refused |
| Vault (`vault/vault`, `staging`, `rename_batch`) | live tree, settings, session | tree edits, each ending in a commit; lock | session, commit lane | a reported success is in the table; a failure leaves something that can be reopened |
| Commit lane (`vault/commit_lane`) | pending snapshot, in-flight flag, failure flag | enqueue, flush, stop | index writer | what flush confirms is on disk; stop drains |
| Single-file vault (`vault/index_io`, `chunk_store`, `compact_plan`) | header with two index slots, data region | append, commit, compact, reclaim | the file system | a crash leaves one complete index whose media are intact |
| Legacy converter (`vault/legacy_converter`) | source cursor, destination, marker | copy in batches, resume, verify, finalise | session, database | every node is copied once; what opens is a complete copy; a stopped conversion can be finished; the user's edits are never overwritten |
| Import queue (`ui/import_queue`, `recursive_import`, `zip_plan`) | tasks, staged records, look-ahead window, archive frames, save worker | enqueue, cancel, reorder, worker steps, drain, save, abort | vault, lane | every accepted file ends imported, skipped or failed; nothing waits forever |
| App (`app/app`, `app/auto_lock`) | active, pending and warm vault, screen, overlays, parked navigation, idle timer | dispatch, update, auto-lock, navigation, shutdown | all of the above | no lock under a running job or import; what is drawn is current; one import session, that of the unlocked vault |
| Jobs (`ui/file_op_job`, `migration_job`) | progress, result | start, poll, cancel | vault | the vault has one owner |
| Decode workers (`media/video_decode_worker`, `image/decode_worker`) | queues, generation | request, seek, stop | object reads | no frame from before a seek is shown after it |
| Mutation coordinator (`vault/v3_mutation`) | writer lock | acquire, release | file lock | one writer |
| Transfer and combine (`vault/transfer`, `combine`) | two vaults, a batch of copies, deferred removals | copy, move, merge | sessions, jobs | a failed move loses nothing; what is counted done is done |
| Backup (`vault/v3_backup`) | a second directory | copy | database, files | the copy opens |
| Tags (`vault/tag_bundles`), rename rules, compaction plan, frame arithmetic | none | pure functions | | agree with their definition |
| Clipboard gate (`ui/clipboard_gate`) | pending secret, timer | copy, confirm, expire | | a secret does not outlive its timer |
| Cryptography, decoders, rendering, widgets | | | | left out: no protocol to check |

The parts meet in four ways. *Calls under a mutex*: session operations hold
`state_mutex_`; readers hold it only to look an object up and open the file after
it. *Publication before reference*: an importer publishes files that nothing in
the database names; the session's staged set is all that keeps the collector away
until the main thread attaches the node and commits. *Edit before commit*: every
tree operation changes the live tree and then mirrors it with one transaction, and
most do not undo the change when that fails. *Ownership hand-over*: save workers,
file jobs and the converter own the tree or the vault for a while and the main
thread keeps off it.

The hazards this leads to, each at its line, are in `PROJECT.json`.

## Modules

| Module | What it models |
|---|---|
| `V3Store` | the object store, its session, the importer's and the tree owner's use of it, garbage collection, readers, crashes and power losses |
| `ObjectVault` | what the store promises: publish, make durable, switch references, reclaim |
| `MCV3Store` | an instance of `V3Store` for TLC |
| `V3StoreProofs` | theorems about `V3Store` |
| `MetadataSync` | the nodes table, `sync_metadata` row by row and the tree edits that end in it |
| `MCMetadataSync` | instances of `MetadataSync` for TLC |
| `MetadataSyncProofs` | theorems about `MetadataSync` |
| `LegacyConversion` | converters, the destination they leave on disk, and the user who opens it |
| `LegacyConversionProofs` | theorems about `LegacyConversion` |
| `MCLegacyConversion` | instances of `LegacyConversion` for TLC |
| `ArchiveWalk` | the plan of an archive, its depth-first walk and the walk's budget, as operators on a walk |
| `ImportQueue` | the import pipeline: main thread, worker and save worker; runs `ArchiveWalk` |
| `ImportQueueProofs` | theorems about `ImportQueue` |
| `MCImportQueue` | instances of `ImportQueue` for TLC |
| `Application` | frames of the main loop, screens, jobs, overlays and the lock boundary |
| `MCApplication` | instances of `Application` for TLC |
| `ApplicationProofs` | theorems about `Application` |
| `Transfer` | moves, copies and merges between two vaults |
| `TransferProofs` | theorems about `Transfer` |
| `MCTransfer` | an instance of `Transfer` for TLC |

Each module stands on what another shows: `ImportQueue` and `Transfer` take a commit
as the atomic step that `V3Store` and `MetadataSync` show it to be, and `Application`
keeps of the import queue what a frame can see of it.

A definition whose comment begins with "Variant" is a deliberately broken form of
the definition after it (a sync left out, a set cleared too early). No
specification uses it; putting it in the place of the real one is how each
property is shown to be able to fail.

### V3Store

*State.* `file`, `whole`, `unsynced`, `shard` are the disk: whether an object is
absent, a temporary file or published; whether its bytes were `fdatasync`ed;
whether its directory entry may still flip; whether its shard's own entry in
`objects/` is durable. `owner` is the (node, role) authenticated in the object's
header record. `dbNodes` and `ref` are the media and object rows of the database.
`session`, `staged`, `stagedIndex`, `index` are the fields of `ReadSession`. `op`
is the critical section under `state_mutex_`: a staging at one of its steps, or a
collection with the candidates it has left. `life` follows each node from the
importer into the live tree; `treeOp` says what the owner of that tree is in the
middle of. `reader` holds the reads that have looked up an object and not opened
it. Objects are numbered in order of allocation, ids being random and fresh.

*Staging* (`stage_object`, `write_object`, `publish`) is one action per durable
step: `BeginStage`, `WriteTemp`, `SyncTemp`, `MakeShard`, `SyncObjectsDir`,
`Rename`, `FinishStage`. `AbortStage` is the failure of any of them. A failure
after the rename leaves the file in place, its entry synced or not, with nothing to
pin it: `publish` sets `published_` before it syncs, so `close` does not unlink.

*The tree's owner* attaches staged nodes (`Attach`), drops them (`Skip`), removes
nodes, re-stages thumbnails of attached nodes (`BeginStage` with `treeOp` =
"rethumb") and commits. `CommitMetadata` is `commit_metadata` with the
transaction and the rebuilding of the session's index in one step, as both run
under the mutex. `CommitUnread` is the case where the transaction commits and the
read of the rows fails; `CommitFails` is the rollback.

*Collection* (`garbage_collect`) takes its candidates in `BeginGc` (unreferenced,
not staged, an arbitrary subset of them old enough) and deletes them one at a
time, asking the database again before each. The session's mutex is held
throughout; readers do not hold it.

*Crashes.* `Crash` loses memory. `PowerLoss` also lets every entry that was not
synced be as before or after its change, and every shard that was not synced
disappear with its files. `Unlock` performs the quick verification; a vault that
fails it goes to the session value "damaged", so that the refusal is a state that a
property can speak of.

*Assumed.* An SQLite commit is atomic and durable when it returns, and its own
journal handling is correct. A `fdatasync` or directory `fsync` that returns
success is durable. Object bytes are authentic if they are complete. A failed
sync leaves the entry either way. The collector never removes temporary files of
the staging under way, as it needs the mutex.

### MetadataSync

*State.* `kids` and `name` are the live tree, `used` the nodes that exist or existed.
`rows` is the nodes table as committed (parent, name, sibling order and rowid of each
node but the root), `view` the table as the connection sees it within a transaction.
`live` is the temporary table `osv_live_nodes`; `walk` is what
`MetadataNodeWriter::store` has still to visit, next first, each node with the parent and
the position under which it will be written; `undo` the names that the edit restores
unless its commit succeeds. `phase` is "ready", "commit" within a transaction, or "shut"
for a vault that an unlock refused; `result` is what the last commit or unlock returned.

*The transaction* is one action per row, as the system may fail between any two.
An edit changes the live tree and begins it (`Begin`), where `Vacate` shifts all sibling
orders and replaces all names. `StoreNode` is `store_one`: it marks a node live,
upserts its row, with the two unique keys checked against every other row, and puts its
children before the rest of the walk. `DropRow` is one row of the `DELETE` of what is not
live, in rowid order, with the foreign key's RESTRICT action checked at each. `CommitEnds`
checks the deferred key, commits, and may still report a failure, when the objects cannot
be read back. `SystemFails` rolls back from anywhere. The edits are the tree operations
with the rollback each of them has: only the batch rename (`SwapNames`) undoes its edit.
`Reopen` is lock and unlock: it reads the tree back in sibling order (`Ordered`), or
refuses one that is too deep (`TooDeep`), as `build_children` does.

### LegacyConversion

*State.* The destination outlives every converter: `dest` (the directory), `marker`
and `map` (the two conversion tables), `row`, `parent`, `ref`, `settings` (what the
database holds and whom each piece was copied from), `garbage` (there are object
files without a row) and `holder` (who has the writer lock). Each converter has its
place in `LegacyConverter::run` (`pc`), its source, whether it resumed, and the
status it reports. `cursor`, `batch`, `ids` and `staged` are the copy under way;
one set is enough because only the holder of the lock copies. A source is the list
of its nodes in depth-first order, parents first, which is how `copy_node` visits
and `conversion_source_key` numbers them; its content does not change, since legacy
vaults are opened read-only.

*Actions*, in the order of the code: `StartNew`, `CreateVault`, `BeginConversion`
(new destination), or `Resume`, `AcceptMarker` / `RejectMarker`, `CheckDestination`
(existing one); `MapNode`, `StageOriginal`, `StageDerived`, `CountNode`,
`CommitFull`, `CommitTail`, `Finalize` (the copy); `CleanUp`, which collects if the
conversion was resumed and gives the lock up; `Reopen`, `Compare`,
`FinishConversion`; `OpenCopy`, the job's hand-over of the copy to the user. Between
`CleanUp` and `Reopen`, and again before `OpenCopy`, anyone may take the lock.
`Stop` is a failure, a cancellation or a crash before any of these steps; a
transaction that commits and is then reported failed is a stop before the next one.
`UserUnlock` takes the lock before it looks at the marker, as `unlock_directory`
does, so that a refused user can make a converter's reopening fail.

*Assumed.* Staged objects are durable (this is what `V3Store` shows). The clock does
not run backwards, so that a collection with no grace period takes all garbage.
Digests tell different contents apart. The credentials are right; the source is
readable, or else the step that reads it is a `Stop`.

### ArchiveWalk and ImportQueue

*State.* `rows` is `tasks_`, `records` the bounded `records_`, `tree` what the imports
attached, in order, and `saved` how much of it a commit has reached. `save` is the
save worker, `w` the import worker with its place in `process_files_task` and its
look-ahead window, `walk` its archive walk: the frames from the root to the current
archive, the budget and the tally. `main` is the main thread's place in a session:
running, or at a step of `abort_and_flush`.

*Actions.* `BeginSession`, `Enqueue`, `Cancel`, `Reorder`, `ClearFinished` and
`SetExclusive` are the calls of the main thread; `Drain` is one call of `drain` with
any number of records its deadline lets it apply, the batch policy, the idle latch and
the launch of a save; `AbortBegins`, `AbortJoins` and `EndSession` are
`abort_and_flush` with its two joins apart, so that the worker's last records and the
save's end may fall anywhere between. The worker takes the first waiting row, fills
its window, stages in order, posts and waits for room; `WalkAdvances` and `WalkPosts`
run `ArchiveWalk`, which asks the sink for a gallery, a tag or a media file and goes
on with its answer. `MayDescend` has the five limits of `RecursionBudget`.

Two peculiarities of the code are kept: the window's byte counter grows by the size of
a vector that was moved from, which is zero, and shrinks by the real size, so it wraps
(`ByteRange`); and a file that cannot be submitted leaves a gap in the window.

*Left out.* Volume sets, the flat comic importer, the decode pool (it shortens a wait
of at most five seconds) and what the tag review writes. Of the three outcomes that
attaching a record has in `drain` (`ui/import_queue.cpp:740-747`) the model has two,
attached and name taken. The third is an `attach_staged` that fails otherwise: the
gallery could not be made because a file has its name, or memory ran out. Such a record is
dropped and counted nowhere, so that what `EntriesAccounted` says holds only without it;
no file of the instance has the name of a gallery.

### Application

A frame is a sequence of steps (`phase`): events, the save poll, the screen's update,
maintenance and warm slot, upgrade and session, drain, idle lock, navigation. Each is
one or more actions; the workers (a screen's job, the coordinator of the upgrade,
maintenance, the import task, the save) end between any two of them, and the frame
learns of it only where the code polls. `screen.listing` says whether the
screen has listed the tree since a worker changed it ("changed") or a confirmed lock
attached what was staged ("flushed"); `queue` is what `ImportQueue` shows to a
frame; `confirm` and `replay` are a navigation that waits for the user and one that is
to be carried out again. "gallery" stands for the screens that block the idle lock
while they work (`GalleryGrid`, `DualGalleryScreen`), "collection" for those built on
`CollectionBatchOps` (`FavoritesScreen`, `AdvancedSearchScreen`). The idle timer is a
choice of each frame, which covers the user's "keep unlocked". A save that fails is in
`ImportQueue` only.

### Transfer

A vault is a tree in memory (`live`) and on disk (`disk`): a set of nodes, each at a
path, the root at `<< >>`. A name is a number, and a node holds what must not be lost,
its contents or its own tags. `copy` is the `CopyCtx` of the driver that runs: the steps
it has left, the batch that is not durable, the files to remove later, the branches that
failed, the galleries to prune. Each of these is a set, taken in the order of the code
(`IsNext`, `First`, `Final`: children in their order, a parent before what it contains,
or after it where the code prunes). Its callers are `rest`, the galleries of
`transfer_galleries` still to come, and `stack`, the recursion of `combine_impl`, one
frame for each gallery it is in. `task` is the request and `want` the media it is about.

A commit ends in one of three ways: durable, not durable and reported so, or durable and
reported failed. A failed batch stops its driver: its copies are counted as failed and stay in
the destination's live tree, from where a later commit may still make them durable.
Only a file whose tags cannot be attached is taken out again (`discard_copied_media`,
in `CopyMediaFails`). A failed removal leaves duplicates; pruning goes bottom-up and
ignores the outcome of its commits. `Crash` reopens both vaults from disk. The watermark
is an additional commit of the destination; inherited tags and favourites, which only
add to what a node holds, are left out.

*What is counted.* `tally` adds up the `TransferTally` of every driver that a job runs.
For a transfer of files the dialog shows just this, and for a combination the same
`done`, with failed and skipped files together as skipped. For whole galleries it shows
other counters, which are left out: `progress.done` for one gallery, the number of
galleries gone through for several (see the observations below). `TallyIsTrue` speaks of
the drivers' tallies and not of those.

## Runs

| Run | Instance | Shows |
|---|---|---|
| `V3Store` | 2 nodes, 1 shard, 4 objects, 1 failing call, 1 crash, 1 reader | publication, pinning and collection of concurrent imports and replacements, half-failed commits, reads across a collection; refinement of `ObjectVault` |
| `MetadataSync` | 2 galleries, 1 media node, 2 names, depth 2, 2 system failures | tree edits and their commits, row by row |
| `MetadataSyncRemoval` | as above | the first finding below |
| `MetadataSyncDepth` | as above | the second finding below |
| `LegacyConversion` | 2 converters, 2 sources of 5 nodes, batches of 2, 4 stops, 2 unlocks by the user | what is on disk, what opens and what survives, whoever runs when |
| `LegacyConversionRetry` | 1 converter, 1 source of 5 nodes, 2 stops, 2 unlocks | a marked conversion is finished |
| `LegacyConversionAbandoned` | 1 converter, 1 stop | the third finding below |
| `ImportQueue` | a list of 4 files, an archive with 3 nested ones, 2 sessions, 2 records, a window of 2, 1 control, 1 fault | order, counts, budget, ownership of the tree, nothing left behind; tasks settle and aborts return |
| `ImportStall` | a list of 3 files, the second unreadable | the fourth finding below |
| `Application` | 2 vaults, 2 events a frame, 1 import | listings, session, saves, locks, parked navigation |
| `LockUnderJob` | as `Application` | the fifth finding below |
| `Transfer` | 3 pairs of trees, 13 requests, 2 of them in a row, batches of 2, 2 failing calls, 1 crash | nothing is lost, what the drivers count as done is done |

*Bounds.* In `V3Store`, `MaxObj` bounds allocations: 4 let two nodes have an original and
a thumbnail each, or one thumbnail be replaced twice, so that a reader may hold an object
that two newer ones have followed. One failing call meets every step of a staging, a commit or
a collection; `MaxCrashes` = 1 suffices because a crash returns the store to a state that
depends on the disk and the database alone. One shard makes every publication share its
directory syncs with the others, which is the worse case. The two nodes are symmetric.
That nothing depends on these numbers is what the theorems say, which cover every
property of this run. In `MetadataSync`, two galleries are what nesting and moves between
galleries need, two names what collisions and swaps need; with two failures one can leave
tree and table apart and the other meet the commit that follows. A limit of two on the
depth can be exceeded by three nodes. The galleries are symmetric under renaming. Two
galleries and two media nodes with one failure were checked once (1.3 million states)
and are not a run because of their time; here too the theorems cover every number. In `LegacyConversion`, five nodes are the least
with a gallery below the root, media with and without a thumbnail, and two full
batches followed by a short one (the code's batches have 32 nodes); six identities
leave a choice for every fresh one, and the run that has no liveness property
treats those other than the root's as symmetric. Four stops let a conversion be
stopped while copying, resumed and stopped again before and after its lock is
given up, with one left for the other converter; a second unlock lets the user
be refused once and enter later. In `ImportQueue` two records and a window of two
make the worker wait and the window be full (the code has 256 and 8); the files are
one good, one the vault refuses, one good with a name the archive uses too, and one
unreadable at the end, where its gap does no harm; the nested archives are one that
exceeds the live bytes, one that is entered and one that comes after the expanded
bytes are spent; two sessions show what one leaves for the next. With `outer` made a
folder in `MCKind` the same properties hold. In `Application` two
vaults are what a switch and a warm slot need. `MaxKeys` = 2 lets a key open a dialog
and the next answer it within one frame, and `MaxImports` = 1 lets one import and its
save meet everything else; the safety properties are proved for every bound. In `Transfer` the tree has a gallery in a
gallery and an empty one with tags; batches of two make a third file a batch of its
own; one request combines a gallery into the one it lies in; the destination is empty, has the same names, or has a file where a gallery would
go; the second job is a retry of the first or meets what it left.

*Deadlock* is checked in every run but `Transfer`: a vault can always be locked and
unlocked, a conversion be asked for again, a frame be run, and an import queue that has
used up its sessions says so (`Over`). In `Transfer` the program rests when the bounded
number of jobs has ended.

*Fairness.* `LegacyConversionRetry` assumes weak fairness of a job's own
steps (a thread that has been started runs; none of its steps waits, because
`try_writer_lock` does not), of the user who asks again for a conversion that is not
finished, and of the end of a user's unlock and session. Stops and unlocks are
bounded. There is one converter: two that retry for ever can take the lock from
each other between `CleanUp` and `Reopen` for ever, and nothing in the code prevents
that. `ImportQueue` assumes weak fairness of the worker, of the main thread's pump (once
a frame) and of its abort, of the save worker's commit, and of the end of an exclusive
period: threads that have been started run, and an exclusive job ends. It does not
assume that the user does anything, nor that a commit succeeds. `Application` assumes
weak fairness of the frame and of each worker's end; it does not assume that the user
presses a key, and the idle timer need not expire. The other properties are safety
properties of the unfair specifications.

## Findings

**Removing a gallery.** `sync_metadata` cannot remove a gallery that has anything in it. `parent_id` is
`ON DELETE RESTRICT DEFERRABLE INITIALLY DEFERRED` (`vault/v3_schema.h:28`); a
RESTRICT action takes effect at once even when the key is deferred, and one
`DELETE ... NOT IN (...)` (`vault/v3_db.cpp:966`) visits rows in rowid order, in
which a gallery precedes its contents. The transaction is refused and rolled back,
and the live tree has already lost the gallery, so every later commit is refused as
well until the vault is reopened. `v3_db.h:207` says that the snapshot is mirrored
and the references of removed nodes are dropped in the same transaction. Run
`MetadataSyncRemoval` has the three-step trace; `RefusesOnlyRemovals` shows that
nothing else is refused, and `TableIsATree` that what is refused does no damage.

**A tree too deep.** "Tree depth: at most 128 edges from the logical root"
(`docs/V3_VAULT_FORMAT.md:286`). Only the reader enforces it: `build_children`
(`vault/v3_read_session.cpp:208`) gives up at a gallery 128 edges deep, and the unlock
returns `BadFormat`. `create_gallery`, `move_node_within` and `sync_metadata` have no such
limit, and the wrapper's own check (`parent_depth_allowed`, `vault/v3_db.cpp:398`) is on
`insert_node`, which a commit does not call. A gallery created or moved that deep is
committed with success, and the vault cannot be unlocked afterwards. Run
`MetadataSyncDepth`, with the limit at 2, has the trace.

**A conversion stopped at its start.** The README says "Conversion is cancellable and
resumable" (`README.md:31`), and the design notes "interruption resumes safely"
(`docs/roadmap/phase-115-legacy-vault-converter.md:88`). `open_destination`
(`vault/legacy_converter.cpp:939`) first creates a complete empty vault and then, in
another transaction, records the marker. A crash between the two, or a failing
`begin_conversion`, leaves a vault that no retry accepts (`ResumeMismatch`) and that
an ordinary unlock opens as an empty one. Nothing is lost: the user has to remove the
directory or choose another. Run `LegacyConversionAbandoned` has the trace. Once the
marker is there, `MarkedConversionFinishes` holds. That a retry must not simply take
such a vault over is `EditsSurvive`: the user may have opened and used it.

**An unreadable file in a list.** "Stop if draining made no progress (prevents looping
on a blocked window)" (`ui/import_queue.cpp:1176`) guards the loop that loads files and
not the one that drains the rest (1193). A file that `submit_file` refuses leaves a
gap in the window, `next_to_stage` never reaches the file behind it, and the worker
spins until the task is cancelled: nothing after the gap is imported, no other task
starts, and the busy queue holds the idle lock off. Run `ImportStall`. The passing run
has its unreadable file last, where `TaskSettles` holds.

**A lock under a job.** `Screen::blocks_idle_lock` is there because "Locking then would
wipe the master key mid-write and corrupt the vault" (`ui/screen.h:74-77`). The screens
built on `CollectionBatchOps` start deletes, transfers and exports and do not override
it, so the idle timer locks and destroys the vault under the worker
(`app/app.cpp:1301-1322`); the job is joined only when the screen is destroyed after
that. Run `LockUnderJob`.

### Further observations

Met while modelling, without a run of their own.

* `ToUnlock` ends the import session while the active vault stays unlocked
  (`app/app.cpp:1233-1249`). Escape leads to the manager, and choosing the active vault
  again goes to its gallery without a promotion, so that no session begins: imports
  picked there stay queued, `busy()` stays true, and a lock that the user confirms is
  parked again each time, as `abort_and_flush` does nothing once `aborted_` is set.
* Right after a promotion, one batch of events can request an unlock of another vault
  and, with F2, an upgrade, whose offer holds `begin_session` back. `ToUnlock` ends the
  session and leaves `need_begin_session` set; when the offer is dismissed, `update`
  (`app/app.cpp:1439-1443`) begins a session on the old vault, while the unlock screen
  is shown. A parked unlock that is confirmed while the offer is open does the same.
  `ui/import_queue.h:52-54` has a session end before its vault goes; this is why
  `SessionFollowsVault` says "or a session is about to begin", without which it is false.
* "Park lock-ish actions that occur while imports are pending. These actions will be
  replayed after the user confirms the import abort" (`app/app.cpp:1184-1185`). The test
  below it, `!lock_confirm.open` (1186-1187), parks only the first: when the user asks the
  manager to lock and closes the window in the same frame, the quit opens the warning, and
  the lock that is taken up at the end of that frame finds it open and goes through. The
  imports are cut short before the user has answered, and the warning about the quit stays.
  `WarnsBeforeLocking` therefore says "over an open warning" and not "after the user's
  consent": without its last disjunct TLC finds this trace in the instance of
  `Application`, with two events in one frame.
* What the dialog says was "Moved" or "Copied" is true of files and not of galleries.
  `copy_one_media_ex` adds to `progress.done` for a file that was skipped or failed too
  (`vault/transfer.cpp:466`, and 519 and 534 for branches that are given up), and
  `run_gallery_transfer` reports that as done (`ui/file_op_job.cpp:182-188`), beside the
  failures. `transfer_galleries` counts a gallery as done even if all its files failed
  (787), and a collision that is resolved by combining adds the combination's failures
  to the skipped files (213-216, `vault/combine.cpp:128`).
* A record whose gallery cannot be made, since a file has its name, is neither imported
  nor skipped nor failed (`ui/import_queue.cpp:740-747`): the import ends as done without
  it.
* The user confirms a lock, `abort_and_flush` attaches what was staged, and a picker
  answered in the same frame enqueues another import, so that the navigation is parked
  again and the old listing drawn. `screen.listing` = "flushed" is this case; it is the
  only one in which what is drawn is not what the vault holds (`FrameShowsCurrentTree`).
* Combining a gallery into the one it lies in is allowed ("flatten upward",
  `vault/combine.cpp:56-66`). Where 1/3 is combined into 1 and holds a gallery that is
  called 3 too, `merge_subgallery_child` finds 1/3 itself as the counterpart of 1/3/3,
  merges the tags of 1/3/3 into it and removes 1/3/3; then 1/3 is empty and is removed,
  and those tags are on no gallery any more. `vault/combine.h:42-49` promises the
  union of the tags, and that "nothing already committed to dst is ever lost". `NothingLostTheorem`
  therefore excludes upward combinations (`NeverUpward`); the run has one, without such
  a name, and finds nothing lost.
* `exclusive_` is a flag, not a count: of two holders the first to end releases it for
  both, and a gallery's delete that began while a navigation waited behind a save
  leaves it set.
* F2 opens the settings over the progress of an upgrade, from where maintenance can be
  started beside it; the backup's folder picker starts maintenance without asking
  whether imports have begun meanwhile.
* `maybe_auto_lock` locks the active vault and leaves the warm one; `LockActive` locks
  both.
* A subgallery that a combination within one vault moves whole is counted as skipped,
  since `move_node_within` leaves its tally at zero.
* If the removal of a pruned child gallery was refused, that of its parent removes both
  rows at once and meets the first finding.

## Proofs

### V3Store

`V3StoreProofs` proves, for every set of nodes, shards and readers, any number of
objects, faults and crashes, and any placement of objects in shards (assumptions
`MaxObjAssumption`, `BoundsAssumption`, `ShardAssumption`):

* `TypeCorrect`: `Spec => []TypeOK`;
* `ReferencesHold`, `StagedSurvive`, `MediaComplete`, `StagedIndexHolds`,
  `UnlockNeverRefuses`, `LiveReadable`: the invariants of the same meaning that
  the runs check;
* `ReadsHold`: a read that finds no file lost it to a newer version of the object;
* `NoReversionTheorem`: no commit makes the database name an older version;
* `Refinement`: `V3Store` implements `ObjectVault`.

None of its safety invariants is inductive. That a commit references a durable
object needs every *staged* object to be durable, which needs every publication to
have synced its file and its shard *before* the rename, which is a fact about a
staging at each of its steps. The inductive invariant `Inv` is therefore

* `TypeOK`;
* `PublicationInv`: a published object, or one that may come back after a power
  loss, is complete and in a durable shard; a staging at each step finds what the
  previous ones left; candidates of a collection are published;
* `PinInv`: referenced and staged objects are durable and of the right owner, and
  none of them is in the hands of a staging or of the collector. This is where the
  staged set, the re-check and the mutex are needed;
* `TreeInv`: a node on its way into the tree has a staged original, one in the
  tree a staged or committed one; the session's index agrees with the database
  wherever nothing is staged over it; a locked session holds nothing.

The proof of each part has one step per action. `Shape` summarises what a step may
do to what pins an object (allocate, move references, advance a staging, advance a
collection), so that `PinStep` argues about four kinds of step and not twenty. That
a set of staged objects has a largest element (`LastStaged`) comes from
well-founded induction, the set being bounded by `MaxObj`. The refinement maps a
step of the store to a publication (the rename), a sync, a switch of references
(the commit), a reclamation (an unlink), a power loss, or a stutter; `Inv` in the
state before supplies what a switch needs, that staged objects are in place for good.

Readers open files without the mutex, so that what they rely on is an order: objects are
numbered as they are allocated, a staged object is not older than the one its slot
refers to (`StagedAboveRef`), and what a slot looks up only grows (`LookupGrows`). A
reader's object is then the current one or one that was replaced, and only the latter
can be gone (`Reads`). The two parts rest on `Inv` and are proved from it.

### MetadataSync

`MetadataSyncProofs` proves, for any finite set of galleries and media (fewer than the
offset that vacates the sibling orders, 2000000; an unlock takes at most 1000000), any
names, depth limit and number of failures, `TypeCorrect`, `OkMeansMirroredTheorem`,
`TableIsATreeTheorem` and `RefusesOnlyRemovalsTheorem`. The assumptions are
`NodeAssumption`, `NameAssumption` (a node id is a BLOB and so never equal to a name),
`DepthAssumption` and `FaultsAssumption`.

That a commit is refused only for a removal speaks of every row a transaction writes, so
that the invariant is about a transaction halfway (`CommitInv`):

* `LiveTree`, of the live tree and of the one a failed edit restores: a node is in one
  place, a gallery that is not in the tree is empty (`Grounded`), no gallery lies below
  itself (`NoCircle`), siblings have different names. Every edit preserves it; for moves
  and removals this is shown through the relation between a node and its gallery
  (`Under`), since moving a gallery below itself is the only way to a circle;
* `WalkInv` and `LiveInv`: what was written and what is still to visit grow down from the
  root without meeting: a node is in `live`, or in `walk`, or below a node in `walk`. When
  nothing is left to visit, all nodes are written (`AllVisited`, by `NoCircle`);
* `ViewInv`: every row of the view is the mirror of a written node, or a vacated row of
  the last commit. So nothing clashes (`NoClash`): two mirrors differ because the tree is
  one, and a vacated row has a node id for its name and an order beyond any position;
* `TableInv`: the committed table mirrors *some* live tree, so that `Reopen` reads one
  back (`Reconstruct`: the number of siblings with a smaller order is the position).

A deletion that is refused exhibits the pair of rows in `Stuck`; a commit that is not
leaves exactly the mirrored rows. Whatever ends a transaction otherwise leaves `rows` as
it was, which is why `TableIsATree` holds although tree and table may differ.

### LegacyConversion

`LegacyConversionProofs` proves all safety properties for every source, shape of tree,
batch size, number of converters, stops and users. The invariant they share, `Inv`, is

* `LockInv`: whoever works on the destination holds the lock, so that one copy is under
  way at most;
* `DiskInv`: what is on disk, by the marker and by whether the user has been there: no
  marker and unedited means untouched or whole; a marker means that what is recorded is
  copied, to different identities, and that nothing else is there (`MapOK`);
* `JobInv`: what a converter may still rely on at each point between two steps. It gives
  the lock up before it verifies and before it hands the copy over, so that this is
  little: the vault is whole, or the user has been in it;
* `CopyInv`: the identities and objects of the batch under way, and that what is staged
  is a copy of this source.

`CommittedPrefix` alone says nothing of the nodes in a batch and `OpensOnlyWhole` nothing
of a vault that bears a marker; both need all four. `EditsSurviveTheorem` is an action
property: no step of a converter can change a vault that the user has edited, because
such a vault has no marker and a converter that resumes refuses it.

### ImportQueue

`ImportQueueProofs` proves, for all tasks, files, archives, limits, sessions and
failures, the invariants `NothingLeftBehind`, `ImportedCountsAttachments`,
`ReviewIsComplete`, `FileOrderKept` and `WalkWithinBudget`, and the action property
`TreeOwnedByOne`. The live total of a walk is a sum along its path. The invariant has it
as the existence of its partial sums (`SumsTo`), which entering an archive extends by one
and leaving it shortens by one, so that what is given back is there to be given; that
these are the values of the recursive function of `LiveOnPath` is `SumIsLive`. What
makes the others inductive is where each actor may be: the worker has a task exactly while it
is busy and the running row is its own (`WorkerInv`, `RowsInv`); what is at work at each
step of `abort_and_flush` (`MainInv`); that nothing names a task before it is enqueued
(`UsedInv`); that a reviewed task is over and has nothing among the records
(`ReviewInv`); and that the files in the tree and then among the records come in the
order of their task and before the one that is staged next (`OrderInv`), which relates
two queues and the worker's window. A drain moves a prefix of the records to the tree,
so that their concatenation does not change; that collisions leave elements out and keep
the order of the others is a lemma on picking elements of a sequence by their rank
(`Picked` is defined by ranks for this reason).

### Application

`ApplicationProofs` proves, for every set of vaults and any number of events and
imports:

* `SaveOwnsTheTreeTheorem`: no job of a blocking screen and no maintenance works on the
  tree while the save worker owns it. A screen's update could start a job in any state
  this allows; what is missing is *when* a save can be under way (`SaveSpansFrames`): it
  starts at the end of an update (`Drain`) and is polled before the next one
  (`PollSave`), and while there is one the events of a frame are dropped;
* `FrameShowsCurrentTreeTheorem`: a screen that lists the tree and has not listed it
  since it was changed is *owed* a new listing (`Owed`): by its own job that has ended,
  an upgrade, maintenance or a save, each of which is polled before the frame is drawn
  and has the screen list the tree again (`ListingInv`);
* `SessionFollowsVaultTheorem`, with `UnlockInv` (a session on the unlock screen has
  nothing to do) and `NavOK` (what is parked or replayed names a vault and lists none);
* `WarnsBeforeLockingTheorem`, an action property, whoever asks for the lock and however
  long it was parked: the idle timer never locks the vault away from imports that were
  not given up, and a navigation does so only over an open warning. That the warning was
  answered is not claimed, and false (see the observations).

### Transfer

`TransferProofs` proves, for any vaults, trees, requests, batch size, faults, crashes and
number of jobs, `TypeCorrect` (both vaults remain finite trees, of what there was) and
`NothingLostTheorem`. The second assumes `NeverUpward`, that no request combines a
gallery into one that it lies in: without it the property is false (see above).

`NothingLost` speaks of the disk; a crash and a commit of either vault make memory and
disk meet. So `Kept` says that everything is in memory *and* on disk of one and the same
vault. That a removal keeps this needs

* `DriverInv`: what a driver waits to remove is at the destination, on disk as soon as
  its batch is (`Secured`); each gallery it will prune is still to be copied, lies in a
  branch that was given up, or has its tags there. A driver that ends without a failed
  commit is through its plan or was cancelled, and has everything on disk (`Settled`):
  this is why a prune after a failed flush removes nothing that is only here;
* `FrameInv`: a gallery under combination, once its tags are merged, holds nothing that
  its counterpart does not, in memory and on disk (`Combined`), and this for every frame
  of the recursion at once;
* `AreaInv`: within one vault source and destination are the same tree, and a step for
  one frame could undo what another relies on. The two galleries of the first frame lie
  apart (this is validated before its tags are merged), every later frame and every file
  it moves lies below them (`Area`), and so what goes is never what has been merged.

That a tree stays a tree (`IsTree`) is proved for each operation on trees from lemmas
about prefixes of paths; "the shortest path with a property" comes from well-founded
induction. Both are stated over constants, apart from the steps that use them.

### Model-checked only

* `EntriesAccounted`: a sum over the archives that a task has entered, equal to a count
  of the steps of the walk and of two queues. It needs an archive to be named once, as in
  the run, since the archives entered are a set; and it takes induction over the fold.
* `TallyIsTrue`: it counts a file by its contents, which is right where no two files have
  the same and no copy is made within a vault, as in the run, and not for every `Start`.
* Liveness: `TaskSettles`, `AbortReturns`, `MarkedConversionFinishes`, `ReplayResolved`.

## Plan

1. `V3Store`, `ObjectVault`, `MetadataSync`, `LegacyConversion`: done, with proofs of
   their safety properties and of the refinement.
2. `ArchiveWalk` and `ImportQueue`, `Application`, `Transfer`: done, with proofs of their
   safety properties.
3. Proofs that would come next: the entries a walk accounts for; `NothingLost` with
   upward combinations that meet no equal name.
4. Left for a later extension: decode workers (generations of requests), the writer lock
   with header replacement and backup, the migration's passes, and the pure parts (tag
   provenance, rename rules, frame arithmetic) against reference definitions.

## Not modelled

Encryption (objects that are complete are taken as authentic), formats and codecs,
decoding, rendering, widgets, paths and dialogs. In the database: tags, categories,
settings and searches, which the same transaction writes after the nodes; they can
refuse it but reference no object. In the session: password change, backup and the
verify and optimize commands.

The single-file vault's writer (index slots, appends, compaction) and the commit lane's
worker, which serves it: production code opens these vaults read-only and converts them,
so that only tests reach the writer; a directory vault commits inside
`enqueue_snapshot`, which is modelled.

The viewer, the video player and their decode workers: they read objects and change
nothing that is stored.

By lines most of the repository is drawing and layout, widgets, key handling of
individual screens, decoders, wrappers of libraries, text and parsing. The models cover
the parts in which threads, failures, crashes or the order of steps decide whether the
program is right; a model of the rest would repeat the code.
