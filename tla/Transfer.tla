------------------------------ MODULE Transfer ------------------------------
(***************************************************************************)
(* Moving and copying between vaults: vault/transfer.cpp and               *)
(* vault/combine.cpp, run by ui/file_op_job.cpp on a worker of its own.    *)
(* A driver copies media one by one into the destination's live tree,      *)
(* makes them durable a batch at a time, and only then removes them from   *)
(* the source.  Calls fail, commits fail before or after they are durable, *)
(* the user cancels, and the machine stops anywhere.                       *)
(*                                                                         *)
(* A vault is its live tree and the tree on disk; a commit writes the one  *)
(* over the other (V3Store and MetadataSync are the models of a commit).   *)
(* A node holds what must not be lost: a media node its contents, a        *)
(* gallery its own tags.  A name is a number, the place of a child in its  *)
(* gallery, and what is worked through in an order is a set of which the   *)
(* first is taken.  Inherited tags, which are added to what a node holds,  *)
(* are left out.  A definition marked "Variant" is a defective form of the *)
(* next one.                                                               *)
(***************************************************************************)
EXTENDS Naturals, Sequences, SequencesExt, FiniteSets

CONSTANTS
    Vault,       \* the vaults that are unlocked
    Start,       \* the trees they may begin with: a set of functions on Vault
    Task,        \* what the user may ask for
    SuffixNames, \* of each name, the names tried when it is taken, in order
    Batch,       \* TRANSFER_COMMIT_BATCH
    MaxFaults,   \* bound: calls that fail
    MaxCrashes,  \* bound: stops of the machine
    MaxJobs      \* bound: jobs that are started

VARIABLES
    live, disk,  \* the trees in memory and on disk
    job,         \* the FileOpJob and its OpProgress
    task, want,  \* what it was asked for, and the contents this is about
    copy,        \* the CopyCtx of the driver that runs, and where it is
    rest,        \* the galleries that transfer_galleries has left
    stack,       \* the calls of combine_impl
    tally,       \* the drivers' TransferTally, added up; a refused gallery is one failure
    faults, crashes, jobs,
    had          \* history: what the vaults held at the start

trees == <<live, disk>>
asked == <<task, want>>
callers == <<rest, stack>>
bounds == <<crashes, jobs, had>>
vars == <<trees, job, asked, copy, callers, tally, faults, bounds>>

-----------------------------------------------------------------------------
(***************************************************************************)
(* Trees.                                                                  *)
(***************************************************************************)

Path == Seq(Nat)
Node(held) == [what : {"gallery", "media"}, at : Path, holds : SUBSET held]

Taken(t, p) == \E n \in t : n.at = p
Gallery(t, p) == \E n \in t : n.at = p /\ n.what = "gallery"
MediaAt(t, p) == \E n \in t : n.at = p /\ n.what = "media"
Under(t, p) == {n \in t : IsPrefix(p, n.at)}
Children(t, p) == {n \in Under(t, p) : Len(n.at) = Len(p) + 1}
Galleries(t) == {n \in t : n.what = "gallery"}
Media(t) == {n \in t : n.what = "media"}
Content(t) == UNION {n.holds : n \in t}
Held(t, p) == UNION {n.holds : n \in {m \in t : m.at = p}}
Paths(nodes) == {n.at : n \in nodes}

\* A tree: a path is one node's and lies in a gallery; the root is a gallery.
IsTree(t) ==
    /\ Gallery(t, << >>)
    /\ \A n \in t : n.at # << >> => Gallery(t, Front(n.at))
    /\ \A n, m \in t : n.at = m.at => n = m
    /\ \A n \in Media(t) : Cardinality(n.holds) = 1

\* The place of a node below `from`, once `from` has become `to`.
Rebased(p, from, to) == to \o SubSeq(p, Len(from) + 1, Len(p))

\* Children in their order, a parent before what it contains.
Before(p, q) ==
    \/ IsPrefix(p, q)
    \/ \E i \in 1 .. Len(p) : i <= Len(q) /\ SubSeq(p, 1, i - 1) = SubSeq(q, 1, i - 1) /\ p[i] < q[i]
First(p, paths) == p \in paths /\ \A q \in paths : Before(p, q)
Final(p, paths) == p \in paths /\ \A q \in paths : Before(q, p)

\* What the user may ask for: galleries and files, never the root.
ASSUME BoundsAssumption ==
    Batch \in Nat \ {0} /\ MaxFaults \in Nat /\ MaxCrashes \in Nat /\ MaxJobs \in Nat
ASSUME TaskAssumption ==
    \A t \in Task :
        /\ t.src \in Vault /\ t.dst \in Vault /\ t.mode \in {"move", "copy"}
        /\ t.kind \in {"images", "galleries", "combine"}
        /\ t.to \in Path /\ t.paths \subseteq Path \ {<< >>} /\ IsFiniteSet(t.paths)
ASSUME NamesAssumption == \A t \in Task : \A p \in t.paths : SuffixNames[Last(p)] \in Seq(Nat)
ASSUME StartAssumption ==
    \A s \in Start :
        /\ s \in [Vault -> SUBSET Node(UNION {Content(s[v]) : v \in Vault})]
        /\ \A v \in Vault : IsTree(s[v]) /\ IsFiniteSet(s[v])

\* ensure_gallery_path, for a path whose parent is there.
MayEnsure(t, p) == Gallery(t, Front(p)) /\ (Taken(t, p) => Gallery(t, p))
Ensured(t, p) ==
    IF Taken(t, p) THEN t ELSE t \cup {[what |-> "gallery", at |-> p, holds |-> {}]}

\* merge_tag_provenance: the union of what the two galleries own.
Merged(t, p, tags) ==
    {IF n.at = p THEN [n EXCEPT !.holds = @ \cup tags] ELSE n : n \in t}

\* unique_child_name: the first name that is free.
FreeName(t, to, names) ==
    {i \in DOMAIN names : /\ ~Taken(t, Append(to, names[i]))
                          /\ \A j \in 1 .. i - 1 : Taken(t, Append(to, names[j]))}

Idle == [pc |-> "idle", kind |-> "none", from |-> << >>, todo |-> {}, pending |-> {},
         moved |-> {}, dirty |-> FALSE, failed |-> FALSE, heeds |-> FALSE, bad |-> {},
         prune |-> {}]
NoTask == [kind |-> "none"]
NoTally == [done |-> 0, failed |-> 0, skipped |-> 0]

Init ==
    /\ live \in Start /\ disk = live
    /\ job = [phase |-> "idle", cancel |-> FALSE, error |-> FALSE] /\ task = NoTask /\ want = {}
    /\ copy = Idle /\ rest = {} /\ stack = << >> /\ tally = NoTally
    /\ faults = 0 /\ crashes = 0 /\ jobs = 0
    /\ had = UNION {Content(disk[v]) : v \in Vault}

src == task.src
dst == task.dst
Moves == task.mode = "move"
Within == Moves /\ src = dst
Running == job.phase = "running"

\* A call fails.
Fault == faults < MaxFaults /\ faults' = faults + 1

\* commit_index of vault v with tree t: durable, not durable, or durable but
\* reported as failed (a later step of the commit failed).
Commit(v, t, outcome) ==
    /\ \/ outcome = "ok" /\ faults' = faults
       \/ outcome \in {"lost", "late"} /\ Fault
    /\ disk' = IF outcome = "lost" THEN disk ELSE [disk EXCEPT ![v] = t]
Outcome == {"ok", "lost", "late"}

Live(v, t) == live' = [live EXCEPT ![v] = t]
Tally(field, n) == tally' = [tally EXCEPT ![field] = @ + n]
Unless(error) == job' = [job EXCEPT !.error = @ \/ error]

-----------------------------------------------------------------------------
(***************************************************************************)
(* The drivers: transfer_images, and transfer_gallery from its snapshot on.*)
(***************************************************************************)

StepOf(what, p, from, to) == [what |-> what, from |-> p, to |-> Rebased(p, from, to)]
MediaSteps(t, p, to) == {StepOf("media", q, p, to) : q \in Paths(Media(Children(t, p)))}

\* snapshot_subtree: every gallery, parents first, each followed by its media.
SubtreeGalleries(t, p) == Paths(Galleries(Under(t, p)))
SubtreeSteps(t, p, to) == {StepOf(n.what, n.at, p, to) : n \in Under(t, p)}
Home(s) == IF s.what = "gallery" THEN s.from ELSE Front(s.from)
Sooner(s, u) ==
    IF Home(s) = Home(u) THEN s.what = "gallery" \/ (u.what = "media" /\ Before(s.from, u.from))
                         ELSE Before(Home(s), Home(u))

\* transfer_images of the media of one gallery.  Within a v3 vault a move is
\* move_node_within, file by file.
Images(within, steps, heeds) ==
    [Idle EXCEPT !.pc = IF within THEN "within" ELSE "copy", !.kind = "images",
                 !.todo = steps, !.heeds = heeds]

\* transfer_gallery, once its destination is known to be free.
Subtree(p, to, heeds) ==
    IF Within
    THEN [Idle EXCEPT !.pc = "within", !.kind = "gallery", !.from = p,
                      !.todo = {StepOf("gallery", p, p, to)}]
    ELSE [Idle EXCEPT !.pc = "copy", !.kind = "gallery", !.from = p,
                      !.todo = SubtreeSteps(live[src], p, to), !.heeds = heeds,
                      !.prune = SubtreeGalleries(live[src], p)]

Cancelled == copy.heeds /\ job.cancel
Copies == Running /\ copy.pc = "copy" /\ ~copy.failed /\ ~Cancelled
IsNext(s) == s \in copy.todo /\ \A u \in copy.todo : Sooner(s, u)
Skipped(c, s) == [c EXCEPT !.todo = @ \ {s}]

\* prepare_copied_gallery.
CopyGallery(s) ==
    /\ Copies /\ IsNext(s) /\ s.what = "gallery" /\ MayEnsure(live[dst], s.to)
    /\ Live(dst, Merged(Ensured(live[dst], s.to), s.to, Held(live[src], s.from)))
    /\ copy' = [Skipped(copy, s) EXCEPT !.dirty = TRUE]
    /\ UNCHANGED <<disk, job, asked, callers, tally, faults, bounds>>

\* It fails: the name is a file's, or the gallery or its tags cannot be made.
\* The branch is given up; without its root the whole transfer is.
CopyGalleryFails(s) ==
    /\ Copies /\ IsNext(s) /\ s.what = "gallery"
    /\ \E ensured \in {FALSE, MayEnsure(live[dst], s.to)} :
         LET branch == {u \in copy.todo : IsPrefix(s.from, u.from)}
             root == s.from = copy.from
             unread == {u \in branch : u.what = "media" /\ (root => Home(u) = s.from)}
         IN /\ IF MayEnsure(live[dst], s.to) THEN Fault ELSE faults' = faults
            /\ Live(dst, IF ensured THEN Ensured(live[dst], s.to) ELSE live[dst])
            /\ copy' = [copy EXCEPT !.todo = @ \ branch, !.bad = @ \cup {s.from},
                          !.dirty = @ \/ ensured, !.pc = IF root THEN "error" ELSE "copy"]
            /\ Tally("failed", 1 + Cardinality(unread))
    /\ UNCHANGED <<disk, job, asked, callers, bounds>>

\* copy_one_media and note_copied.
CopyMedia(s) ==
    /\ Copies /\ IsNext(s) /\ s.what = "media"
    /\ MediaAt(live[src], s.from) /\ ~Taken(live[dst], s.to) /\ Gallery(live[dst], Front(s.to))
    /\ Live(dst, live[dst] \cup {[what |-> "media", at |-> s.to,
                                  holds |-> Held(live[src], s.from)]})
    /\ copy' = [Skipped(copy, s) EXCEPT !.pending = @ \cup {s.from}, !.dirty = TRUE,
                   !.pc = IF Cardinality(copy.pending) + 1 >= Batch THEN "flush" ELSE "copy"]
    /\ UNCHANGED <<disk, job, asked, callers, tally, faults, bounds>>

\* A file of that name is there: it is skipped and its source kept.
SkipMedia(s) ==
    /\ Copies /\ IsNext(s) /\ s.what = "media"
    /\ MediaAt(live[src], s.from) /\ Taken(live[dst], s.to)
    /\ copy' = Skipped(copy, s) /\ Tally("skipped", 1)
    /\ UNCHANGED <<trees, job, asked, callers, faults, bounds>>

\* The source cannot be read or the copy not be staged; what was attached is
\* discarded (discard_copied_media).
CopyMediaFails(s) ==
    /\ Copies /\ IsNext(s) /\ s.what = "media"
    /\ IF MediaAt(live[src], s.from) /\ Gallery(live[dst], Front(s.to))
       THEN Fault ELSE faults' = faults
    /\ copy' = Skipped(copy, s) /\ Tally("failed", 1)
    /\ UNCHANGED <<trees, job, asked, callers, bounds>>

CopyEnds ==
    /\ Running /\ copy.pc = "copy" /\ (copy.todo = {} \/ copy.failed \/ Cancelled)
    /\ copy' = [copy EXCEPT !.pc = "last"]
    /\ UNCHANGED <<trees, job, asked, callers, tally, faults, bounds>>

\* flush_dst once the commit has answered: files of a durable batch are done,
\* or wait for their removal; a failed batch stops the driver.
\* Variant: the removal does not wait for the commit to succeed.
FlushedAnyway(c, ok) ==
    [c EXCEPT !.moved = IF Moves THEN @ \cup c.pending ELSE @, !.pending = {}, !.dirty = ~ok,
              !.failed = @ \/ ~ok]

Flushed(c, ok) ==
    [c EXCEPT !.moved = IF ok /\ Moves THEN @ \cup c.pending ELSE @, !.pending = {},
              !.dirty = ~ok, !.failed = @ \/ ~ok]

\* What a durable batch counts: a move counts its files once they are removed.
\* Variant: it counts them at once.
DoneAtOnce(n) == n

DoneNow(n) == IF Moves THEN 0 ELSE n

Flush ==
    /\ Running /\ copy.pc \in {"flush", "last"}
    /\ LET next == IF copy.pc = "flush" THEN "copy" ELSE "watermark" IN
         \/ /\ ~copy.dirty /\ copy' = [copy EXCEPT !.pc = next]
            /\ UNCHANGED <<disk, tally, faults>>
         \/ /\ copy.dirty
            /\ \E outcome \in Outcome :
                 LET ok == outcome = "ok"
                     n == Cardinality(copy.pending)
                 IN /\ Commit(dst, live[dst], outcome)
                    /\ copy' = [Flushed(copy, ok) EXCEPT !.pc = next]
                    /\ IF ok THEN Tally("done", DoneNow(n)) ELSE Tally("failed", n)
    /\ UNCHANGED <<live, job, asked, callers, bounds>>

\* lower_dst_watermark: a source that was not upgraded lowers the destination's
\* settings, which is a commit of its own; its outcome is ignored.
LowerWatermark ==
    /\ Running /\ copy.pc = "watermark" /\ copy' = [copy EXCEPT !.pc = "remove"]
    /\ \/ UNCHANGED <<disk, faults>>
       \/ src # dst /\ \E outcome \in Outcome : Commit(dst, live[dst], outcome)
    /\ UNCHANGED <<live, job, asked, callers, tally, bounds>>

\* What follows the removal: transfer_images returns; transfer_gallery fails if
\* a commit did, keeps the galleries on a cancel, and prunes after a move.
AfterRemoval(c) ==
    CASE c.kind = "images" -> "ok"
      [] c.kind = "gallery" /\ c.failed -> "error"
      [] c.kind = "gallery" /\ ~c.failed /\ (Cancelled \/ ~Moves) -> "ok"
      [] OTHER -> "prune"

\* The rest of finish_copies: remove_media_batch.
WithoutMedia(t, gone) == {n \in t : n.what = "media" => n.at \notin gone}

RemoveMoved ==
    /\ Running /\ copy.pc = "remove"
    /\ copy' = [copy EXCEPT !.pc = AfterRemoval(copy), !.moved = {}]
    /\ LET kept == WithoutMedia(live[src], copy.moved)
           n == Cardinality(copy.moved)
       IN IF kept = live[src]
          THEN Tally("done", n) /\ UNCHANGED <<trees, faults>>
          ELSE /\ Live(src, kept)
               /\ \E outcome \in Outcome :
                    /\ Commit(src, kept, outcome)
                    /\ Tally(IF outcome = "ok" THEN "done" ELSE "failed", n)
    /\ UNCHANGED <<job, asked, callers, bounds>>

\* prune_moved_galleries: what is empty goes, children first, but for branches
\* that were never copied; each remove_gallery commits, its outcome is ignored.
MayPrune(p) ==
    /\ Gallery(live[src], p) /\ Children(live[src], p) = {}
    /\ \A b \in copy.bad : ~IsPrefix(b, p)

Prune ==
    /\ Running /\ copy.pc = "prune"
    /\ \/ copy.prune = {} /\ copy' = [copy EXCEPT !.pc = "ok"] /\ UNCHANGED <<trees, faults>>
       \/ \E p \in copy.prune :
            /\ Final(p, copy.prune)
            /\ copy' = [copy EXCEPT !.prune = @ \ {p}]
            /\ LET t == live[src] \ Under(live[src], p)
               IN IF MayPrune(p)
                  THEN Live(src, t) /\ \E outcome \in Outcome : Commit(src, t, outcome)
                  ELSE UNCHANGED <<trees, faults>>
    /\ UNCHANGED <<job, asked, callers, tally, bounds>>

\* move_node_within: the node takes its subtree along, in one commit.  A name
\* that is taken, or a gallery that would go into itself, is refused.
MayMoveWithin(t, s) ==
    /\ Taken(t, s.from) /\ Gallery(t, Front(s.to)) /\ ~Taken(t, s.to)
    /\ ~IsPrefix(s.from, s.to)
\* Variant: what the gallery contains stays behind.
MovedAlone(t, s) == {IF n.at = s.from THEN [n EXCEPT !.at = s.to] ELSE n : n \in t}

MovedWithin(t, s) ==
    {IF IsPrefix(s.from, n.at) THEN [n EXCEPT !.at = Rebased(n.at, s.from, s.to)] ELSE n : n \in t}

MoveWithin(s) ==
    /\ Running /\ copy.pc = "within" /\ IsNext(s) /\ ~Cancelled
    /\ LET stays == Front(s.from) = Front(s.to)
           done(ok) == /\ Tally(IF ok THEN "done" ELSE "failed",
                                IF ok /\ copy.kind = "gallery" THEN 0 ELSE 1)
                       /\ copy' = [Skipped(copy, s) EXCEPT !.pc = IF copy.kind = "images" THEN "within"
                                                                  ELSE IF ok THEN "ok" ELSE "error"]
       IN \/ stays /\ done(TRUE) /\ UNCHANGED <<trees, faults>>
          \/ ~stays /\ ~MayMoveWithin(live[src], s) /\ done(FALSE) /\ UNCHANGED <<trees, faults>>
          \/ /\ ~stays /\ MayMoveWithin(live[src], s)
             /\ Live(src, MovedWithin(live[src], s))
             /\ \E outcome \in Outcome :
                  Commit(src, MovedWithin(live[src], s), outcome) /\ done(outcome = "ok")
    /\ UNCHANGED <<job, asked, callers, bounds>>

MoveWithinEnds ==
    /\ Running /\ copy.pc = "within" /\ (copy.todo = {} \/ Cancelled)
    /\ copy' = [copy EXCEPT !.pc = "ok"]
    /\ UNCHANGED <<trees, job, asked, callers, tally, faults, bounds>>

-----------------------------------------------------------------------------
(***************************************************************************)
(* The callers: transfer_galleries and combine_impl.                       *)
(***************************************************************************)

Top == Last(stack)
WithTop(f) == Append(Front(stack), f)
Combines(step) == Running /\ copy.pc = "idle" /\ stack # << >> /\ Top.step = step
CombineFrame(p, to, heeds) ==
    [step |-> "merge", at |-> p, to |-> to, subs |-> {}, heeds |-> heeds]
Heard(f) == f.heeds /\ job.cancel

\* A driver returns, and a list or a combination goes on also if it failed.  What
\* transfer_galleries counts, galleries and not files, is not kept.
Return ==
    /\ Running /\ copy.pc \in {"ok", "error"}
    /\ copy' = Idle
    /\ Unless(copy.pc = "error")
    /\ UNCHANGED <<trees, asked, callers, tally, faults, bounds>>

\* transfer_gallery of the next path: refused, merged into the gallery that has
\* its name, or copied under its own or a free name (resolve_dest_collision).
NextGallery(p) ==
    /\ Running /\ copy.pc = "idle" /\ stack = << >> /\ First(p, rest) /\ ~job.cancel
    /\ rest' = rest \ {p}
    /\ LET to == Append(task.to, Last(p))
           refused == \/ src = dst /\ IsPrefix(p, task.to)
                      \/ ~Gallery(live[src], p)
           free == FreeName(live[dst], task.to, SuffixNames[Last(p)])
           alone == Cardinality(task.paths) = 1
       IN \/ /\ refused \/ (Taken(live[dst], to)
                   /\ \/ task.policy = "fail"
                      \/ task.policy = "combine" /\ ~Gallery(live[dst], to)
                      \/ task.policy = "suffix" /\ free = {})
             /\ Unless(TRUE) /\ Tally("failed", 1) /\ UNCHANGED <<stack, copy>>
          \/ /\ ~refused /\ task.policy = "combine" /\ Gallery(live[dst], to)
             /\ stack' = << CombineFrame(p, to, alone) >>
             /\ UNCHANGED <<copy, job, tally>>
          \/ /\ ~refused /\ ~Taken(live[dst], to)
             /\ copy' = Subtree(p, to, alone) /\ UNCHANGED <<stack, job, tally>>
          \/ /\ ~refused /\ Taken(live[dst], to) /\ task.policy = "suffix"
             /\ \E i \in free :
                  copy' = Subtree(p, Append(task.to, SuffixNames[Last(p)][i]), alone)
             /\ UNCHANGED <<stack, job, tally>>
    /\ UNCHANGED <<trees, asked, faults, bounds>>

\* combine_impl gives up: so do its callers, but not a list of galleries.
GiveUp == stack' = << >> /\ Unless(TRUE)

\* validate_combine, and the merge of the galleries' own tags in a commit of its
\* own that is undone in memory if it fails.
CombineTags ==
    /\ Combines("merge")
    /\ LET cycle == src = dst /\ IsPrefix(Top.at, Top.to)
           valid == ~cycle /\ Gallery(live[src], Top.at) /\ Gallery(live[dst], Top.to)
           t == Merged(live[dst], Top.to, Held(live[src], Top.at))
       IN \/ ~valid /\ GiveUp /\ UNCHANGED <<trees, faults>>
          \/ /\ valid
             /\ \E outcome \in Outcome :
                  /\ Commit(dst, t, outcome)
                  /\ IF outcome = "ok"
                     THEN /\ Live(dst, t) /\ UNCHANGED job
                          /\ stack' = WithTop([Top EXCEPT !.step = "media"])
                     ELSE GiveUp /\ UNCHANGED live
    /\ UNCHANGED <<asked, copy, rest, tally, bounds>>

\* move_media_children.
CombineMedia ==
    /\ Combines("media")
    /\ stack' = WithTop([Top EXCEPT !.step = "list"])
    /\ LET steps == MediaSteps(live[src], Top.at, Top.to)
       IN copy' = IF steps = {} THEN copy ELSE Images(Within, steps, Top.heeds)
    /\ UNCHANGED <<trees, job, asked, rest, tally, faults, bounds>>

\* move_subgalleries_children and merge_subgallery_child: a child that the
\* destination has is merged, another is transferred whole.
CombineList ==
    /\ Combines("list")
    /\ stack' = WithTop([Top EXCEPT !.step = "subs",
                                    !.subs = Paths(Galleries(Children(live[src], Top.at)))])
    /\ UNCHANGED <<trees, job, asked, copy, rest, tally, faults, bounds>>

CombineChild(p) ==
    /\ Combines("subs") /\ First(p, Top.subs) /\ ~Heard(Top)
    /\ LET to == Rebased(p, Top.at, Top.to)
           left == WithTop([Top EXCEPT !.subs = @ \ {p}])
       IN IF Taken(live[dst], to)
          THEN stack' = Append(left, CombineFrame(p, to, Top.heeds)) /\ UNCHANGED copy
          ELSE stack' = left /\ copy' = Subtree(p, to, FALSE)
    /\ UNCHANGED <<trees, job, asked, rest, tally, faults, bounds>>

\* The end of combine_impl: after a move the gallery goes if nothing is left in it.
CombineEnds ==
    /\ Combines("subs") /\ (Top.subs = {} \/ Heard(Top))
    /\ LET t == live[src] \ Under(live[src], Top.at)
       IN IF Moves /\ Children(live[src], Top.at) = {}
          THEN /\ Live(src, t)
               /\ \E outcome \in Outcome :
                    /\ Commit(src, t, outcome)
                    /\ IF outcome = "ok" THEN stack' = Front(stack) /\ UNCHANGED job ELSE GiveUp
          ELSE stack' = Front(stack) /\ UNCHANGED <<trees, job, faults>>
    /\ UNCHANGED <<asked, copy, rest, tally, bounds>>

-----------------------------------------------------------------------------
(***************************************************************************)
(* The job: FileOpJob::launch and its start functions, cancel, the end.    *)
(***************************************************************************)

\* The media that a task is about.
Wanted(t) ==
    IF t.kind = "images" THEN {n \in Media(live[t.src]) : n.at \in t.paths}
    ELSE {n \in Media(live[t.src]) : \E p \in t.paths : IsPrefix(p, n.at)}

Launch(t) ==
    /\ ~Running /\ jobs < MaxJobs /\ jobs' = jobs + 1
    /\ job' = [phase |-> "running", cancel |-> FALSE, error |-> FALSE]
    /\ task' = t /\ want' = Content(Wanted(t)) /\ tally' = NoTally
    /\ copy' = IF t.kind # "images" THEN Idle
               ELSE Images(t.mode = "move" /\ t.src = t.dst,
                           {StepOf("media", p, Front(p), t.to) : p \in t.paths}, TRUE)
    /\ rest' = IF t.kind = "galleries" THEN t.paths ELSE {}
    /\ IF t.kind = "combine" THEN \E p \in t.paths : stack' = << CombineFrame(p, t.to, TRUE) >>
                             ELSE stack' = << >>
    /\ UNCHANGED <<trees, faults, crashes, had>>

Cancel ==
    /\ Running /\ ~job.cancel /\ job' = [job EXCEPT !.cancel = TRUE]
    /\ UNCHANGED <<trees, asked, copy, callers, tally, faults, bounds>>

\* The work returns, a list of galleries also with some left if it was cancelled,
\* and take_outcome joins it.
JobEnds ==
    /\ Running /\ copy.pc = "idle" /\ stack = << >> /\ (rest = {} \/ job.cancel)
    /\ job' = [job EXCEPT !.phase = "ended"] /\ rest' = {}
    /\ UNCHANGED <<trees, asked, copy, stack, tally, faults, bounds>>

\* The machine stops; both vaults are opened again.
Crash ==
    /\ Running /\ crashes < MaxCrashes /\ crashes' = crashes + 1
    /\ live' = disk /\ job' = [job EXCEPT !.phase = "idle"] /\ task' = NoTask /\ want' = {}
    /\ copy' = Idle /\ rest' = {} /\ stack' = << >>
    /\ UNCHANGED <<disk, tally, faults, jobs, had>>

Next ==
    \/ \E s \in copy.todo :
          \/ CopyGallery(s) \/ CopyGalleryFails(s) \/ CopyMedia(s) \/ SkipMedia(s)
          \/ CopyMediaFails(s) \/ MoveWithin(s)
    \/ CopyEnds \/ Flush \/ LowerWatermark \/ RemoveMoved \/ Prune \/ MoveWithinEnds \/ Return
    \/ \E p \in rest : NextGallery(p)
    \/ CombineTags \/ CombineMedia \/ CombineList
    \/ (stack # << >> /\ \E p \in Top.subs : CombineChild(p)) \/ CombineEnds
    \/ \E t \in Task : Launch(t)
    \/ Cancel \/ JobEnds \/ Crash

Spec == Init /\ [][Next]_vars

-----------------------------------------------------------------------------
(***************************************************************************)
(* Properties.                                                             *)
(***************************************************************************)

\* The type invariant: in memory and on disk every vault is a tree of what the
\* vaults held at the start, whatever step stopped or failed, and a batch of
\* copies is never larger than it may be.
TypeOK ==
    /\ live \in [Vault -> SUBSET Node(had)] /\ disk \in [Vault -> SUBSET Node(had)]
    /\ \A v \in Vault : IsTree(live[v]) /\ IsTree(disk[v])
    /\ job \in [phase : {"idle", "running", "ended"}, cancel : BOOLEAN, error : BOOLEAN]
    /\ copy.pc \in {"idle", "copy", "flush", "last", "watermark", "remove", "prune", "within",
                    "ok", "error"}
    /\ Cardinality(copy.pending) <= Batch
    /\ tally \in [done : Nat, failed : Nat, skipped : Nat]
    /\ faults \in 0 .. MaxFaults /\ crashes \in 0 .. MaxCrashes /\ jobs \in 0 .. MaxJobs

\* transfer.cpp: "Destination durability strictly precedes any source mutation,
\* so a crash anywhere leaves recoverable duplicates, never a lost file".  What
\* the vaults held at the start, media and the tags of galleries, empty ones
\* too, is on disk in one of them at every moment, whatever failed, was
\* cancelled, retried or cut short.
Everything == UNION {Content(disk[v]) : v \in Vault}
NothingLost == Everything = had

\* The drivers' tallies, added up, are true: transfer.h has done be "how many files
\* committed to the destination".  Over all its batches and removals, a job counts
\* no more files done than are on disk at the destination and, after a move, no
\* longer at the source; and between two vaults, without a failure or a cancel,
\* every file was done or skipped.  What a dialog shows for whole galleries are
\* other counters, which the model does not have.
Arrived ==
    {c \in want : c \in Content(disk[dst]) /\ (Moves /\ src # dst => c \notin Content(disk[src]))}
TallyIsTrue ==
    job.phase = "ended" =>
        /\ tally.done <= Cardinality(Arrived)
        /\ src # dst /\ ~job.error /\ ~job.cancel /\ tally.failed = 0 =>
              tally.done + tally.skipped = Cardinality(want)
=============================================================================
