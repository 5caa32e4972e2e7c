---------------------------- MODULE ImportQueue ----------------------------
(***************************************************************************)
(* The background import pipeline: ui/import_queue.cpp.  Four actors share *)
(* it.  The main thread enqueues, reorders and cancels tasks and pumps     *)
(* drain once a frame; the worker runs one task at a time and posts staged *)
(* records; the save worker writes the tree to the vault, and owns the     *)
(* tree while it does; the decode pool only shortens the worker's staging  *)
(* (a wait of at most five seconds) and is not a state of this model.      *)
(*                                                                         *)
(* A step is a section under the queue's mutex or a section nobody else    *)
(* can see.  A call of drain is one step: what the worker posts between    *)
(* two of its pops could as well have come before or after the call.       *)
(***************************************************************************)
EXTENDS ArchiveWalk, TLC

CONSTANTS
    Task,            \* the tasks the user enqueues, each once
    JobOf,           \* what each task imports
    RecordCap,       \* the limit of records_ (256)
    LookAhead,       \* LOOKAHEAD_MAX_ITEMS (8)
    MaxBytes,        \* LOOKAHEAD_MAX_BYTES, in files
    ByteRange,       \* the modulus of the window's byte counter (2^64)
    DrainMax,        \* records one drain applies (32)
    FilesPerCommit,  \* BatchCommitPolicy::FILES_PER_COMMIT (32)
    MaxSessions,     \* bound: sessions begun
    MaxControls,     \* bound: cancels, reorders, clears and exclusive periods
    MaxFaults        \* bound: saves that fail and tasks that throw

(***************************************************************************)
(* A job is a list of files or one archive (or folder).  A file "bad" is   *)
(* refused by submit_file (not a regular file, empty or too long); "junk"  *)
(* is read and then refused by the vault's staging.                        *)
(***************************************************************************)
File == [read : {"good", "bad", "junk"}, name : STRING]

Job == [kind : {"files"}, files : Seq(File)] \cup [kind : {"archive"}, root : Archive]

ASSUME QueueAssumption ==
    /\ JobOf \in [Task -> Job]
    /\ {RecordCap, LookAhead, MaxBytes, DrainMax, FilesPerCommit} \subseteq Nat \ {0}
    /\ ByteRange \in Nat /\ ByteRange > MaxBytes /\ "none" \notin Task
    /\ {MaxSessions, MaxControls, MaxFaults} \subseteq Nat

VARIABLES
    rows,        \* tasks_: the queue, finished rows included
    cancel,      \* the tasks whose progress->cancel is set
    records,     \* records_: staged work for the main thread
    tree,        \* what the imports have added to the index tree, in order
    saved,       \* how much of it the vault has committed
    save,        \* the save worker: "none", "running", or done: "ok", "failed"
    saveFailed, laneFailed, exclusive, stop, aborted, batchEnded,
    files,       \* policy_.files_since_commit
    pending,     \* tags collected per task and not reviewed
    reviewed,    \* history: the tasks whose tags were given to the user
    main,        \* the main thread: "closed", "run", or a step of abort_and_flush
    w,           \* the worker
    walk,        \* the archive walk of the worker's task
    entered,     \* history: the archives the walk of a task entered
    used,        \* history: the tasks that were enqueued
    sessions, controls, faults

queueVars == <<rows, cancel, records, exclusive, stop, aborted, batchEnded>>
saveVars == <<saved, save, saveFailed, laneFailed>>
workVars == <<w, walk, entered>>
boundVars == <<sessions, controls, faults>>
vars == <<queueVars, saveVars, workVars, boundVars, tree, files, pending, reviewed, used, main>>

NoTask == "none"
Row == [id : Task, state : {"Queued", "Running", "Done", "Failed", "Cancelled"},
        imported : Nat, skipped : Nat]
Record == [kind : {"gallery", "media", "tag"}, task : Task, name : STRING \cup Archive]
Worker == [pc : {"exited", "idle", "load", "submit", "drain", "tail", "post", "walk", "walkpost",
                 "finish"},
           task : Task \cup {NoTask}, i : Nat \ {0}, window : Seq(Nat), next : Nat \ {0}, bytes : Nat,
           after : {"load", "tail"}, moved : BOOLEAN, skipped : Nat, failed : BOOLEAN]

IdleWorker == [pc |-> "idle", task |-> NoTask, i |-> 1, window |-> << >>, next |-> 1, bytes |-> 0,
               after |-> "load", moved |-> FALSE, skipped |-> 0, failed |-> FALSE]

Finished(row) == row.state \in {"Done", "Failed", "Cancelled"}
IndexOf(t) == CHOOSE j \in DOMAIN rows : rows[j].id = t
InQueue(t) == \E j \in DOMAIN rows : rows[j].id = t
FilesOf(t) == JobOf[t].files

Init ==
    /\ rows = << >> /\ records = << >> /\ tree = << >>
    /\ cancel = {} /\ reviewed = {} /\ pending = [t \in Task |-> 0]
    /\ saved = 0 /\ files = 0 /\ save = "none"
    /\ saveFailed = FALSE /\ laneFailed = FALSE /\ exclusive = FALSE
    /\ stop = FALSE /\ aborted = FALSE /\ batchEnded = FALSE
    /\ main = "closed" /\ w = [IdleWorker EXCEPT !.pc = "exited"]
    /\ walk = NoWalk /\ entered = [t \in Task |-> {}] /\ used = {}
    /\ sessions = 0 /\ controls = 0 /\ faults = 0

-----------------------------------------------------------------------------
(***************************************************************************)
(* The main thread: a session and the control of its queue.                *)
(***************************************************************************)

\* The vault was unlocked: the tree is what the vault had committed.
BeginSession ==
    /\ main = "closed" /\ sessions < MaxSessions
    /\ main' = "run" /\ sessions' = sessions + 1
    /\ rows' = << >> /\ records' = << >> /\ pending' = [t \in Task |-> 0]
    /\ exclusive' = FALSE /\ saveFailed' = FALSE /\ laneFailed' = FALSE
    /\ aborted' = FALSE /\ stop' = FALSE /\ batchEnded' = TRUE
    /\ tree' = SubSeq(tree, 1, saved) /\ w' = IdleWorker
    /\ UNCHANGED <<cancel, saved, save, files, reviewed, used, walk, entered, controls, faults>>

\* enqueue_files, enqueue_archive, enqueue_folder: a fresh row re-arms the latch.
Enqueue(t) ==
    /\ main = "run" /\ t \notin used /\ used' = used \cup {t}
    /\ rows' = Append(rows, [id |-> t, state |-> "Queued", imported |-> 0, skipped |-> 0])
    /\ batchEnded' = FALSE
    /\ UNCHANGED <<cancel, records, exclusive, stop, aborted, saveVars, workVars, boundVars,
                   tree, files, pending, reviewed, main>>

\* Reaching the queue's controls: the user's input is dropped during a save.
Control == main = "run" /\ save = "none" /\ controls < MaxControls /\ controls' = controls + 1

Cancel(t) ==
    /\ Control /\ InQueue(t)
    /\ \/ /\ rows[IndexOf(t)].state = "Queued"
          /\ rows' = [rows EXCEPT ![IndexOf(t)].state = "Cancelled"]
          /\ cancel' = cancel
       \/ /\ rows[IndexOf(t)].state = "Running"
          /\ cancel' = cancel \cup {t}
          /\ rows' = rows
    /\ UNCHANGED <<records, exclusive, stop, aborted, batchEnded, saveVars, workVars,
                   sessions, faults, tree, files, pending, reviewed, used, main>>

\* reorder_import_task: a queued row may change places with a queued row.
Reorder(t, delta) ==
    /\ Control /\ InQueue(t)
    /\ LET j == IndexOf(t) IN
         /\ j + delta \in DOMAIN rows
         /\ rows[j].state = "Queued" /\ rows[j + delta].state = "Queued"
         /\ rows' = [rows EXCEPT ![j] = rows[j + delta], ![j + delta] = rows[j]]
    /\ UNCHANGED <<cancel, records, exclusive, stop, aborted, batchEnded, saveVars, workVars,
                   sessions, faults, tree, files, pending, reviewed, used, main>>

ClearFinished ==
    /\ Control /\ \E j \in DOMAIN rows : Finished(rows[j])
    /\ rows' = Picked(rows, {j \in DOMAIN rows : ~Finished(rows[j])})
    /\ UNCHANGED <<cancel, records, exclusive, stop, aborted, batchEnded, saveVars, workVars,
                   sessions, faults, tree, files, pending, reviewed, used, main>>

\* A file operation or a migration takes the vault, and gives it back.
SetExclusive(held) ==
    /\ exclusive = ~held /\ exclusive' = held
    /\ IF held THEN Control ELSE main = "run" /\ controls' = controls
    /\ UNCHANGED <<rows, cancel, records, stop, aborted, batchEnded, saveVars, workVars,
                   sessions, faults, tree, files, pending, reviewed, used, main>>

-----------------------------------------------------------------------------
(***************************************************************************)
(* The main thread: drain.                                                 *)
(***************************************************************************)
SameName(a, b) == a.kind = b.kind /\ a.name = b.name

\* Of the first n records, those that are attached: a gallery unless it is there,
\* a file unless its name is taken, in the tree or by a record before it.  That
\* attach_staged fails otherwise, for want of the gallery (a file has its name) or
\* of memory, is left out: drain counts such a record neither way.
Fresh(n) ==
    {j \in 1 .. n : /\ records[j].kind # "tag"
                    /\ \A i \in DOMAIN tree : ~SameName(tree[i], records[j])
                    /\ \A i \in 1 .. j - 1 : ~SameName(records[i], records[j])}

MediaOf(J, t) == {j \in J : records[j].kind = "media" /\ records[j].task = t}

Attached(fresh) == tree \o Picked(records, fresh)

\* mark_task_imported and mark_task_skipped, for a record that is attached or
\* collides: the row may have been cleared.
Counted(n, fresh) ==
    [j \in DOMAIN rows |->
       [rows[j] EXCEPT
          !.imported = @ + Cardinality(MediaOf(fresh, rows[j].id)),
          !.skipped = @ + Cardinality(MediaOf((1 .. n) \ fresh, rows[j].id))]]

FilesAfter(fresh) == files + Cardinality({j \in fresh : records[j].kind = "media"})

\* A tag is collected for the review of its task.
Collected(n) ==
    [t \in Task |-> pending[t] + Cardinality({j \in 1 .. n : /\ records[j].kind = "tag"
                                                             /\ records[j].task = t})]

\* poll_save: a save that is done is joined, and the tree is the main thread's.
Polled == IF save \in {"ok", "failed"} THEN "none" ELSE save
PolledFailed == IF save \in {"ok", "failed"} THEN save = "failed" ELSE saveFailed

\* Variant: drain does not look for a save in progress.
DrainBlindly == ~PolledFailed /\ ~laneFailed /\ ~exclusive

MayDrain == Polled = "none" /\ ~PolledFailed /\ ~laneFailed /\ ~exclusive

\* BatchCommitPolicy::due: enough files, or some files and two seconds.
Due(n) == IF n >= FilesPerCommit THEN {TRUE} ELSE IF n > 0 THEN BOOLEAN ELSE {FALSE}

Idle(q, rs) == rs = << >> /\ \A j \in DOMAIN q : Finished(q[j])

\* Variant: the latch is set without a look at the queue.
LatchAlways(q, rs) == TRUE

\* maybe_end_batch's latch.
Latch(q, rs) == Idle(q, rs)

\* request_save: the save worker is launched, or its launch fails.
Launch ==
    \/ save' = "running" /\ saveFailed' = FALSE /\ faults' = faults
    \/ /\ faults < MaxFaults /\ faults' = faults + 1
       /\ save' = "none" /\ saveFailed' = TRUE

Drain ==
    /\ main = "run" /\ MayDrain
    /\ \E n \in IF records = << >> THEN {0} ELSE 1 .. Min({DrainMax, Len(records)}) :
         LET fresh == Fresh(n)
             after == Counted(n, fresh)
             left == SubSeq(records, n + 1, Len(records))
         IN  /\ tree' = Attached(fresh) /\ rows' = after /\ pending' = Collected(n)
             /\ records' = left
             /\ batchEnded' = Latch(after, left)
             /\ \E due \in Due(FilesAfter(fresh)) :
                  LET ends == Idle(after, left) /\ ~batchEnded IN
                  /\ files' = IF due \/ ends THEN 0 ELSE FilesAfter(fresh)
                  /\ IF due \/ ends THEN Launch
                     ELSE save' = "none" /\ saveFailed' = FALSE /\ faults' = faults
    /\ UNCHANGED <<cancel, exclusive, stop, aborted, saved, laneFailed, workVars,
                   sessions, controls, reviewed, used, main>>

\* drain's early return, after a save that is done has been joined.
DrainReturns ==
    /\ main = "run" /\ ~MayDrain /\ save \in {"ok", "failed"}
    /\ save' = "none" /\ saveFailed' = (save = "failed")
    /\ UNCHANGED <<queueVars, saved, laneFailed, workVars, boundVars, tree, files, pending,
                   reviewed, used, main>>

\* take_tag_review: only a finished task with no record left.
\* Variant: a task's tags are offered as soon as its records are drained.
ReviewableEarly(t) == /\ pending[t] > 0
                      /\ \A j \in DOMAIN records : records[j].task # t

Reviewable(t) == /\ pending[t] > 0
                 /\ InQueue(t) => Finished(rows[IndexOf(t)])
                 /\ \A j \in DOMAIN records : records[j].task # t

TakeReview(t) ==
    /\ main = "run" /\ save = "none" /\ ~exclusive /\ ~aborted /\ Reviewable(t)
    /\ pending' = [pending EXCEPT ![t] = 0]
    /\ reviewed' = reviewed \cup {t}
    /\ UNCHANGED <<queueVars, saveVars, workVars, boundVars, tree, files, used, main>>

-----------------------------------------------------------------------------
(***************************************************************************)
(* The main thread: abort_and_flush and end_session, before every lock.    *)
(***************************************************************************)
AbortBegins ==
    /\ main = "run"
    /\ main' = "join" /\ aborted' = TRUE /\ exclusive' = FALSE /\ stop' = TRUE
    /\ rows' = [j \in DOMAIN rows |-> IF Finished(rows[j]) THEN rows[j]
                                      ELSE [rows[j] EXCEPT !.state = "Cancelled"]]
    /\ cancel' = cancel \cup {rows[j].id : j \in DOMAIN rows}
    /\ UNCHANGED <<records, batchEnded, saveVars, workVars, boundVars, tree, files, pending,
                   reviewed, used>>

\* The worker is joined, then wait_for_save.
JoinBoth == w.pc = "exited" /\ save # "running"

AbortJoins ==
    /\ main = "join" /\ JoinBoth
    /\ main' = "attach" /\ save' = Polled /\ saveFailed' = PolledFailed
    /\ UNCHANGED <<queueVars, saved, laneFailed, workVars, boundVars, tree, files, pending,
                   reviewed, used>>

\* The final snapshot on the commit lane, unless the lane failed before.
FinalCommit(t) ==
    \/ ~laneFailed /\ saved' = Len(t) /\ UNCHANGED <<laneFailed, faults>>
    \/ ~laneFailed /\ faults < MaxFaults /\ faults' = faults + 1 /\ laneFailed' = TRUE
       /\ saved' = saved
    \/ laneFailed /\ UNCHANGED <<saved, laneFailed, faults>>

\* What was staged is attached and counted nowhere, unreviewed tags are
\* dropped, and the tree is committed a last time.
EndSession ==
    /\ main = "attach"
    /\ records' = << >> /\ tree' = Attached(Fresh(Len(records)))
    /\ FinalCommit(tree')
    /\ pending' = [t \in Task |-> 0] /\ main' = "closed"
    /\ UNCHANGED <<rows, cancel, exclusive, stop, aborted, batchEnded, save, saveFailed, workVars,
                   sessions, controls, files, reviewed, used>>

-----------------------------------------------------------------------------
(***************************************************************************)
(* The save worker: one metadata commit of the whole tree.                 *)
(***************************************************************************)
SaveCommits ==
    /\ save = "running" /\ saved' = Len(tree) /\ save' = "ok"
    /\ UNCHANGED <<queueVars, saveFailed, laneFailed, workVars, boundVars, tree, files, pending,
                   reviewed, used, main>>

SaveFails ==
    /\ save = "running" /\ faults < MaxFaults
    /\ save' = "failed" /\ laneFailed' = TRUE /\ faults' = faults + 1
    /\ UNCHANGED <<queueVars, saved, saveFailed, workVars, sessions, controls, tree, files,
                   pending, reviewed, used, main>>

-----------------------------------------------------------------------------
(***************************************************************************)
(* The worker.                                                             *)
(***************************************************************************)
WorkerOnly == UNCHANGED <<saveVars, boundVars, tree, files, pending, reviewed, used, main>>

\* A step of the worker's own: nobody else sees it.
Local(next) ==
    /\ w' = next
    /\ UNCHANGED <<queueVars, walk, entered>> /\ WorkerOnly

Waiting(row) == row.state \in {"Queued", "Running"}

\* has_available_work, extract_task_data: the first row that waits.
TakeTask ==
    /\ w.pc = "idle" /\ ~stop /\ ~exclusive
    /\ \E j \in DOMAIN rows :
         /\ Waiting(rows[j]) /\ \A h \in 1 .. j - 1 : ~Waiting(rows[h])
         /\ rows' = [rows EXCEPT ![j].state = "Running"]
         /\ LET t == rows[j].id IN
            IF JobOf[t].kind = "files"
            THEN /\ w' = [IdleWorker EXCEPT !.pc = "load", !.task = t]
                 /\ walk' = walk
            ELSE /\ w' = [IdleWorker EXCEPT !.pc = "walk", !.task = t]
                 /\ walk' = WalkOf(JobOf[t].root)
    /\ UNCHANGED <<cancel, records, exclusive, stop, aborted, batchEnded, entered>> /\ WorkerOnly

WorkerExits == w.pc = "idle" /\ stop /\ Local([w EXCEPT !.pc = "exited"])

IsCancelled == w.task \in cancel

\* process_files_task's loop: make room in the window, then submit the file.
WindowFull == Len(w.window) >= LookAhead \/ w.bytes >= MaxBytes

LoadNext ==
    /\ w.pc = "load"
    /\ Local(IF w.i > Len(FilesOf(w.task)) \/ IsCancelled THEN [w EXCEPT !.pc = "tail"]
             ELSE IF WindowFull THEN [w EXCEPT !.pc = "drain", !.after = "load", !.moved = FALSE]
             ELSE [w EXCEPT !.pc = "submit"])

\* submit_file: the counter grows by the size of the moved-from buffer, 0.
SubmitFile ==
    /\ w.pc = "submit"
    /\ Local(IF FilesOf(w.task)[w.i].read = "bad"
             THEN [w EXCEPT !.pc = "load", !.i = @ + 1, !.skipped = @ + 1]
             ELSE [w EXCEPT !.pc = "load", !.i = @ + 1, !.window = Append(@, w.i)])

\* drain_files takes the front only when it is the next index to stage.
NextReady == w.window # << >> /\ Head(w.window) = w.next

TakeReady == [w EXCEPT !.window = Tail(@), !.bytes = (@ - 1) % ByteRange, !.moved = TRUE]

\* Variant: the newest file of the window is staged first.
DrainNewest ==
    /\ w.pc = "drain"
    /\ Local(IF w.window = << >>
             THEN [w EXCEPT !.pc = IF w.after = "tail" THEN "tail" ELSE "submit"]
             ELSE [w EXCEPT !.window = Front(@), !.next = Last(w.window), !.pc = "post"])

\* Variant: a file the vault refuses to stage does not move the window on.
DrainStuck ==
    /\ w.pc = "drain"
    /\ Local(IF ~NextReady \/ IsCancelled
             THEN LET back == IF NextReady THEN TakeReady ELSE w IN
                  [back EXCEPT !.pc = IF w.after = "tail" THEN "tail"
                                      ELSE IF ~back.moved THEN "submit"
                                      ELSE IF IsCancelled THEN "finish" ELSE "load"]
             ELSE IF FilesOf(w.task)[w.next].read = "good" THEN [TakeReady EXCEPT !.pc = "post"]
             ELSE TakeReady)

DrainFiles ==
    /\ w.pc = "drain"
    /\ Local(IF ~NextReady \/ IsCancelled
             THEN LET back == IF NextReady THEN TakeReady ELSE w IN
                  [back EXCEPT !.pc = IF w.after = "tail" THEN "tail"
                                      ELSE IF ~back.moved THEN "submit"
                                      ELSE IF IsCancelled THEN "finish" ELSE "load"]
             ELSE IF FilesOf(w.task)[w.next].read = "good" THEN [TakeReady EXCEPT !.pc = "post"]
             ELSE [TakeReady EXCEPT !.next = @ + 1])

\* post_record waits for room; stop and cancel end the wait.
\* Variant: the last of the slots is given away twice.
MayPostOneMore == Len(records) <= RecordCap \/ stop \/ IsCancelled

MayPost == Len(records) < RecordCap \/ stop \/ IsCancelled

Post(r) ==
    /\ MayPost
    /\ records' = IF stop \/ IsCancelled THEN records ELSE Append(records, r)
    /\ UNCHANGED <<rows, cancel, exclusive, stop, aborted, batchEnded>> /\ WorkerOnly

PostFile ==
    /\ w.pc = "post"
    /\ Post([kind |-> "media", task |-> w.task, name |-> FilesOf(w.task)[w.next].name])
    /\ w' = [w EXCEPT !.pc = "drain", !.next = @ + 1]
    /\ UNCHANGED <<walk, entered>>

\* The tail loop has no test for progress.
DrainTail ==
    /\ w.pc = "tail"
    /\ Local(IF w.window = << >> \/ IsCancelled THEN [w EXCEPT !.pc = "finish"]
             ELSE [w EXCEPT !.pc = "drain", !.after = "tail", !.moved = FALSE])

\* The archive walk: a step of its own, or a record for the main thread.
WalkAdvances ==
    /\ w.pc = "walk" /\ walk.frames # << >> /\ Wants(walk, IsCancelled) = "nothing"
    /\ walk' = Advanced(walk, IsCancelled)
    /\ UNCHANGED <<w, entered, queueVars>> /\ WorkerOnly

WalkPosts ==
    /\ w.pc = "walk" /\ walk.frames # << >>
    /\ LET wanted == Wants(walk, IsCancelled)
           name == IF wanted = "media" THEN MediaName(walk) ELSE GalleryOf(walk) IN
       /\ wanted # "nothing"
       /\ Post([kind |-> wanted, task |-> w.task, name |-> name])
       /\ walk' = Answered(walk, ~(stop \/ IsCancelled))
    /\ UNCHANGED <<w, entered>>

WalkEnds ==
    /\ w.pc = "walk" /\ walk.frames = << >>
    /\ w' = [w EXCEPT !.pc = "finish", !.skipped = walk.skipped,
                      !.failed = walk.rootError \/ walk.rootUnreadable]
    /\ entered' = [entered EXCEPT ![w.task] = walk.entered]
    /\ walk' = NoWalk
    /\ UNCHANGED queueVars /\ WorkerOnly

\* Something below the task's boundary throws: the task fails, the thread lives.
TaskThrows ==
    /\ w.pc \in {"submit", "walk"} /\ faults < MaxFaults /\ faults' = faults + 1
    /\ w' = [w EXCEPT !.pc = "finish", !.failed = TRUE] /\ walk' = NoWalk
    /\ UNCHANGED <<queueVars, saveVars, sessions, controls, tree, files, pending, reviewed, used, main,
                   entered>>

\* mark_task_complete, unless the row was settled or cleared meanwhile.
\* Variant: the worker's count of staged files is added to the row.
CompletedTwice(row) ==
    [row EXCEPT !.state = IF w.failed THEN "Failed" ELSE IF IsCancelled THEN "Cancelled" ELSE "Done",
                !.skipped = @ + w.skipped, !.imported = @ + w.next - 1]

Completed(row) ==
    [row EXCEPT !.state = IF w.failed THEN "Failed" ELSE IF IsCancelled THEN "Cancelled" ELSE "Done",
                !.skipped = @ + w.skipped]

FinishTask ==
    /\ w.pc = "finish"
    /\ rows' = [j \in DOMAIN rows |->
                  IF rows[j].id = w.task /\ rows[j].state = "Running" THEN Completed(rows[j])
                  ELSE rows[j]]
    /\ w' = IdleWorker
    /\ UNCHANGED <<cancel, records, exclusive, stop, aborted, batchEnded, walk, entered>>
    /\ WorkerOnly

WorkerStep == \/ TakeTask \/ WorkerExits \/ LoadNext \/ SubmitFile \/ DrainFiles \/ PostFile
              \/ DrainTail \/ WalkAdvances \/ WalkPosts \/ WalkEnds \/ FinishTask
AbortStep == AbortJoins \/ EndSession
PumpStep == Drain \/ DrainReturns

Over == main = "closed" /\ sessions = MaxSessions /\ UNCHANGED vars

Next ==
    \/ BeginSession \/ AbortBegins \/ AbortStep \/ PumpStep \/ ClearFinished
    \/ \E t \in Task : Enqueue(t) \/ Cancel(t) \/ TakeReview(t) \/ \E d \in {-1, 1} : Reorder(t, d)
    \/ \E held \in BOOLEAN : SetExclusive(held)
    \/ SaveCommits \/ SaveFails
    \/ WorkerStep \/ TaskThrows
    \/ Over

Spec == Init /\ [][Next]_vars

(***************************************************************************)
(* The scheduler runs every thread; the main thread pumps once a frame, an *)
(* exclusive operation ends, and a commit succeeds or fails.               *)
(***************************************************************************)
Fairness ==
    /\ WF_vars(WorkerStep) /\ WF_vars(PumpStep) /\ WF_vars(AbortStep)
    /\ WF_vars(SaveCommits) /\ WF_vars(SetExclusive(FALSE))

FairSpec == Spec /\ Fairness

-----------------------------------------------------------------------------
TypeOK ==
    /\ rows \in Seq(Row) /\ cancel \subseteq Task /\ records \in Seq(Record)
    /\ Len(records) <= RecordCap
    /\ tree \in Seq(Record) /\ saved \in 0 .. Len(tree)
    /\ save \in {"none", "running", "ok", "failed"}
    /\ {saveFailed, laneFailed, exclusive, stop, aborted, batchEnded} \subseteq BOOLEAN
    /\ files \in Nat /\ pending \in [Task -> Nat] /\ reviewed \subseteq Task
    /\ main \in {"closed", "run", "join", "attach"}
    /\ w \in Worker /\ walk \in Walk /\ entered \in [Task -> SUBSET Archive]
    /\ used \subseteq Task
    /\ sessions \in 0 .. MaxSessions /\ controls \in 0 .. MaxControls /\ faults \in 0 .. MaxFaults

\* Tree ownership (import_queue.h, saving()): while the save worker runs, no
\* drain, abort or other step changes the tree it is writing.
TreeOwnedByOne == [][save = "running" => tree' = tree]_vars

\* Nothing is left behind.  Once the queue has latched its idle state and no
\* save is under way, every record ever attached is committed; and a session
\* that has ended, with a task in flight or a save at work, leaves no record
\* and no attached file out of the vault - unless a commit failed.
NothingLeftBehind ==
    /\ main = "run" /\ batchEnded /\ save \in {"none", "ok"} /\ ~saveFailed => saved = Len(tree)
    /\ main = "closed" => records = << >> /\ (laneFailed \/ saved = Len(tree))

\* A row says what happened: its import count is the number of files of the
\* task that drain attached, however many were staged, collided or were
\* attached by an abort after the count was last shown.
ImportedCountsAttachments ==
    main = "run" => \A j \in DOMAIN rows :
        rows[j].imported = Cardinality({i \in DOMAIN tree : /\ tree[i].kind = "media"
                                                            /\ tree[i].task = rows[j].id})

\* A walk that ran to its end accounts for every entry of every archive it
\* entered: a record, a skip, or an archive entered in turn; and drain counts each
\* record as attached or as a collision, the two outcomes the model has.
EntriesAccounted ==
    \A j \in DOMAIN rows :
        LET t == rows[j].id IN
        rows[j].state = "Done" /\ JobOf[t].kind = "archive" /\ main = "run"
          /\ (\A i \in DOMAIN records : records[i].task # t)
        => rows[j].imported + rows[j].skipped
             = Countable(entered[t]) - (Cardinality(entered[t] \cap Readable) - 1)

\* The user is asked once about all the tags of a task: after its review was
\* taken no tag of it is collected or still to be collected.
ReviewIsComplete ==
    \A t \in reviewed : /\ pending[t] = 0
                         /\ \A j \in DOMAIN records : ~(records[j].kind = "tag" /\ records[j].task = t)

\* "Staging and record posting stay strictly in file order" (import_queue.h):
\* the files of a task reach the tree, and wait for it, in the order given.
FileOrderKept ==
    \A t \in used : JobOf[t].kind = "files" =>
        LET names == [i \in DOMAIN FilesOf(t) |-> FilesOf(t)[i].name]
            all == tree \o records
            mine == {i \in DOMAIN all : all[i].kind = "media" /\ all[i].task = t}
        IN  \A i, j \in mine : i < j =>
              \E a, b \in DOMAIN names : a < b /\ names[a] = all[i].name /\ names[b] = all[j].name

\* The walk's budget is exact: the live total is the size of the nested
\* archives on the path to the current one, within the limit, and no reader is
\* cached for bytes that are gone.
WalkWithinBudget ==
    /\ walk.live = LiveOnPath(walk) /\ walk.live <= MaxLive
    /\ Len(walk.frames) <= MaxDepth + 1 /\ walk.seen <= MaxNested
    /\ walk.readers \subseteq OnPath(walk)

\* Every task is settled in the end - done, failed, cancelled or cleared -
\* unless a commit failed, after which drain stops and waits for the lock.
Settled(t) == \A j \in DOMAIN rows : rows[j].id = t => Finished(rows[j])

TaskSettles == \A t \in Task : t \in used ~> Settled(t) \/ saveFailed \/ laneFailed

\* An abort returns, whatever the worker waits for and whether or not commits
\* fail.
AbortReturns == main = "join" ~> main = "closed"
=============================================================================
