---------------------------- MODULE ArchiveWalk ----------------------------
(***************************************************************************)
(* The depth-first walk of an imported archive: ui/recursive_import.cpp,   *)
(* the plan of one archive (ui/zip_plan.cpp) and the error capture of      *)
(* ui/recursive_exec.cpp.  The walk runs on the import worker and talks to *)
(* the queue only through its sink, so it is written as operators on a     *)
(* walk value: what the top frame wants from the sink next (Wants), the    *)
(* walk after a step that needs no sink (Advanced), and the walk after the *)
(* sink has answered (Answered).  ImportQueue runs them.                   *)
(*                                                                         *)
(* An archive is a sequence of entries.  Names are reduced to what the     *)
(* planner makes of them (media, nested archive, meta.json, other);        *)
(* directories are reduced to the one gallery the archive is placed in.    *)
(***************************************************************************)
EXTENDS Integers, Sequences, SequencesExt, FiniteSets, FiniteSetsExt

CONSTANTS
    Archive,      \* archives that exist, the nested ones included
    NoArchive,    \* an entry whose name claims an archive and whose bytes do not
    Contents,     \* the entries of each archive
    Kind,         \* "zip", "arc" (7z, rar, tar), "cbz" or "folder"
    Readable,     \* the archives a backend can list
    Bytes,        \* the size of each archive
    MaxDepth, MaxNested, MaxLive, MaxTotal, MaxRatio   \* RecursionLimits

(***************************************************************************)
(* An entry: its class by name, whether it can be extracted, whether the   *)
(* vault can stage it, its name in the gallery, and the archive it holds.  *)
(***************************************************************************)
Entry == [what : {"media", "archive", "meta", "other"}, extracts : BOOLEAN,
          stages : BOOLEAN, name : STRING, sub : Archive \cup {NoArchive}]

ASSUME WalkAssumption ==
    /\ NoArchive \notin Archive
    /\ Contents \in [Archive -> Seq(Entry)]
    /\ Kind \in [Archive -> {"zip", "arc", "cbz", "folder"}]
    /\ Readable \subseteq Archive
    /\ Bytes \in [Archive -> Nat]
    /\ {MaxDepth, MaxNested, MaxLive, MaxTotal, MaxRatio} \subseteq Nat

\* The elements of s at the positions I, in their order.
Picked(s, I) ==
    [k \in 1 .. Cardinality(I) |-> s[CHOOSE j \in I : Cardinality({i \in I : i <= j}) = k]]

(***************************************************************************)
(* build_zip_plan and build_cbz_plan.  A comic archive is a run of pages:  *)
(* nothing in it is descended into.  A picked folder is planned like a     *)
(* zip and its nested archives are left alone.                             *)
(***************************************************************************)
Those(a, what) == {i \in DOMAIN Contents[a] : Contents[a][i].what = what}

MediaPlan == [a \in Archive |-> Picked(Contents[a], Those(a, "media"))]

NestedPlan == [a \in Archive |-> IF Kind[a] \in {"cbz", "folder"} THEN << >>
                                 ELSE Picked(Contents[a], Those(a, "archive"))]

Placements(a) == MediaPlan[a]
Nested(a) == NestedPlan[a]

Unsupported(a) ==
    Cardinality(Those(a, "other")) + IF Kind[a] = "cbz" THEN Cardinality(Those(a, "archive")) ELSE 0

PlansGallery(a) == IF Kind[a] = "cbz" THEN Placements(a) # << >>
                   ELSE Placements(a) \o Nested(a) # << >>

Meta(a) == Those(a, "meta")

HasTags(a) == \E i \in Meta(a) : Contents[a][i].extracts

-----------------------------------------------------------------------------
Frame == [archive : Archive, depth : Nat, phase : {"list", "gallery", "tags", "media", "nested"},
          i : Nat \ {0}]

Walk == [frames : Seq(Frame), live : Nat, seen : Nat, expanded : Nat, skipped : Nat,
         entered : SUBSET Archive, readers : SUBSET Archive, rootError : BOOLEAN, rootUnreadable : BOOLEAN]

FrameOf(a, d) == [archive |-> a, depth |-> d, phase |-> "list", i |-> 1]

NoWalk == [frames |-> << >>, live |-> 0, seen |-> 0, expanded |-> 0, skipped |-> 0,
           entered |-> {}, readers |-> {}, rootError |-> FALSE, rootUnreadable |-> FALSE]

\* walk_archive: a fresh budget and the root's frame.
WalkOf(a) == [NoWalk EXCEPT !.frames = << FrameOf(a, 0) >>, !.entered = {a}]

Top(k) == Last(k.frames)

\* Dropping a reader: the archive_done hook, called when the frame pops.
DropReader(readers, a) == readers \ {a}

\* Variant: leaving a nested archive keeps its bytes in the live total.
NeverLeave(live, bytes) == live

\* RecursionBudget::leave.
Leave(live, bytes) == live - Min({live, bytes})

\* The frame is done: back to the parent, which leaves the nested archive and
\* looks at its next one.
Pop(k) ==
    LET f == Top(k)
        below == Front(k.frames)
    IN  [k EXCEPT !.frames = IF below = << >> THEN << >>
                             ELSE [below EXCEPT ![Len(below)].i = @ + 1],
                  !.live = IF f.depth = 0 THEN @ ELSE Leave(@, Bytes[f.archive]),
                  !.readers = DropReader(@, f.archive)]

To(k, phase) == [k EXCEPT !.frames[Len(k.frames)].phase = phase,
                          !.frames[Len(k.frames)].i = 1]

\* Variant: an entry that is passed over is not counted.
PassOver(k) == [k EXCEPT !.frames[Len(k.frames)].i = @ + 1]

Skip(k) == [k EXCEPT !.frames[Len(k.frames)].i = @ + 1, !.skipped = @ + 1]

\* The walk's own cancelled hook: an error in the picked archive stops it too.
Cancelled(k, cancel) == k.rootError \/ cancel

\* An extraction that fails in the picked archive is captured, when its
\* backend reports errors (miniz reports none).
Captures(k) == Top(k).depth = 0 /\ Kind[Top(k).archive] = "arc"

Unextracted(k) == [Skip(k) EXCEPT !.rootError = @ \/ Captures(k)]

\* RecursionBudget::note_expanded, for an entry that was extracted: an archive
\* has its size, anything else counts as one.
NoteExpanded(k, e) == [k EXCEPT !.expanded = @ + IF e.sub = NoArchive THEN 1 ELSE Bytes[e.sub]]

\* RecursionBudget::may_descend, once the nested archive was extracted.
MayDescend(k, sub) ==
    LET root == Bytes[k.frames[1].archive] IN
    /\ Top(k).depth < MaxDepth
    /\ k.seen < MaxNested
    /\ k.expanded <= MaxTotal
    /\ k.live + Bytes[sub] <= MaxLive
    /\ root > 0 => k.expanded <= MaxRatio * root

-----------------------------------------------------------------------------
(***************************************************************************)
(* What the top frame asks of the sink: a gallery, a tag, a media file, or *)
(* nothing.                                                                *)
(***************************************************************************)
Wants(k, cancel) ==
    LET f == Top(k)
        a == f.archive
    IN  CASE f.phase = "gallery" /\ PlansGallery(a) -> "gallery"
          [] f.phase = "tags" /\ HasTags(a) -> "tag"
          [] f.phase = "media" /\ f.i <= Len(Placements(a)) /\ ~Cancelled(k, cancel)
               /\ Placements(a)[f.i].extracts /\ Placements(a)[f.i].stages -> "media"
          [] f.phase = "nested" /\ f.i <= Len(Nested(a)) /\ ~Cancelled(k, cancel)
               /\ Nested(a)[f.i].extracts /\ Nested(a)[f.i].sub # NoArchive
               /\ MayDescend(NoteExpanded(k, Nested(a)[f.i]), Nested(a)[f.i].sub) -> "gallery"
          [] OTHER -> "nothing"

\* The gallery a record is for: the nested archive's own, or the current one.
GalleryOf(k) == IF Top(k).phase = "nested" THEN Nested(Top(k).archive)[Top(k).i].sub
                ELSE Top(k).archive

MediaName(k) == Placements(Top(k).archive)[Top(k).i].name

\* walk_one lists the archive; a picked archive that cannot be listed fails
\* the import, a nested one is one more skip.
ListEntries(k) ==
    LET f == Top(k)
        opened == IF Kind[f.archive] = "arc" THEN [k EXCEPT !.readers = @ \cup {f.archive}] ELSE k
    IN  IF f.archive \in Readable THEN To(opened, "gallery")
        ELSE Pop([k EXCEPT !.skipped = @ + 1,
                           !.rootUnreadable = @ \/ f.depth = 0,
                           !.rootError = @ \/ Captures(k)])

\* The plan's own skips: an archive's before its media, a folder's after them.
CountUnsupported(k, folder) ==
    IF (Kind[Top(k).archive] = "folder") = folder
    THEN [k EXCEPT !.skipped = @ + Unsupported(Top(k).archive)] ELSE k

\* place_media and descend where the sink is not involved.
AdvanceMedia(k, cancel) ==
    LET f == Top(k) IN
    IF f.i > Len(Placements(f.archive)) THEN To(k, "nested")
    ELSE IF Cancelled(k, cancel) THEN Pop(k)
    ELSE IF ~Placements(f.archive)[f.i].extracts THEN Unextracted(k)
    ELSE Skip(NoteExpanded(k, Placements(f.archive)[f.i]))

AdvanceNested(k, cancel) ==
    LET f == Top(k) IN
    IF f.i > Len(Nested(f.archive)) \/ Cancelled(k, cancel) THEN Pop(CountUnsupported(k, TRUE))
    ELSE IF ~Nested(f.archive)[f.i].extracts THEN Unextracted(k)
    ELSE Skip(NoteExpanded(k, Nested(f.archive)[f.i]))

\* A step of the walk that needs no sink; Wants(k, cancel) = "nothing".
Advanced(k, cancel) ==
    LET f == Top(k) IN
    CASE f.phase = "list" -> ListEntries(k)
      [] f.phase = "gallery" -> To(k, "tags")
      [] f.phase = "tags" ->
            To([CountUnsupported(k, FALSE) EXCEPT
                  !.rootError = @ \/ (Captures(k) /\ Meta(f.archive) # {})], "media")
      [] f.phase = "media" -> AdvanceMedia(k, cancel)
      [] OTHER -> AdvanceNested(k, cancel)

\* Entering a nested archive: RecursionBudget::enter and the child's frame.
Enter(k) ==
    LET f == Top(k)
        sub == Nested(f.archive)[f.i].sub
    IN  [k EXCEPT !.frames = Append(@, FrameOf(sub, f.depth + 1)),
                  !.live = @ + Bytes[sub], !.seen = @ + 1, !.entered = @ \cup {sub}]

\* Variant: a record the queue refuses is offered again.
AnsweredRetrying(k, ok) ==
    LET f == Top(k) IN
    CASE f.phase = "gallery" -> IF ok THEN To(k, "tags") ELSE k
      [] f.phase = "tags" -> To(k, "media")
      [] f.phase = "media" -> IF ok THEN [k EXCEPT !.frames[Len(k.frames)].i = @ + 1] ELSE k
      [] OTHER -> IF ok THEN Enter(k) ELSE k

\* The sink has answered; ok is whether the record was posted.  A gallery that
\* was refused ends the archive (a picked comic as an error; a folder does not
\* look), or passes over the nested one; a refused tag is forgotten.
Answered(k, ok) ==
    LET f == Top(k)
        placed == NoteExpanded(k, Placements(f.archive)[f.i])
        vetted == NoteExpanded(k, Nested(f.archive)[f.i])
        next(j) == [j EXCEPT !.frames[Len(k.frames)].i = @ + 1]
    IN
    CASE f.phase = "gallery" ->
            IF ok \/ Kind[f.archive] = "folder" THEN To(k, "tags")
            ELSE Pop([k EXCEPT !.rootError = @ \/ (f.depth = 0 /\ Kind[f.archive] = "cbz")])
      [] f.phase = "tags" -> To(CountUnsupported(k, FALSE), "media")
      [] f.phase = "media" -> IF ok THEN next(placed) ELSE Skip(placed)
      [] OTHER -> IF ok THEN Enter(vetted) ELSE next(vetted)

-----------------------------------------------------------------------------
(***************************************************************************)
(* What the walk keeps true of itself.                                     *)
(***************************************************************************)
OnPath(k) == {k.frames[j].archive : j \in DOMAIN k.frames}

\* What a frame holds of the live total: the picked archive itself is not charged.
Held(f) == IF f.depth = 0 THEN 0 ELSE Bytes[f.archive]

LiveOnPath(k) ==
    LET Upto[j \in 0 .. Len(k.frames)] == IF j = 0 THEN 0 ELSE Upto[j - 1] + Held(k.frames[j])
    IN  Upto[Len(k.frames)]

\* Entries that have become a record, a skip or an entered archive once the
\* walk is over.
Planned(a) == Len(Placements(a)) + Len(Nested(a)) + Unsupported(a)

Countable(entered) == FoldLeft(LAMBDA n, a : n + Planned(a), 0, SetToSeq(entered \cap Readable))
=============================================================================
