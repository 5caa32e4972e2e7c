--------------------------- MODULE LegacyConversion ---------------------------
(***************************************************************************)
(* Converting a single-file (legacy) vault into a fresh directory vault    *)
(* (vault/legacy_converter, v3_db's conversion tables,                     *)
(* Vault::unlock_directory, ui/legacy_conversion_job).                     *)
(*                                                                         *)
(* The destination outlives the converters: it is a directory on disk with *)
(* a database, guarded by one writer lock.  A converter copies the source  *)
(* in batches, releases the lock, reopens what it wrote and only then      *)
(* clears the marker that keeps an ordinary unlock out.  It can be         *)
(* cancelled, fail or crash between any two steps; a later one resumes.    *)
(*                                                                         *)
(* A source is its nodes in depth-first order, parents first (ordinals).   *)
(* It is read-only while any converter runs.  A database transaction is    *)
(* one atomic, durable step.  A definition marked "Variant" is a defective *)
(* form of the next one.                                                   *)
(***************************************************************************)
EXTENDS Integers, FiniteSets

CONSTANTS
    Converter,   \* conversion jobs, in one process or in several
    Source,      \* legacy vaults that may be converted to this destination
    Nodes,       \* nodes of a source; ordinals are 1 .. Nodes and 1 is its root
    Gallery,     \* the ordinals of galleries; the others are media
    Derived,     \* the media that have a thumbnail or a poster
    ParentOf,    \* the parent's ordinal, 0 for the root
    Id,          \* destination node identities
    RootId,      \* the identity of the destination's root
    BatchNodes,  \* BATCH_NODES: nodes per metadata transaction
    MaxStops,    \* failures, cancellations and crashes of converters
    MaxOpens,    \* ordinary unlocks of the destination by the user
    Nobody, User, None,
    Blank,       \* what the root row of a newly created vault carries
    Edited       \* what a row the user has changed carries

Ordinal == 1 .. Nodes
Media   == Ordinal \ Gallery
Role    == {"original", "derived"}
Content == Source \X Ordinal       \* what a row or an object was copied from

ASSUME ShapeAssumption ==
    /\ Nodes \in Nat \ {0}
    /\ Gallery \subseteq Ordinal /\ 1 \in Gallery
    /\ Derived \subseteq Media
    /\ ParentOf \in [Ordinal -> 0 .. Nodes] /\ ParentOf[1] = 0
    /\ \A n \in Ordinal \ {1} : ParentOf[n] \in Gallery /\ ParentOf[n] < n
ASSUME IdAssumption == RootId \in Id /\ None \notin Id \cup Source
ASSUME NoneAssumption == None \notin Content \cup {Blank, Edited}
ASSUME BatchAssumption == BatchNodes \in Nat \ {0}
ASSUME StopAssumption == MaxStops \in Nat /\ MaxOpens \in Nat
ASSUME HolderAssumption == Nobody \notin Converter /\ User \notin Converter /\ User # Nobody

VARIABLES
    dest,     \* the destination directory
    holder,   \* who holds its writer lock
    marker,   \* conversion_state: the source being converted, if any
    map,      \* conversion_nodes: ordinal to destination identity
    row,      \* the nodes table: whose metadata each identity carries
    parent,   \* and below which identity it hangs
    ref,      \* the objects table: what each (identity, role) was copied from
    settings, \* settings and saved searches: whose they are
    garbage,  \* object files no row of the objects table refers to
    pc, src, resumed, report,        \* each converter
    cursor, batch, ids, staged,      \* the copy made by the one holding the lock
    user, edited,                    \* the user's own session on the destination
    stops, opens

conversion == <<marker, map>>
content    == <<row, parent, ref, settings>>
store      == <<conversion, content, garbage>>
job        == <<pc, src, resumed, report>>
copy       == <<cursor, batch, ids, staged>>
person     == <<user, edited, opens>>
vars       == <<dest, holder, store, job, copy, person, stops>>

Pc == {"idle", "creating", "created", "matching", "checking", "mapping", "original", "derived",
       "counting", "cleaning", "released", "reopened", "finishing", "finished"}

NoIds  == [n \in Ordinal |-> None]

TypeOK ==
    /\ dest \in {"absent", "partial", "vault"}
    /\ holder \in Converter \cup {Nobody, User}
    /\ marker \in Source \cup {None}
    /\ map \in [Ordinal -> Id \cup {None}]
    /\ row \in [Id -> Content \cup {None, Blank, Edited}]
    /\ parent \in [Id -> Id \cup {None}]
    /\ ref \in [Id \X Role -> Content \cup {None}]
    /\ settings \in Source \cup {None}
    /\ garbage \in BOOLEAN
    /\ pc \in [Converter -> Pc]
    /\ src \in [Converter -> Source \cup {None}]
    /\ resumed \in [Converter -> BOOLEAN]
    /\ report \in [Converter -> {"none", "ok", "failed"}]
    /\ cursor \in 1 .. Nodes + 1
    /\ batch \subseteq Ordinal
    /\ ids \in [Ordinal -> Id \cup {None}]
    /\ staged \subseteq Media \X Role
    /\ user \in {"away", "unlocking", "browsing"}
    /\ edited \in BOOLEAN
    /\ stops \in 0 .. MaxStops
    /\ opens \in 0 .. MaxOpens

-----------------------------------------------------------------------------
(* What the code computes from this state. *)

Rows == {i \in Id : row[i] # None}

\* A media row without its original: what verify_vault reports as damage.
Damaged == \E i \in Rows, n \in Media :
               row[i] \in Source \X {n} /\ ref[<<i, "original">>] = None

\* Variant: an object of either role answers for both.
HasAnyObject(n, r) ==
    (\E o \in Role : <<n, o>> \in staged \/ ref[<<ids[n], o>>] # None)

\* object_plaintext_length(id, role).has_value()
HasObject(n, r) == <<n, r>> \in staged \/ ref[<<ids[n], r>>] # None

\* The logical comparison with source s: tree, metadata, objects, settings.
SameAs(s) ==
    /\ \A n \in Ordinal : \E i \in Rows :
          /\ row[i] = <<s, n>>
          /\ IF n = 1 THEN i = RootId
                      ELSE parent[i] # None /\ row[parent[i]] = <<s, ParentOf[n]>>
          /\ n \in Media => ref[<<i, "original">>] = <<s, n>>
          /\ n \in Derived => ref[<<i, "derived">>] = <<s, n>>
    /\ Cardinality(Rows) = Nodes
    /\ settings = s

\* Variant: an identity is minted for every node, mapped or not.
MintedIds(n) ==
    IF n = 1 THEN {RootId}
    ELSE Id \ (Rows \cup {ids[m] : m \in Ordinal} \cup {RootId})

\* mapped_node_id: the recorded identity, the root's own, or a random one.
IdsFor(n) ==
    IF map[n] # None THEN {map[n]}
    ELSE IF n = 1 THEN {RootId}
    ELSE Id \ (Rows \cup {ids[m] : m \in Ordinal} \cup {RootId})

\* The copy a converter that has just taken the lock starts with.
NoCopy == cursor' = 1 /\ batch' = {} /\ ids' = NoIds /\ staged' = {}

Init ==
    /\ dest = "absent" /\ holder = Nobody
    /\ marker = None /\ map = NoIds
    /\ row = [i \in Id |-> None] /\ parent = [i \in Id |-> None]
    /\ ref = [k \in Id \X Role |-> None]
    /\ settings = None /\ garbage = FALSE
    /\ pc = [c \in Converter |-> "idle"]
    /\ src = [c \in Converter |-> None]
    /\ resumed = [c \in Converter |-> FALSE]
    /\ report = [c \in Converter |-> "none"]
    /\ cursor = 1 /\ batch = {} /\ ids = NoIds /\ staged = {}
    /\ user = "away" /\ edited = FALSE
    /\ stops = 0 /\ opens = 0

-----------------------------------------------------------------------------
(* Opening the destination: a new directory, or one to resume. *)

Goto(c, where) == pc' = [pc EXCEPT ![c] = where]

\* What a converter that gives up leaves: nothing but its report.
GiveUp(c) ==
    /\ Goto(c, "idle")
    /\ src' = [src EXCEPT ![c] = None]
    /\ resumed' = [resumed EXCEPT ![c] = FALSE]
    /\ report' = [report EXCEPT ![c] = "failed"]

\* The session on the destination closes: the lock goes, and staged objects stay
\* behind as files without a row.
LoseSession(c) ==
    /\ holder' = Nobody
    /\ garbage' = (garbage \/ staged # {})
    /\ NoCopy

\* try_writer_lock
LeaseFree == holder = Nobody

\* VaultRoot::create and the writer lock, before a header and a database exist.
StartNew(c, s) ==
    /\ pc[c] = "idle" /\ dest = "absent"
    /\ dest' = "partial" /\ holder' = c
    /\ Goto(c, "creating")
    /\ src' = [src EXCEPT ![c] = s]
    /\ resumed' = [resumed EXCEPT ![c] = FALSE]
    /\ report' = [report EXCEPT ![c] = "none"]
    /\ UNCHANGED <<store, copy, person, stops>>

\* The rest of ReadSession::create: an empty vault anyone could open.
CreateVault(c) ==
    /\ pc[c] = "creating"
    /\ dest' = "vault"
    /\ row' = [row EXCEPT ![RootId] = Blank]
    /\ Goto(c, "created")
    /\ UNCHANGED <<holder, conversion, parent, ref, settings, garbage, src, resumed,
                   report, copy, person, stops>>

\* begin_conversion records the marker.
BeginConversion(c) ==
    /\ pc[c] = "created"
    /\ marker' = src[c] /\ map' = NoIds
    /\ Goto(c, "mapping")
    /\ NoCopy
    /\ UNCHANGED <<dest, holder, content, garbage, src, resumed, report, person, stops>>

\* resume_destination: authenticate an existing vault, which takes its lock.
Resume(c, s) ==
    /\ pc[c] = "idle" /\ dest = "vault" /\ LeaseFree
    /\ holder' = c
    /\ Goto(c, "matching")
    /\ src' = [src EXCEPT ![c] = s]
    /\ report' = [report EXCEPT ![c] = "none"]
    /\ UNCHANGED <<dest, store, resumed, copy, person, stops>>

\* DestinationExists: a partial vault, or one that another has open.
Refuse(c) ==
    /\ pc[c] = "idle"
    /\ dest = "partial" \/ (dest = "vault" /\ ~LeaseFree)
    /\ report' = [report EXCEPT ![c] = "failed"]
    /\ UNCHANGED <<dest, holder, store, pc, src, resumed, copy, person, stops>>

\* The marker names this very source.
MarkerMatches(c) == marker = src[c]

\* Variant: a vault without a marker is taken for one to begin with.
AcceptOrBegin(c) ==
    /\ pc[c] = "matching" /\ marker \in {None, src[c]}
    /\ marker' = src[c]
    /\ Goto(c, "checking")
    /\ resumed' = [resumed EXCEPT ![c] = TRUE]
    /\ UNCHANGED <<dest, holder, map, content, garbage, src, report, copy, person, stops>>

AcceptMarker(c) ==
    /\ pc[c] = "matching" /\ MarkerMatches(c)
    /\ Goto(c, "checking")
    /\ resumed' = [resumed EXCEPT ![c] = TRUE]
    /\ UNCHANGED <<dest, holder, store, src, report, copy, person, stops>>

\* ResumeMismatch: another source, or a vault that is not being converted.
RejectMarker(c) ==
    /\ pc[c] = "matching" /\ ~MarkerMatches(c)
    /\ holder' = Nobody
    /\ GiveUp(c)
    /\ UNCHANGED <<dest, store, copy, person, stops>>

\* The deep check every resumed conversion passes before it copies.
CheckDestination(c) ==
    /\ pc[c] = "checking" /\ ~Damaged
    /\ Goto(c, "mapping")
    /\ NoCopy
    /\ UNCHANGED <<dest, holder, store, src, resumed, report, person, stops>>

-----------------------------------------------------------------------------
(* Copying: copy_node on each ordinal, in batches. *)

\* mapped_node_id and the entry of the batch.
MapNode(c) ==
    /\ pc[c] = "mapping" /\ cursor <= Nodes
    /\ \E i \in IdsFor(cursor) : ids' = [ids EXCEPT ![cursor] = i]
    /\ batch' = batch \cup {cursor}
    /\ Goto(c, IF cursor \in Gallery THEN "counting" ELSE "original")
    /\ UNCHANGED <<dest, holder, store, src, resumed, report, cursor, staged, person, stops>>

\* stage_media: a role the destination already holds is not copied again.
Stage(c, role, wanted, then) ==
    /\ staged' = IF wanted /\ ~HasObject(cursor, role)
                 THEN staged \cup {<<cursor, role>>} ELSE staged
    /\ Goto(c, then)
    /\ UNCHANGED <<dest, holder, store, src, resumed, report, cursor, batch, ids, person, stops>>

StageOriginal(c) == pc[c] = "original" /\ Stage(c, "original", TRUE, "derived")

StageDerived(c) == pc[c] = "derived" /\ Stage(c, "derived", cursor \in Derived, "counting")

\* Variant: the mapping's two columns are confused.
MappedToOrdinals == [n \in Ordinal |-> IF n \in batch THEN n ELSE map[n]]

\* record_conversion_node for each entry of the batch.
Mapped == [n \in Ordinal |-> IF n \in batch THEN ids[n] ELSE map[n]]

\* Variant: the transaction leaves out the staged objects.
NotCommitted(c) == ref

\* insert_object for each staged object.
CommittedRefs(c) ==
    [k \in Id \X Role |->
        IF \E n \in Media : ids[n] = k[1] /\ <<n, k[2]>> \in staged
        THEN <<src[c], CHOOSE n \in Media : ids[n] = k[1]>> ELSE ref[k]]

\* The marker is there, no node is mapped to another identity, and no object
\* of the same node and role is referenced: else the transaction is refused.
MayCommit ==
    /\ marker # None
    /\ \A n \in batch : map[n] \in {None, ids[n]}
    /\ \A o \in staged : ref[<<ids[o[1]], o[2]>>] = None

\* commit_conversion_batch: rows, mapping and objects in one transaction.
CommitBatch(c) ==
    LET member == [i \in {ids[n] : n \in batch} |-> CHOOSE n \in batch : ids[n] = i] IN
    /\ row' = [i \in Id |-> IF i \in DOMAIN member THEN <<src[c], member[i]>> ELSE row[i]]
    /\ parent' = [i \in Id |-> IF i \in DOMAIN member /\ member[i] # 1
                               THEN ids[ParentOf[member[i]]] ELSE parent[i]]
    /\ map' = Mapped
    /\ ref' = CommittedRefs(c)
    /\ batch' = {} /\ staged' = {}
    /\ UNCHANGED <<dest, holder, marker, settings, garbage, src, resumed, report, ids,
                   person, stops>>

\* Otherwise the conversion ends there, and a retry starts over.
BatchRefused(c) ==
    /\ LoseSession(c) /\ GiveUp(c)
    /\ UNCHANGED <<dest, conversion, content, person, stops>>

\* count_and_maybe_commit when the batch is full, and when it is not.
CommitFull(c) ==
    /\ pc[c] = "counting" /\ Cardinality(batch) >= BatchNodes
    /\ IF MayCommit THEN CommitBatch(c) /\ cursor' = cursor + 1 /\ Goto(c, "mapping")
                    ELSE BatchRefused(c)

CountNode(c) ==
    /\ pc[c] = "counting" /\ Cardinality(batch) < BatchNodes
    /\ cursor' = cursor + 1 /\ Goto(c, "mapping")
    /\ UNCHANGED <<dest, holder, store, src, resumed, report, batch, ids, staged, person, stops>>

\* The last, short batch.
CommitTail(c) ==
    /\ pc[c] = "mapping" /\ cursor > Nodes /\ batch # {}
    /\ IF MayCommit THEN CommitBatch(c) /\ UNCHANGED <<cursor, pc>> ELSE BatchRefused(c)

\* commit_metadata of the whole copied tree: rows and objects of any other
\* identity go, and with them their files' last reference.
Finalize(c) ==
    LET live == {ids[n] : n \in Ordinal} IN
    /\ pc[c] = "mapping" /\ cursor > Nodes /\ batch = {}
    /\ row' = [i \in Id |-> IF i \in live
                            THEN <<src[c], CHOOSE n \in Ordinal : ids[n] = i>> ELSE None]
    /\ parent' = [i \in Id |-> IF i \in live THEN parent[i] ELSE None]
    /\ ref' = [k \in Id \X Role |-> IF k[1] \in live THEN ref[k] ELSE None]
    /\ garbage' = (garbage \/ \E k \in Id \X Role : k[1] \notin live /\ ref[k] # None)
    /\ settings' = src[c]
    /\ Goto(c, "cleaning")
    /\ UNCHANGED <<dest, holder, conversion, src, resumed, report, copy, person, stops>>

-----------------------------------------------------------------------------
(* Verifying what was written, from disk, and letting the user in. *)

\* Variant: a conversion never collects.
NotCollected(c) == garbage

\* garbage_collect(0) on a resumed destination.
Collected(c) == garbage /\ ~resumed[c]

\* The rest of verify: collect, then give the destination up.
CleanUp(c) ==
    /\ pc[c] = "cleaning"
    /\ garbage' = Collected(c)
    /\ holder' = Nobody
    /\ Goto(c, "released")
    /\ NoCopy
    /\ UNCHANGED <<dest, conversion, content, src, resumed, report, person, stops>>

\* cold_verify opens it again, unless someone else got there first.
Reopen(c) ==
    /\ pc[c] = "released" /\ LeaseFree
    /\ holder' = c
    /\ Goto(c, "reopened")
    /\ UNCHANGED <<dest, store, src, resumed, report, copy, person, stops>>

ReopenBusy(c) ==
    /\ pc[c] = "released" /\ ~LeaseFree
    /\ GiveUp(c)
    /\ UNCHANGED <<dest, holder, store, copy, person, stops>>

\* check_destination and logical_verify on the reopened vault.
Verified(c) == ~Damaged /\ SameAs(src[c])

Compare(c) ==
    /\ pc[c] = "reopened" /\ Verified(c)
    /\ Goto(c, "finishing")
    /\ UNCHANGED <<dest, holder, store, src, resumed, report, copy, person, stops>>

CompareFails(c) ==
    /\ pc[c] = "reopened" /\ ~Verified(c)
    /\ holder' = Nobody
    /\ GiveUp(c)
    /\ UNCHANGED <<dest, store, copy, person, stops>>

\* finish_conversion drops both conversion tables; the reopened vault closes.
FinishConversion(c) ==
    /\ pc[c] = "finishing"
    /\ marker' = None /\ map' = NoIds
    /\ holder' = Nobody
    /\ Goto(c, "finished")
    /\ UNCHANGED <<dest, content, garbage, src, resumed, report, copy, person, stops>>

\* LegacyConversionJob::run opens the copy as the user's session, or reports
\* that it could not although the copy is complete.
OpenCopy(c) ==
    /\ pc[c] = "finished"
    /\ Goto(c, "idle")
    /\ src' = [src EXCEPT ![c] = None]
    /\ resumed' = [resumed EXCEPT ![c] = FALSE]
    /\ IF LeaseFree
       THEN /\ holder' = User /\ user' = "browsing"
            /\ report' = [report EXCEPT ![c] = "ok"]
       ELSE /\ report' = [report EXCEPT ![c] = "failed"]
            /\ UNCHANGED <<holder, user>>
    /\ UNCHANGED <<dest, store, copy, edited, opens, stops>>

-----------------------------------------------------------------------------
(* Failures, and the user. *)

\* A failure, a cancellation or a crash at any point before the marker is
\* cleared.  An unfinished creation is rolled back, if that still works.
Stop(c) ==
    /\ pc[c] \notin {"idle", "finished"} /\ stops < MaxStops
    /\ stops' = stops + 1
    /\ IF holder = c THEN LoseSession(c) ELSE UNCHANGED <<holder, garbage, copy>>
    /\ dest' \in (IF pc[c] = "creating" THEN {"absent", "partial"} ELSE {dest})
    /\ GiveUp(c)
    /\ UNCHANGED <<conversion, content, person>>

\* An ordinary unlock takes the lock before it looks at the marker.
UserUnlock ==
    /\ user = "away" /\ dest = "vault" /\ LeaseFree /\ opens < MaxOpens
    /\ user' = "unlocking" /\ holder' = User /\ opens' = opens + 1
    /\ UNCHANGED <<dest, store, job, copy, edited, stops>>

\* Variant: the marker is not consulted.
LetIn == TRUE

\* unlock_directory with conversion = false.
MayBrowse == marker = None

UserEnters ==
    /\ user = "unlocking" /\ MayBrowse
    /\ user' = "browsing"
    /\ UNCHANGED <<dest, holder, store, job, copy, edited, opens, stops>>

\* IncompleteConversion.
UserRefused ==
    /\ user = "unlocking" /\ ~MayBrowse
    /\ user' = "away" /\ holder' = Nobody
    /\ UNCHANGED <<dest, store, job, copy, edited, opens, stops>>

UserEdits ==
    /\ user = "browsing" /\ ~edited
    /\ edited' = TRUE
    /\ \E i \in Rows : row' = [row EXCEPT ![i] = Edited]
    /\ UNCHANGED <<dest, holder, conversion, parent, ref, settings, garbage, job, copy,
                   user, opens, stops>>

UserLeaves ==
    /\ user = "browsing"
    /\ user' = "away" /\ holder' = Nobody
    /\ UNCHANGED <<dest, store, job, copy, edited, opens, stops>>

-----------------------------------------------------------------------------
Work(c) ==
    \/ CreateVault(c) \/ BeginConversion(c)
    \/ AcceptMarker(c) \/ RejectMarker(c) \/ CheckDestination(c)
    \/ MapNode(c) \/ StageOriginal(c) \/ StageDerived(c)
    \/ CommitFull(c) \/ CountNode(c) \/ CommitTail(c) \/ Finalize(c)
    \/ CleanUp(c) \/ Reopen(c) \/ ReopenBusy(c)
    \/ Compare(c) \/ CompareFails(c) \/ FinishConversion(c) \/ OpenCopy(c)

Request(c, s) == StartNew(c, s) \/ Resume(c, s)

Next ==
    \/ \E c \in Converter : Work(c) \/ Stop(c) \/ Refuse(c) \/ \E s \in Source : Request(c, s)
    \/ UserUnlock \/ UserEnters \/ UserRefused \/ UserEdits \/ UserLeaves

Spec == Init /\ [][Next]_vars

\* A started job runs to its end and closes what it opened; the user asks again
\* for a conversion that is not finished, and does not keep a vault open forever.
Fairness ==
    /\ \A c \in Converter : WF_vars(Work(c))
    /\ \A c \in Converter, s \in Source : WF_vars(Request(c, s))
    /\ WF_vars(UserEnters \/ UserRefused) /\ WF_vars(UserLeaves)

FairSpec == Spec /\ Fairness
-----------------------------------------------------------------------------
(* Properties. *)

Empty == Rows = {RootId} /\ row[RootId] = Blank

\* Whatever the user browses is a complete copy (or the empty vault a stopped
\* creation left), never half of one: unlock_directory asks for the marker, and
\* the marker goes only after the comparison.
OpensOnlyWhole ==
    user = "browsing" /\ ~edited => Empty \/ \E s \in Source : SameAs(s)

\* What the interrupted batches left on disk is always a prefix of the source in
\* depth-first order, mapped one to one, each node with its parent and all of
\* its objects: what a resumed conversion takes for granted when it skips them.
CommittedPrefix ==
    LET mapped == {n \in Ordinal : map[n] # None} IN
    marker # None =>
        /\ mapped = 1 .. Cardinality(mapped)
        /\ Rows = {map[n] : n \in mapped} \cup {RootId}
        /\ Cardinality({map[n] : n \in mapped}) = Cardinality(mapped)
        /\ \A n \in mapped :
              /\ row[map[n]] = <<marker, n>>
              /\ n # 1 => parent[map[n]] = map[ParentOf[n]]
              /\ ref[<<map[n], "original">>] = IF n \in Media THEN <<marker, n>> ELSE None
              /\ ref[<<map[n], "derived">>] = IF n \in Derived THEN <<marker, n>> ELSE None

\* The comparison that ends a conversion finds no difference, however often it
\* was stopped and resumed, unless another job finished first and the user has
\* edited the copy since.
CopyIsFaithful ==
    \A c \in Converter : pc[c] = "reopened" /\ ~edited => Verified(c)

\* Objects of attempts that did not reach their transaction are gone when the
\* marker is: garbage_collect runs on every resumed destination.
FinishedWithoutGarbage ==
    dest = "vault" /\ marker = None /\ ~Empty => ~garbage

\* Once the user has edited the vault, no conversion writes to its tree again,
\* whatever job was still waiting to verify, resume or begin.
EditsSurvive == [][edited => UNCHANGED content]_vars

\* A conversion that recorded its marker finishes, if it is asked for again
\* often enough: no stop leaves a destination that a resume cannot complete.
MarkedConversionFinishes == marker # None ~> marker = None

\* A destination a stopped conversion leaves can be resumed.
StoppedConversionIsResumable ==
    dest = "vault" /\ holder = Nobody /\ ~edited =>
        marker # None \/ \E s \in Source : SameAs(s)
=============================================================================
