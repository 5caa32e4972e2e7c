----------------------------- MODULE MetadataSync -----------------------------
(***************************************************************************)
(* Database::sync_metadata: how the live tree of galleries and media is    *)
(* mirrored into the nodes table by one transaction, row by row, and the   *)
(* tree edits that end in such a commit (vault/v3_db.cpp, vault/vault.cpp, *)
(* vault/v3_read_session.cpp).                                             *)
(*                                                                         *)
(* The table's constraints are those of v3_schema.h: sibling names and     *)
(* sibling orders are unique, and parent_id is ON DELETE RESTRICT, which   *)
(* SQLite enforces at each row's deletion also when the key is deferred.   *)
(* A transaction runs to its end under the session's mutex: no edit comes  *)
(* between two of its rows, but a failure of the system may.               *)
(*                                                                         *)
(* A definition marked "Variant" is a defective form of the next one, used *)
(* only to show that TLC would find the defect.                            *)
(***************************************************************************)
EXTENDS Integers, FiniteSets, SequencesExt

CONSTANTS
    Gallery, Media,   \* nodes by kind; a node id is used once
    Root,             \* the root gallery, which always exists
    Name,             \* display names
    MaxDepth,         \* the code's INDEX_MAX_DEPTH, 128
    MaxFaults         \* transactions that fail for a reason of the system's

Node   == Gallery \cup Media
Parent == Gallery \cup {Root}
Shift  == 2000000     \* the offset that vacates the sibling orders

\* Node ids are BLOBs and differ from every display name, a TEXT. A tree has
\* fewer nodes than the offset: unlock refuses one of more than 1000000.
ASSUME FaultsAssumption == MaxFaults \in Nat
ASSUME DepthAssumption  == MaxDepth \in Nat \ {0}
ASSUME NodeAssumption   ==
    /\ IsFiniteSet(Node) /\ Cardinality(Node) < Shift
    /\ Gallery \cap Media = {} /\ Root \notin Node
ASSUME NameAssumption   == Name # {} /\ Name \cap Node = {}

VARIABLES
    kids,    \* the live tree: the children of each gallery, in order
    name,    \* the live tree: display names
    used,    \* nodes created so far
    rows,    \* the nodes table, less the root, as last committed
    view,    \* the nodes table as the connection sees it
    live,    \* the temporary table osv_live_nodes
    walk,    \* what MetadataNodeWriter::store has still to visit, next first
    undo,    \* the names an edit restores unless its commit succeeds
    phase,   \* no transaction, within one, or the vault cannot be unlocked
    result,  \* what the last commit or unlock returned
    faults

tree  == <<kids, name, used>>
trans == <<view, live, walk, undo>>
vars  == <<kids, name, used, rows, view, live, walk, undo, phase, result, faults>>

Present(k) == UNION {ToSet(k[p]) : p \in Parent}

\* parent, name and sibling order of a node, and the rowid of its row.
Row == [parent : Parent, name : Name \cup Node, order : Nat, rowid : Nat]

Table(rs) ==
    /\ DOMAIN rs \subseteq used
    /\ \A n \in DOMAIN rs : rs[n] \in Row
    /\ \A n, m \in DOMAIN rs : rs[n].rowid = rs[m].rowid => n = m

TypeOK ==
    /\ kids \in [Parent -> Seq(Node)]
    /\ name \in [Node -> Name] /\ undo \in [Node -> Name]
    /\ used \subseteq Node /\ Present(kids) \subseteq used
    /\ Table(rows) /\ Table(view)
    /\ \A n \in DOMAIN rows : rows[n].name \in Name
    /\ live \subseteq Present(kids)
    /\ walk \in Seq([node : Node, parent : Parent, order : Nat])
    /\ phase \in {"ready", "commit", "shut"}
    /\ result \in {"none", "ok", "refused", "failed"}
    /\ faults \in 0 .. MaxFaults

-----------------------------------------------------------------------------
(* The transaction. *)

\* store visits the children of a node with their parent and position.
Visits(k, p) ==
    IF p \in Parent
    THEN [i \in DOMAIN k[p] |-> [node |-> k[p][i], parent |-> p, order |-> i - 1]]
    ELSE << >>

\* Variant: only the orders are vacated.
VacateOrders(rs) == [n \in DOMAIN rs |-> [rs[n] EXCEPT !.order = @ + Shift]]

\* Both sibling namespaces are vacated first: orders are shifted out of range,
\* names replaced by the node's id.
Vacate(rs) == [n \in DOMAIN rs |-> [rs[n] EXCEPT !.name = n, !.order = @ + Shift]]

\* UNIQUE(parent_id, display_name) and UNIQUE(parent_id, sibling_order).
Clashes(rs, n, row) ==
    \E m \in DOMAIN rs \ {n} :
        rs[m].parent = row.parent /\ (rs[m].name = row.name \/ rs[m].order = row.order)

\* The rowid of a new row exceeds every one in the table.
NextRowid(rs) ==
    IF DOMAIN rs = {} THEN 1
    ELSE 1 + CHOOSE i \in {rs[n].rowid : n \in DOMAIN rs} : \A n \in DOMAIN rs : rs[n].rowid <= i

\* Variant: ON CONFLICT DO NOTHING.
UpsertKeepsExisting(rs, v, nm) ==
    [m \in DOMAIN rs \cup {v.node} |->
        IF m \in DOMAIN rs THEN rs[m]
        ELSE [parent |-> v.parent, name |-> nm[m], order |-> v.order, rowid |-> NextRowid(rs)]]

\* Variant: the parent of an existing row is left as it is.
UpsertKeepsParent(rs, v, nm) ==
    [m \in DOMAIN rs \cup {v.node} |->
        IF m # v.node THEN rs[m]
        ELSE [parent |-> IF m \in DOMAIN rs THEN rs[m].parent ELSE v.parent,
              name |-> nm[m], order |-> v.order,
              rowid |-> IF m \in DOMAIN rs THEN rs[m].rowid ELSE NextRowid(rs)]]

\* Variant: the placeholder name of an existing row is left as it is.
UpsertKeepsName(rs, v, nm) ==
    [m \in DOMAIN rs \cup {v.node} |->
        IF m # v.node THEN rs[m]
        ELSE [parent |-> v.parent, order |-> v.order,
              name |-> IF m \in DOMAIN rs THEN rs[m].name ELSE nm[m],
              rowid |-> IF m \in DOMAIN rs THEN rs[m].rowid ELSE NextRowid(rs)]]

\* INSERT ... ON CONFLICT(node_id) DO UPDATE: an existing row keeps its rowid.
Upsert(rs, v, nm) ==
    [m \in DOMAIN rs \cup {v.node} |->
        IF m # v.node THEN rs[m]
        ELSE [parent |-> v.parent, name |-> nm[m], order |-> v.order,
              rowid |-> IF m \in DOMAIN rs THEN rs[m].rowid ELSE NextRowid(rs)]]

\* BEGIN: a transaction for the edited tree. `old` is what the edit restores.
Begin(old) ==
    /\ phase = "ready" /\ phase' = "commit"
    /\ view' = Vacate(rows) /\ live' = {} /\ walk' = Visits(kids', Root)
    /\ undo' = old /\ result' = "none"
    /\ UNCHANGED <<rows, faults>>

\* The transaction ends with outcome r, the table being `committed`; the edit
\* restores its names unless it succeeded.
End(r, committed) ==
    /\ phase' = "ready" /\ result' = r
    /\ rows' = committed /\ view' = committed /\ live' = {} /\ walk' = << >>
    /\ name' = IF r = "ok" THEN name ELSE undo
    /\ undo' = name'
    /\ UNCHANGED <<kids, used>>

\* store_one: the node is marked live and its row written, then its children
\* are visited. A node seen twice or a row that clashes ends the transaction.
StoreNode ==
    /\ phase = "commit" /\ walk # << >>
    /\ LET v == Head(walk)
           row == [parent |-> v.parent, name |-> name[v.node], order |-> v.order]
       IN IF v.node \in live \/ Clashes(view, v.node, row)
          THEN End("refused", rows) /\ UNCHANGED faults
          ELSE /\ live' = live \cup {v.node}
               /\ view' = Upsert(view, v, name)
               /\ walk' = Visits(kids, v.node) \o Tail(walk)
               /\ UNCHANGED <<tree, rows, undo, phase, result, faults>>

\* The rows DELETE ... WHERE node_id NOT IN (osv_live_nodes) has still to delete.
Removed(rs, alive) == DOMAIN rs \ alive

\* One row of the DELETE, in rowid order: one that still has a child is refused.
DropRow(n) ==
    /\ phase = "commit" /\ walk = << >> /\ n \in Removed(view, live)
    /\ \A m \in Removed(view, live) : view[n].rowid <= view[m].rowid
    /\ IF \E m \in DOMAIN view : view[m].parent = n
       THEN End("refused", rows) /\ UNCHANGED faults
       ELSE /\ view' = [m \in DOMAIN view \ {n} |-> view[m]]
            /\ UNCHANGED <<tree, rows, live, walk, undo, phase, result, faults>>

\* COMMIT, where the deferred foreign key is checked; afterwards commit_metadata
\* reads the objects back, and fails if it cannot.
CommitEnds ==
    /\ phase = "commit" /\ walk = << >> /\ Removed(view, live) = {}
    /\ IF \E n \in DOMAIN view : view[n].parent \notin DOMAIN view \cup {Root}
       THEN End("refused", rows) /\ UNCHANGED faults
       ELSE \/ End("ok", view) /\ UNCHANGED faults
            \/ End("failed", view) /\ faults < MaxFaults /\ faults' = faults + 1

\* A statement fails for a reason of the system's: ROLLBACK.
SystemFails ==
    /\ phase = "commit" /\ faults < MaxFaults
    /\ faults' = faults + 1
    /\ End("failed", rows)

-----------------------------------------------------------------------------
(* Tree edits, each of which begins its commit. A failed commit leaves the   *)
(* edit in the live tree, except where the operation undoes it.              *)

InTree(p) == p = Root \/ p \in Present(kids)
Taken(p)  == {name[n] : n \in ToSet(kids[p])}

Linked(k, p, n) == [k EXCEPT ![p] = Append(@, n)]

Position(s, n) == CHOOSE i \in DOMAIN s : s[i] = n

\* children.erase.
Unlinked(k, p, n) == [k EXCEPT ![p] = RemoveAt(@, Position(@, n))]

\* create_gallery of a path whose last segment does not exist yet.
CreateGallery(p, g, nm) ==
    /\ InTree(p) /\ g \notin used /\ nm \notin Taken(p)
    /\ kids' = Linked(kids, p, g)
    /\ name' = [name EXCEPT ![g] = nm]
    /\ used' = used \cup {g}
    /\ Begin(name')

\* create_gallery of a path whose last two segments do not exist yet.
CreatePath(p, g, h, nm, nm2) ==
    /\ InTree(p) /\ {g, h} \cap used = {} /\ nm \notin Taken(p)
    /\ kids' = Linked(Linked(kids, p, g), g, h)
    /\ name' = [name EXCEPT ![g] = nm, ![h] = nm2]
    /\ used' = used \cup {g, h}
    /\ Begin(name')

\* attach_staged and commit_staged.
AddMedia(p, m, nm) ==
    /\ InTree(p) /\ m \notin used /\ nm \notin Taken(p)
    /\ kids' = Linked(kids, p, m)
    /\ name' = [name EXCEPT ![m] = nm]
    /\ used' = used \cup {m}
    /\ Begin(name')

\* rename_node.
Rename(p, n, nm) ==
    /\ InTree(p) /\ n \in ToSet(kids[p]) /\ nm \notin Taken(p)
    /\ name' = [name EXCEPT ![n] = nm]
    /\ UNCHANGED <<kids, used>>
    /\ Begin(name')

\* apply_rename of a batch that permutes the names of two siblings: the names
\* are swapped back unless the commit succeeds.
SwapNames(p, n, m) ==
    /\ InTree(p) /\ {n, m} \subseteq ToSet(kids[p])
    /\ name' = [name EXCEPT ![n] = name[m], ![m] = name[n]]
    /\ UNCHANGED <<kids, used>>
    /\ Begin(name)

\* n and everything below it: the least set with n and the children of its members.
Subtree(n) ==
    {m \in Node : \A S \in SUBSET Node :
        (n \in S /\ \A g \in S \cap Gallery : ToSet(kids[g]) \subseteq S) => m \in S}

\* move_node_within: to the end of another gallery, not into its own subtree.
MoveWithin(p, n, q, nm) ==
    /\ InTree(p) /\ InTree(q) /\ p # q
    /\ n \in ToSet(kids[p]) /\ nm \notin Taken(q) /\ q \notin Subtree(n)
    /\ kids' = Linked(Unlinked(kids, p, n), q, n)
    /\ name' = [name EXCEPT ![n] = nm]
    /\ UNCHANGED used
    /\ Begin(name')

\* remove_image, remove_gallery, remove_nodes_batch: a gallery takes its subtree
\* with it.
RemoveNode(p, n) ==
    /\ InTree(p) /\ n \in ToSet(kids[p])
    /\ kids' = [q \in Parent |-> IF q \in Subtree(n) THEN << >>
                                 ELSE Unlinked(kids, p, n)[q]]
    /\ UNCHANGED <<name, used>>
    /\ Begin(name)

-----------------------------------------------------------------------------
(* lock and unlock. *)

Siblings(rs, p) == {n \in DOMAIN rs : rs[n].parent = p}

\* list_children: in sibling order.
Ordered(rs, p) ==
    [i \in 1 .. Cardinality(Siblings(rs, p)) |->
        CHOOSE n \in Siblings(rs, p) :
            Cardinality({m \in Siblings(rs, p) : rs[m].order < rs[n].order}) = i - 1]

\* The nodes i edges below the root.
Level(rs) ==
    LET L[i \in Nat] == IF i = 0 THEN {Root} ELSE {n \in DOMAIN rs : rs[n].parent \in L[i - 1]}
    IN L

\* build_children gives up at a gallery this deep.
TooDeep(rs) == Level(rs)[MaxDepth] \cap Gallery # {}

\* ReadSession::unlock of the committed table: materialize, or BadFormat.
Reopen ==
    /\ phase # "commit"
    /\ IF TooDeep(rows)
       THEN /\ phase' = "shut" /\ result' = "refused"
            /\ UNCHANGED tree
       ELSE /\ phase' = "ready" /\ result' = "ok"
            /\ kids' = [p \in Parent |-> Ordered(rows, p)]
            /\ name' = [n \in Node |-> IF n \in DOMAIN rows THEN rows[n].name ELSE name[n]]
            /\ UNCHANGED used
    /\ undo' = name'
    /\ UNCHANGED <<rows, view, live, walk, faults>>

Init ==
    /\ kids = [p \in Parent |-> << >>]
    /\ name = [n \in Node |-> CHOOSE nm \in Name : TRUE] /\ undo = name
    /\ used = {} /\ rows = << >> /\ view = << >> /\ live = {} /\ walk = << >>
    /\ phase = "ready" /\ result = "ok" /\ faults = 0

Edit ==
    \E p \in Parent :
        \/ \E g \in Gallery, nm \in Name : CreateGallery(p, g, nm)
        \/ \E g \in Gallery : \E h \in Gallery \ {g} : \E nm, nm2 \in Name :
              CreatePath(p, g, h, nm, nm2)
        \/ \E m \in Media, nm \in Name : AddMedia(p, m, nm)
        \/ \E n \in Node, nm \in Name : Rename(p, n, nm)
        \/ \E n \in Node : \E m \in Node \ {n} : SwapNames(p, n, m)
        \/ \E n \in Node, q \in Parent, nm \in Name : MoveWithin(p, n, q, nm)
        \/ \E n \in Node : RemoveNode(p, n)

Next ==
    \/ Edit
    \/ StoreNode
    \/ \E n \in Node : DropRow(n)
    \/ CommitEnds
    \/ SystemFails
    \/ Reopen

Spec == Init /\ [][Next]_vars

-----------------------------------------------------------------------------
(* Properties. *)

\* The table holds the tree's nodes, each under its parent, with its name and
\* its position.
Mirrors(rs, k, nm) ==
    /\ DOMAIN rs = Present(k)
    /\ \A p \in Parent : \A i \in DOMAIN k[p] :
          /\ rs[k[p][i]].parent = p /\ rs[k[p][i]].order = i - 1
          /\ rs[k[p][i]].name = nm[k[p][i]]

\* A commit or an unlock that reported success left the table and the live tree
\* the same.
OkMeansMirrored == result = "ok" => Mirrors(rows, kids, name)

\* Whatever was refused or failed on the way, the next unlock finds a tree: no
\* row whose parent is missing, no circle, no two siblings with a name or a
\* place in common.
TableIsATree ==
    /\ \A n \in DOMAIN rows : rows[n].parent \in (DOMAIN rows \cap Gallery) \cup {Root}
    /\ \A S \in SUBSET DOMAIN rows : S # {} => \E n \in S : rows[n].parent \notin S
    /\ \A n \in DOMAIN rows : ~Clashes(rows, n, rows[n])

\* The rows a deletion refuses to remove: of galleries that left the tree before
\* the row of one of their children, which left with them.
Stuck ==
    {p \in DOMAIN rows \ Present(kids) :
        \E n \in DOMAIN rows \ Present(kids) :
            rows[n].parent = p /\ rows[p].rowid < rows[n].rowid}

\* Renames, swaps, moves and reorders are never refused by the table's unique
\* keys: the only commit it refuses removes a gallery before its contents.
RefusesOnlyRemovals == result = "refused" /\ phase = "ready" => Stuck # {}

\* vault/v3_db.h:207: sync_metadata "mirrors the logical metadata snapshot";
\* references of removed nodes "are dropped in the same transaction". Nothing
\* but a failing system refuses a commit.
RemovalsCommit == ~(result = "refused" /\ phase = "ready")

\* docs/V3_VAULT_FORMAT.md:286, on the limits of a vault: "Tree depth: at most
\* 128 edges from the logical root".
DepthWithinLimit == Level(rows)[MaxDepth + 1] = {}
=============================================================================
