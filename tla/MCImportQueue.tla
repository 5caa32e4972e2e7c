--------------------------- MODULE MCImportQueue ---------------------------
(***************************************************************************)
(* Instances of ImportQueue.  The passing instance imports four files, one *)
(* that cannot be staged and one that cannot be read, and an archive that  *)
(* holds one that is too large, a comic, and one that comes after the      *)
(* budget of expanded bytes is spent; one of the files and a page of the   *)
(* comic have one name.  The stalling instance has a file that cannot be   *)
(* read before one that can.                                               *)
(***************************************************************************)
EXTENDS ImportQueue

CONSTANTS t1, t2, outer, inner, huge, late, none

Media(name) == [what |-> "media", extracts |-> TRUE, stages |-> TRUE, name |-> name, sub |-> none]
Inside(a) == [what |-> "archive", extracts |-> TRUE, stages |-> TRUE, name |-> "", sub |-> a]
Tags == [what |-> "meta", extracts |-> TRUE, stages |-> TRUE, name |-> "", sub |-> none]

MCContents == (outer :> << Tags, Inside(huge), Inside(inner), Inside(late) >>)
           @@ (inner :> << Tags, Media("m"), Inside(none) >>)
           @@ (huge :> << Media("h") >>) @@ (late :> << Media("l") >>)
MCKind == (outer :> "arc") @@ (inner :> "cbz") @@ (huge :> "arc") @@ (late :> "zip")
MCBytes == (outer :> 9) @@ (inner :> 1) @@ (huge :> 3) @@ (late :> 1)

Good(name) == [read |-> "good", name |-> name]
Bad == [read |-> "bad", name |-> "x"]
Junk == [read |-> "junk", name |-> "x"]

MCJobs == (t1 :> [kind |-> "files", files |-> << Good("a"), Junk, Good("m"), Bad >>])
       @@ (t2 :> [kind |-> "archive", root |-> outer])

StallJobs == (t1 :> [kind |-> "files", files |-> << Good("a"), Bad, Good("b") >>])
=============================================================================
