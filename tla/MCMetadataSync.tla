---------------------------- MODULE MCMetadataSync ----------------------------
(* A small tree for TLC: two galleries, which can nest, and a media node.     *)
EXTENDS MetadataSync

CONSTANTS g1, g2, m1, a, b, root

\* Galleries are interchangeable; names are not (Init chooses one).
Symmetry == Permutations({g1, g2})
=============================================================================
