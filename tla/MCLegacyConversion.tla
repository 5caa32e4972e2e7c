-------------------------- MODULE MCLegacyConversion --------------------------
(* Instances of LegacyConversion for TLC: a source with two levels,          *)
(* 1 = root gallery, 2 = image with a thumbnail, 3 = gallery and, in it,     *)
(* 4 = image without a thumbnail, 5 = video with a poster; two full batches  *)
(* of two nodes and a short one.                                             *)
EXTENDS LegacyConversion, TLC

CONSTANTS c1, c2, s1, s2, root, i2, i3, i4, i5, i6

TwoLevels == <<0, 1, 1, 3, 3>>

\* Fresh identities are random: which one is drawn makes no difference.
Identities == Permutations(Id \ {RootId})
=============================================================================
