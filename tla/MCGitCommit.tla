--------------------------- MODULE MCGitCommit ---------------------------
(***************************************************************************)
(* Small repositories for checking GitCommit: two paths, so that a path    *)
(* can be renamed to the other, and two contents, so that an edit shows.   *)
(***************************************************************************)
EXTENDS GitCommit, TLC

CONSTANTS p, q, c, d

AllCalls == [kind: Kinds, paths: SUBSET {p, q} \ {{}}]
ExactCalls == {r \in AllCalls : r.kind = "exact"}
Symmetry == Permutations(Contents) \cup Permutations(Paths)
=============================================================================
