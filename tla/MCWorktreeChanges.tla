------------------------ MODULE MCWorktreeChanges ------------------------
(***************************************************************************)
(* Small repositories for checking WorktreeChanges: p and q are ordinary   *)
(* paths, i lies in the ignored directory.                                 *)
(***************************************************************************)
EXTENDS WorktreeChanges, TLC

CONSTANTS p, q, i, c, d

Delete == [kind |-> "delete", paths |-> <<p>>, hash |-> c]
Move == [kind |-> "move", paths |-> <<p, q>>, hash |-> None]
Restore1 == [kind |-> "restore", paths |-> <<p>>, hash |-> None]
Restore2 == [kind |-> "restore", paths |-> <<p, q>>, hash |-> None]
Untracked1 == [kind |-> "untracked", paths |-> <<p>>, hash |-> None]
Untracked2 == [kind |-> "untracked", paths |-> <<p, q>>, hash |-> None]
Generated1 == [kind |-> "generated", paths |-> <<i>>, hash |-> None]
Generated2 == [kind |-> "generated", paths |-> <<p, i>>, hash |-> None]

TrackedCalls == {Delete, Move, Restore1, Restore2}
CleanupCalls == {Untracked1, Untracked2, Generated1, Generated2}
AllCalls == TrackedCalls \cup CleanupCalls
=============================================================================
