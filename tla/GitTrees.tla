----------------------------- MODULE GitTrees -----------------------------
(***************************************************************************)
(* The three trees of a Git repository, what Git reports of them           *)
(* (crates/core/src/git/state.rs), and what others do to them.             *)
(***************************************************************************)
EXTENDS FiniteSets

CONSTANTS
  Paths,
  Contents,     \* what a file may hold
  None,         \* no file, no call
  Ignored,      \* the paths below the one directory that .gitignore names
  OtherGit      \* when somebody else runs Git: "never", "between" calls, or at "any" time

VARIABLES
  head,         \* head[q]: what the HEAD commit holds at q
  index,        \* index[q]: what the index holds at q
  work          \* work[q]: what the worktree holds at q

File == Contents \cup {None}

ASSUME TreesAreSane ==
  /\ None \notin Contents /\ IsFiniteSet(Paths) /\ Ignored \subseteq Paths
  /\ OtherGit \in {"never", "between", "any"}

TreesOK == {head, index, work} \subseteq [Paths -> File]

TreesInit == head \in [Paths -> File] /\ index = head /\ work = head

Tracked == {q \in Paths : index[q] # None}
Staged == {q \in Paths : index[q] # head[q]}
UntrackedOrIgnored == {q \in Paths : index[q] = None /\ work[q] # None}
Untracked == UntrackedOrIgnored \ Ignored
Dirty == Staged \cup Untracked \cup {q \in Tracked : work[q] # index[q]}

(* A path whose removal Git pairs with a staged addition of the same content. *)
RenameSources ==
  {q \in Paths : /\ head[q] # None /\ index[q] = None
                 /\ \E r \in Paths : head[r] = None /\ index[r] = head[q]}

-----------------------------------------------------------------------------
(* An editor, or a ContextPatch process that edits files without the repository lock. *)
EditAnywhere ==
  /\ \E q \in Paths, c \in File : work[q] # c /\ work' = [work EXCEPT ![q] = c]
  /\ UNCHANGED <<head, index>>

(* `git add`, `git rm --cached` and `git reset` of one path. *)
ChangeIndex ==
  /\ \E q \in Paths : \E c \in {work[q], head[q], None} : index' = [index EXCEPT ![q] = c]
  /\ UNCHANGED <<head, work>>

(* `git commit` takes the index as it is, and refuses when nothing is staged. *)
CommitIndex == Staged # {} /\ head' = index /\ UNCHANGED <<index, work>>
=============================================================================
