------------------------- MODULE RepositorySelection -------------------------
(***************************************************************************)
(* Which directory a call acts on (crates/core/src/git/workspace.rs,       *)
(* root.rs, guarded_path.rs, fs/repository_identity.rs,                    *)
(* fs/mutation_lock.rs, server/src/tools/dispatch.rs).  A selected call    *)
(* walks its selector from the workspace by descriptors, canonicalises the *)
(* same name, asks Git in the directory it holds for the worktree root,    *)
(* and twice compares the name with the directory.  From then on it locks  *)
(* and acts by descriptor; a call without a selector locks and acts by the *)
(* configured name.  Meanwhile others move directories and links.          *)
(***************************************************************************)
EXTENDS Naturals, Sequences, FiniteSets, SequencesExt

CONSTANTS Dirs,       \* directories
          Links,      \* symbolic links
          LinkTo,     \* the absolute path each of them spells: a sequence of names
          Slash,      \* the root directory
          Names,      \* names of entries
          None,       \* no entry, no directory
          Worktrees,  \* the directories that are worktree roots (they hold a .git)
          Workspace,  \* the path the server is configured with
          Calls,
          Selectors,  \* normalised selectors; <<>> when a call has none
          MaxMoves    \* bound on what others move

VARIABLES tree,    \* the entries of every directory
          moves,   \* what others moved
          pc,      \* where each call is
          sel,     \* its selector
          path,    \* the path it computed last: the boundary, then the worktree root
          top,     \* what rev-parse --show-toplevel printed
          fd,      \* the directory it holds
          rest,    \* the components it still has to open
          key,     \* the repository lock it holds, by the directory it is the lock of
          named,   \* the directories its path named since the call computed it
          within   \* the directories that lay beneath the workspace it opened, or beneath
                   \* a directory it held, since it held it

vars == <<tree, moves, pc, sel, path, top, fd, rest, key, named, within>>

ASSUME ConstantsAreSane == None \notin Dirs /\ MaxMoves \in Nat

Steps == {"boundary", "open", "walk", "resolve", "root", "toplevel", "compare", "prove",
          "reprove", "lock", "act", "done", "refused"}
Entries == Dirs \cup Links \cup {None}
Entry(d, n) == IF d \in Dirs THEN tree[d][n] ELSE None

\* The directory a path names: links are followed, LinkTo[l] being spelled from the root.
Fuel == 8
Reach(t, p) ==
  LET at[k \in 0..Fuel] ==
        IF k = 0 THEN [dir |-> Slash, left |-> p]
        ELSE LET s == at[k - 1] IN
             IF s.dir = None \/ s.left = <<>> THEN s
             ELSE LET e == t[s.dir][Head(s.left)] IN
                  CASE e \in Dirs  -> [dir |-> e, left |-> Tail(s.left)]
                    [] e \in Links -> [dir |-> Slash, left |-> LinkTo[e] \o Tail(s.left)]
                    [] OTHER       -> [dir |-> None, left |-> <<>>]
  IN IF at[Fuel].dir \in Dirs /\ at[Fuel].left = <<>> THEN at[Fuel].dir ELSE None

\* The directory that holds d, and the one path without links that leads to it.
Parents(t, d) == {e \in Dirs : \E n \in Names : t[e][n] = d}
Ancestors(t, d) ==
  LET up[k \in 0..Cardinality(Dirs)] ==
        IF k = 0 THEN <<d>>
        ELSE LET below == up[k - 1] IN
             IF Parents(t, below[1]) = {} THEN below
             ELSE <<CHOOSE e \in Dirs : e \in Parents(t, below[1])>> \o below
  IN up[Cardinality(Dirs)]
PathOf(t, d) ==
  LET up == Ancestors(t, d)
  IN [k \in 1..(Len(up) - 1) |-> CHOOSE n \in Names : t[up[k]][n] = up[k + 1]]
\* What lies in every set of directories that holds d and, with a directory, those in it.
Closed(t, S) == \A e \in S, n \in Names : t[e][n] \in Dirs => t[e][n] \in S
Beneath(t, d) == {e \in Dirs : \A S \in SUBSET Dirs : d \in S /\ Closed(t, S) => e \in S}

\* canonicalize: <<>> stands for a path that names no directory (the workspace is not /).
Canonical(t, p) == IF Reach(t, p) = None THEN <<>> ELSE PathOf(t, Reach(t, p))

\* git rev-parse --show-toplevel run in d: the nearest directory upwards that holds a .git.
Toplevel(t, d) ==
  LET up == Ancestors(t, d)
      held == {k \in DOMAIN up : up[k] \in Worktrees}
  IN IF held = {} THEN None ELSE up[CHOOSE k \in held : \A j \in held : j <= k]

IsTree(t) == /\ \A d \in Dirs : Cardinality(Parents(t, d)) = IF d = Slash THEN 0 ELSE 1
             /\ \A d \in Dirs : Cardinality({at \in Dirs \X Names : t[at[1]][at[2]] = d}) <= 1
             /\ \A d \in Dirs : Ancestors(t, d)[1] = Slash

TypeOK ==
  /\ tree \in [Dirs -> [Names -> Entries]] /\ moves \in 0..MaxMoves
  /\ pc \in [Calls -> Steps] /\ sel \in [Calls -> Selectors]
  /\ fd \in [Calls -> Dirs \cup {None}] /\ key \in [Calls -> Dirs \cup {None}]
  /\ named \in [Calls -> SUBSET (Dirs \cup {None})] /\ within \in [Calls -> SUBSET Dirs]

InitOf(trees) ==
  /\ tree \in {t \in trees : IsTree(t)}
  /\ moves = 0
  /\ sel \in [Calls -> Selectors]
  \* handle_tool_call: no selector, no selection.
  /\ pc = [c \in Calls |-> IF sel[c] = <<>> THEN "lock" ELSE "boundary"]
  /\ path = [c \in Calls |-> Workspace] /\ top = [c \in Calls |-> <<>>]
  /\ fd = [c \in Calls |-> None] /\ rest = [c \in Calls |-> <<>>]
  /\ key = [c \in Calls |-> None]
  /\ named = [c \in Calls |-> {}] /\ within = [c \in Calls |-> {}]
Init == InitOf([Dirs -> [Names -> Entries]])

Go(c, next) == pc' = [pc EXCEPT ![c] = next]
Refuse(c) == /\ Go(c, "refused") /\ UNCHANGED <<sel, path, top, fd, rest, key, named, within>>
Holding(c, d) == /\ fd' = [fd EXCEPT ![c] = d]
                 /\ within' = [within EXCEPT ![c] = @ \cup Beneath(tree, d)]
Computes(c, p) == /\ path' = [path EXCEPT ![c] = p]
                /\ named' = [named EXCEPT ![c] = {Reach(tree, p)}]

\* select_workspace_repository: the canonical workspace.
Boundary(c) ==
  /\ pc[c] = "boundary"
  /\ IF Canonical(tree, Workspace) = <<>> THEN Refuse(c)
     ELSE /\ Computes(c, Canonical(tree, Workspace)) /\ Go(c, "open")
          /\ UNCHANGED <<sel, top, fd, rest, key, within>>

\* open(2) of the workspace: O_NOFOLLOW speaks of the last component alone.
OpenWorkspace(c) ==
  LET above == Reach(tree, Front(path[c]))
      found == Entry(above, Last(path[c]))
  IN /\ pc[c] = "open"
     /\ IF found \notin Dirs THEN Refuse(c)
        ELSE /\ Holding(c, found) /\ Go(c, "walk") /\ rest' = [rest EXCEPT ![c] = sel[c]]
             /\ UNCHANGED <<sel, path, top, key, named>>

\* walk_selector_with_descriptors: one openat, without following.
Walk(c) ==
  /\ pc[c] = "walk" /\ rest[c] # <<>>
  /\ LET found == Entry(fd[c], Head(rest[c])) IN
     IF found \notin Dirs THEN Refuse(c)
     ELSE /\ Holding(c, found) /\ rest' = [rest EXCEPT ![c] = Tail(@)]
          /\ Go(c, IF Len(rest[c]) = 1 THEN "resolve" ELSE "walk")
          /\ UNCHANGED <<sel, path, top, key, named>>

\* The candidate, canonical, lies strictly beneath the canonical workspace.
Resolve(c) ==
  LET candidate == Canonical(tree, path[c] \o sel[c]) IN
  /\ pc[c] = "resolve"
  /\ IF candidate = <<>> \/ candidate = path[c] \/ ~IsPrefix(path[c], candidate) THEN Refuse(c)
     ELSE Computes(c, candidate) /\ Go(c, "root") /\ UNCHANGED <<sel, top, fd, rest, key, within>>

\* exact_worktree_root_in canonicalises once more.
WorktreeRoot(c) ==
  /\ pc[c] = "root"
  /\ IF Canonical(tree, path[c]) = <<>> THEN Refuse(c)
     ELSE /\ Computes(c, Canonical(tree, path[c])) /\ Go(c, "toplevel")
          /\ UNCHANGED <<sel, top, fd, rest, key, within>>

\* rev-parse runs in the directory the call holds.
ShowToplevel(c) ==
  /\ pc[c] = "toplevel"
  /\ IF Toplevel(tree, fd[c]) = None THEN Refuse(c)
     ELSE /\ top' = [top EXCEPT ![c] = PathOf(tree, Toplevel(tree, fd[c]))]
          /\ Go(c, "compare") /\ UNCHANGED <<sel, path, fd, rest, key, named, within>>

\* git_root != root is refused: a subdirectory of a worktree is not promoted.
Compare(c) ==
  /\ pc[c] = "compare"
  /\ IF Canonical(tree, top[c]) # path[c] THEN Refuse(c)
     ELSE Go(c, "prove") /\ UNCHANGED <<sel, path, top, fd, rest, key, named, within>>

\* Faulty variant of StillNames: the path names some directory.
NeverLooked(c) == Reach(tree, path[c]) # None
\* revalidate: at the end of the selection, and before it is handed to a tool.
StillNames(c) == Reach(tree, path[c]) = fd[c]
Revalidate(c) ==
  /\ pc[c] \in {"prove", "reprove"}
  /\ IF ~StillNames(c) THEN Refuse(c)
     ELSE /\ Go(c, IF pc[c] = "prove" THEN "reprove" ELSE "lock")
          /\ UNCHANGED <<sel, path, top, fd, rest, key, named, within>>

Selected(c) == sel[c] # <<>>
\* identity_of: the device and inode of what the root's authority opens, no link followed
\* at the end of a configured name.
ByName(c) == LET found == Entry(Reach(tree, Front(path[c])), Last(path[c]))
             IN IF found \in Dirs THEN found ELSE None
Identity(c) == IF Selected(c) THEN fd[c] ELSE ByName(c)

\* Faulty variant of Held: the lock of another call is overlooked.
LockOverlooked(c) == FALSE
\* try_lock: the file lock of the repository, one per identity.
Held(c) == \E e \in Calls : key[e] = Identity(c)

\* try_repository_mutation_lock never waits.
Lock(c) ==
  /\ pc[c] = "lock"
  /\ IF Identity(c) = None \/ Held(c) THEN Refuse(c)
     ELSE /\ key' = [key EXCEPT ![c] = Identity(c)] /\ Go(c, "act")
          /\ UNCHANGED <<sel, path, top, fd, rest, named, within>>

\* Where the commands and edits of the call happen now.
Acting(c) == pc[c] = "act"
Target(c) == IF Selected(c) THEN fd[c] ELSE Reach(tree, path[c])

\* The call ends and the guard unlocks.
Finish(c) ==
  /\ Acting(c)
  /\ key' = [key EXCEPT ![c] = None] /\ Go(c, "done")
  /\ UNCHANGED <<sel, path, top, fd, rest, named, within>>

\* While a call runs, a directory or a link goes to a free name, not beneath itself.
Move(d, n, e, m) ==
  /\ moves < MaxMoves /\ tree[d][n] # None /\ tree[e][m] = None
  /\ ~\A c \in Calls : pc[c] \in {"done", "refused"}
  /\ tree[d][n] \in Dirs => e \notin Beneath(tree, tree[d][n])
  /\ LET t == [tree EXCEPT ![d][n] = None, ![e][m] = tree[d][n]] IN
     /\ tree' = t
     /\ named' = [c \in Calls |-> IF path[c] = Workspace /\ fd[c] = None THEN named[c]
                                  ELSE named[c] \cup {Reach(t, path[c])}]
     /\ within' = [c \in Calls |-> IF fd[c] = None THEN within[c]
                                   ELSE within[c] \cup Beneath(t, fd[c])]
  /\ moves' = moves + 1
  /\ UNCHANGED <<pc, sel, path, top, fd, rest, key>>

Step(c) == Boundary(c) \/ OpenWorkspace(c) \/ Walk(c) \/ Resolve(c) \/ WorktreeRoot(c)
             \/ ShowToplevel(c) \/ Compare(c) \/ Revalidate(c) \/ Lock(c) \/ Finish(c)
Next == \/ \E c \in Calls : Step(c) /\ UNCHANGED <<tree, moves>>
        \/ \E d, e \in Dirs, n, m \in Names : Move(d, n, e, m)
Spec == Init /\ [][Next]_vars

(***************************************************************************)
(* Whatever others move and link while a selection is made, the directory  *)
(* a selected call acts on is one that lay beneath the workspace the call  *)
(* opened (or beneath a directory it held on the way), and that the path   *)
(* it reports named after the path was computed (the descriptor walk,      *)
(* starts_with and revalidate, select_workspace_repository).               *)
(***************************************************************************)
SelectsWhatItNames ==
  TypeOK /\ \A c \in Calls : Selected(c) /\ Acting(c) => Target(c) \in named[c] \cap within[c]

(***************************************************************************)
(* Two selected calls never change one directory at the same time, under   *)
(* whatever names they reached it and whatever it is called by now         *)
(* (identity_of, try_repository_mutation_lock).                            *)
(***************************************************************************)
OneWriterPerRepository ==
  \A c, e \in Calls : /\ Selected(c) /\ Selected(e) /\ Acting(c) /\ Acting(e)
                      /\ Target(c) = Target(e)
                      => c = e
=============================================================================
