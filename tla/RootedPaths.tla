----------------------------- MODULE RootedPaths -----------------------------
(***************************************************************************)
(* Path walks through a repository root's own authority                    *)
(* (crates/core/src/fs/rooted.rs, create_directory.rs, resolve_child_cwd   *)
(* in process/runner.rs, git_path in git/validate.rs). A call opens the    *)
(* root, an anchored one by the descriptor it retains and a configured     *)
(* one by its name, then opens one component after the other with openat   *)
(* and O_NOFOLLOW, and acts on the leaf relative to the last descriptor.   *)
(* Meanwhile others move, remove and link what they like.                  *)
(***************************************************************************)
EXTENDS Naturals, Sequences, FiniteSets

CONSTANTS Dirs, Files,   \* inodes
          Home, Repo,    \* the directory that holds the repository, and the repository
          Outside,       \* a directory that is not in the repository
          Names,         \* names of entries
          RootName,      \* the name the repository is configured by, in Home
          Link,          \* a symbolic link to Outside
          None,          \* no entry
          Paths,         \* repository-relative paths, after normalisation
          MaxMoves       \* bound on what others change during a call

ConstantsAreSane ==
  /\ {Home, Repo, Outside} \subseteq Dirs /\ RootName \in Names /\ Home # Repo
  /\ Dirs \cap Files = {} /\ {Link, None} \cap (Dirs \cup Files) = {} /\ Link # None
  /\ IsFiniteSet(Names) /\ Paths \subseteq Seq(Names) \ {<<>>}

VARIABLES tree,      \* the entries of every directory
          anchored,  \* whether the root carries a descriptor
          call,      \* the call: [op, parents]
          todo,      \* its walks still to do: [act, path]
          fd, rest,  \* the descriptor reached, and the components left
          look,      \* what component_kind found at the next component of a creation
          made,      \* directories_created
          result,    \* None, "ok", "refused", or what the call hands out
          touched,   \* directories the call opened, read or changed
          beneath,   \* directories that lay, since the call began, in the repository or in
                     \* a directory the call holds
          moves      \* changes by others

vars == <<tree, anchored, call, todo, fd, rest, look, made, result, touched, beneath, moves>>
walk == <<call, todo, fd, rest, look, made, result, touched, anchored>>

Entries == Dirs \cup Files \cup {Link, None}
Entry(d, n) == IF d \in Dirs THEN tree[d][n] ELSE None

\* What lies at and below some directories: in every set that holds them and, with a
\* directory, those in it.
Closed(t, S) == \A e \in S, n \in Names : t[e][n] \in Dirs => t[e][n] \in S
Below(t, D) == {e \in Dirs : \A S \in SUBSET Dirs : D \cap Dirs \subseteq S /\ Closed(t, S) => e \in S}
Linked(t) == {t[d][n] : d \in Dirs, n \in Names}
Existing == Dirs \cap (Linked(tree) \cup {Home})

\* What the root's authority stands for: the directory, or whatever bears its name.
RootOf(t) == IF anchored THEN Repo ELSE t[Home][RootName]

TypeOK ==
  /\ tree \in [Dirs -> [Names -> Entries]]
  /\ fd \in Dirs \cup {None}
  /\ beneath \subseteq Dirs /\ touched \subseteq Dirs
  /\ result \in {None, "ok", "refused"} /\ look \in {None, "missing", "directory"}
  /\ \A n \in 1..Len(made) : made[n] \in Dirs

Ops == [op : {"stat", "confine", "hash", "remove", "removeall", "chdir"}, parents : {FALSE}]
         \cup [op : {"create"}, parents : BOOLEAN]
FirstAct(o) == CASE o.op = "removeall" -> "list" [] OTHER -> o.op

\* Every tree in which the repository lies in Home.  A directory that lies in no other is one
\* that does not exist yet: it holds nothing.
IsTree(t) ==
  /\ Linked(t) \cap {Home} = {} /\ t[Home][RootName] = Repo
  /\ \A d \in Dirs \ (Linked(t) \cup {Home}), n \in Names : t[d][n] = None
  /\ \A d, e \in Dirs, m, n \in Names :
       t[d][m] = t[e][n] /\ t[d][m] \in Dirs \cup Files => d = e /\ m = n
  /\ \A d \in Dirs : d \notin Below(t, {t[d][n] : n \in Names})

Idle == /\ call = None /\ todo = <<>> /\ fd = None /\ rest = <<>> /\ made = <<>>
        /\ look = None /\ result = None /\ touched = {} /\ moves = 0

InitOf(trees) ==
  /\ tree \in {t \in trees : IsTree(t)}
  /\ anchored \in BOOLEAN
  /\ beneath = Below(tree, {Repo})
  /\ Idle
Init == InitOf([Dirs -> [Names -> Entries]])

\* The call arrives.
Begin(o, p) ==
  /\ call = None
  /\ call' = o
  /\ todo' = <<[act |-> FirstAct(o), path |-> p]>>
  /\ UNCHANGED <<tree, anchored, fd, rest, look, made, result, touched, beneath, moves>>

Refuse == /\ result' = "refused" /\ todo' = <<>> /\ fd' = None /\ rest' = <<>> /\ look' = None
          /\ UNCHANGED <<tree, call, made, touched, anchored, moves, beneath>>

\* Faulty variant of Opens: a link is followed.
OpensFollowing(d, n) == IF tree[d][n] = Link THEN Outside
                        ELSE IF tree[d][n] \in Dirs THEN tree[d][n] ELSE None
\* openat(d, n) with O_DIRECTORY and O_NOFOLLOW.
Opens(d, n) == IF tree[d][n] \in Dirs THEN tree[d][n] ELSE None

Reach(d, left) == /\ fd' = d /\ rest' = left /\ touched' = touched \cup {d} /\ look' = None
                  /\ UNCHANGED <<tree, call, todo, made, result, anchored, moves, beneath>>

\* root_handle, once per walk.
OpenRoot ==
  /\ todo # <<>> /\ fd = None
  /\ IF RootOf(tree) \in Dirs THEN Reach(RootOf(tree), Head(todo).path) ELSE Refuse

\* The leaf was dealt with: the next walk, or the end of the call.
Done(next, t, D) ==
  /\ tree' = t /\ todo' = next /\ fd' = None /\ rest' = <<>> /\ look' = None
  /\ touched' = touched \cup D
  /\ result' = IF next = <<>> THEN "ok" ELSE None
  /\ UNCHANGED <<call, made, anchored, moves, beneath>>

Leaf == Entry(fd, rest[1])

\* open_parent: one component.  A missing one is an answer to entry_kind and an error
\* to everything else.  (Creation looks at a component before it opens it.)
Descend ==
  /\ fd # None /\ Len(rest) > 1 /\ Head(todo).act # "create"
  /\ IF Opens(fd, Head(rest)) # None THEN Reach(Opens(fd, Head(rest)), Tail(rest))
     ELSE IF Leaf = None /\ Head(todo).act = "stat" THEN Done(<<>>, tree, {}) ELSE Refuse

AtLeaf(a) == todo # <<>> /\ fd # None /\ Len(rest) = 1 /\ Head(todo).act = a
Unlinked == [tree EXCEPT ![fd][rest[1]] = None]

\* entry_kind: a symbolic link is reported, not followed.
Stat == AtLeaf("stat") /\ Done(Tail(todo), tree, {})

\* git_path: a path for Git, whose leaf may be missing but is no symbolic link.
Confine == AtLeaf("confine") /\ IF Leaf = Link THEN Refuse ELSE Done(Tail(todo), tree, {})

\* open_regular_file and sha256.
Hash == AtLeaf("hash") /\ IF Leaf \in Files THEN Done(Tail(todo), tree, {}) ELSE Refuse

\* open_directory: the working directory a child changes into.
Chdir == /\ AtLeaf("chdir")
         /\ IF Opens(fd, rest[1]) # None THEN Done(Tail(todo), tree, {Opens(fd, rest[1])}) ELSE Refuse

\* remove_file: anything but a directory, a symbolic link itself included.
RemoveFile ==
  /\ AtLeaf("remove")
  /\ IF Leaf \in Files \cup {Link} THEN Done(Tail(todo), Unlinked, {}) ELSE Refuse

\* remove_dir: an empty directory.
RemoveDir ==
  /\ AtLeaf("rmdir")
  /\ IF Leaf \in Dirs /\ \A n \in Names : tree[Leaf][n] = None
     THEN Done(Tail(todo), Unlinked, {}) ELSE Refuse

\* read_dir: the kinds of the entries, then a removal of each by its own walk, the
\* directory last (remove_dir_all).
Removals(d, p) ==
  LET present == {n \in Names : tree[d][n] # None}
      order == CHOOSE s \in [1..Cardinality(present) -> present] : \A n \in present : \E i \in DOMAIN s : s[i] = n
  IN [i \in DOMAIN order |-> [act |-> IF tree[d][order[i]] \in Dirs THEN "list" ELSE "remove",
                              path |-> Append(p, order[i])]]
     \o <<[act |-> "rmdir", path |-> p]>>
List ==
  /\ AtLeaf("list")
  /\ LET d == Opens(fd, rest[1])
     IN IF d # None THEN Done(Removals(d, Head(todo).path) \o Tail(todo), tree, {d}) ELSE Refuse

\* create_directory_unix: component_kind, then mkdirat for what is missing, then descend.
Creating == todo # <<>> /\ fd # None /\ Head(todo).act = "create"
Target == Len(rest) = 1
Look ==
  /\ Creating /\ look = None
  /\ IF \/ Leaf \in Files \cup {Link}
        \/ Leaf \in Dirs /\ Target
        \/ Leaf = None /\ ~Target /\ ~call.parents
     THEN Refuse
     ELSE /\ look' = IF Leaf \in Dirs THEN "directory" ELSE "missing"
          /\ UNCHANGED <<tree, call, todo, fd, rest, made, result, touched, anchored, moves, beneath>>
\* An inode for a new directory: none that the call holds or held.
Unused == Dirs \ (Existing \cup touched)
MakeDir ==
  /\ Creating /\ look = "missing"
  /\ IF Leaf # None \/ Unused = {} THEN Refuse
     ELSE LET d == CHOOSE x \in Unused : TRUE
          IN /\ tree' = [tree EXCEPT ![fd][rest[1]] = d]
             /\ made' = Append(made, d) /\ look' = "directory"
             /\ beneath' = beneath \cup {d}
             /\ UNCHANGED <<call, todo, fd, rest, result, touched, anchored, moves>>
Enter ==
  /\ Creating /\ look = "directory"
  /\ LET d == Opens(fd, rest[1])
     IN IF d = None THEN Refuse
        ELSE IF Target THEN Done(<<>>, tree, {d}) ELSE Reach(d, Tail(rest))

Step == OpenRoot \/ Descend \/ Stat \/ Confine \/ Hash \/ Chdir \/ RemoveFile \/ RemoveDir \/ List \/ Look \/ MakeDir \/ Enter

\* Others move an entry, the repository itself included, and may leave a symbolic link
\* in its place; or they make a link where nothing was.
Meanwhile == call # None /\ result = None /\ moves < MaxMoves
Change(t) == /\ tree' = t /\ moves' = moves + 1 /\ UNCHANGED walk
             /\ beneath' = beneath \cup Below(t, {RootOf(t), fd})
UserMoves == Meanwhile /\ \E d \in Dirs, m \in Names, left \in {None, Link} :
  /\ tree[d][m] # None
  /\ \E e \in Existing \ Below(tree, {tree[d][m]}), n \in Names :
       tree[e][n] = None /\ Change([tree EXCEPT ![d][m] = left, ![e][n] = tree[d][m]])
UserLinks == Meanwhile /\ \E d \in Existing, n \in Names :
  tree[d][n] = None /\ Change([tree EXCEPT ![d][n] = Link])

Next == \/ \E o \in Ops, p \in Paths : Begin(o, p)
        \/ Step \/ UserMoves \/ UserLinks
Spec == Init /\ [][Next]_vars

-----------------------------------------------------------------------------
\* A call opens, reads and changes only directories that lay, at some moment since it
\* began, beneath the repository root or beneath a directory it had reached that way,
\* whatever others move or link meanwhile: never what a symbolic link points at.  An
\* anchored call keeps to the directory it was given, even when another takes its name.
StaysBeneathRoot == touched \subseteq beneath
=============================================================================
