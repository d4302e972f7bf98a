--------------------------- MODULE DirectoryListing ---------------------------
(***************************************************************************)
(* list_directory (crates/core/src/fs/directory.rs and call_list_directory *)
(* in crates/server/src/tools/files/read.rs): a breadth-first walk over    *)
(* open directories that keeps, of each, no more names than the listing    *)
(* has room for, and says whether it left any out.  Entries may vanish or  *)
(* become links while they are listed.                                     *)
(***************************************************************************)
EXTENDS Naturals, Sequences, FiniteSets

CONSTANTS Size,        \* entries of the tree, which are numbered in the order of their names
          Limits,      \* max_entries of a call
          Depths,      \* max_depth
          MaxChanges,  \* bound on what others change during a call
          None

Top == 0               \* the directory listed
Entries == 1..Size
Kinds == {"file", "directory", "symlink"}

VARIABLES parent, kind, hidden,  \* the tree; kind is None for what has gone
          call,                  \* include_hidden, recursive, max_depth, max_entries
          pending,               \* directories to read, each with its depth
          names,                 \* names kept of the directory being read; then its directories to go into
          entries, truncated,    \* the listing
          pc, changes

vars == <<parent, kind, hidden, call, pending, names, entries, truncated, pc, changes>>
tree == <<parent, hidden, call>>

TypeOK ==
  /\ parent \in [Entries -> {Top} \cup Entries] /\ kind \in [Entries -> Kinds \cup {None}]
  /\ entries \subseteq Entries /\ names \subseteq Entries /\ truncated \in BOOLEAN
  /\ Cardinality(entries \cup names) <= call.limit
  /\ pc \in {"read", "stat", "open", "done", "refused"}

IsDirectory(d) == IF d = Top THEN TRUE ELSE kind[d] = "directory"
Children(d) == {e \in Entries : parent[e] = d /\ kind[e] # None /\ (hidden[e] => call.hidden)}

Init ==
  /\ parent \in {p \in [Entries -> {Top} \cup Entries] : \A e \in Entries : p[e] < e}
  /\ kind \in {k \in [Entries -> Kinds] : \A e \in Entries : parent[e] # Top => k[parent[e]] = "directory"}
  /\ hidden \in {h \in [Entries -> BOOLEAN] : Cardinality({e \in Entries : h[e]}) <= 1}
  /\ call \in [hidden : BOOLEAN, recursive : BOOLEAN, depth : Depths, limit : Limits]
  /\ pending = <<[dir |-> Top, depth |-> 0]>> /\ names = {} /\ entries = {} /\ truncated = FALSE
  /\ pc = "read" /\ changes = 0

Room == call.limit - Cardinality(entries)
\* retain_smallest: the first n in the order of names.
Smallest(S, n) == {e \in S : Cardinality({x \in S : x < e}) < n}

\* Faulty variant of Kept: names are not marked as left out.
KeptNames(S) == Smallest(S, Room)
\* read_directory_entries keeps one name more than there is room for, to know of a rest.
Kept(S) == Smallest(S, Room + 1)
ReadDirectory ==
  /\ pc = "read" /\ pending # <<>>
  /\ LET kept == Kept(Children(Head(pending).dir))
     IN /\ names' = Smallest(kept, Room)
        /\ truncated' = (Cardinality(kept) > Room)
        /\ pc' = "stat"
        /\ UNCHANGED <<pending, entries, kind, changes, tree>>

Descends(e, depth) == call.recursive /\ kind[e] = "directory" /\ depth < call.depth
\* fstatat of every name; a name that has gone ends the call.
Stat ==
  /\ pc = "stat"
  /\ IF \E e \in names : kind[e] = None
     THEN pc' = "refused" /\ UNCHANGED <<names, entries>>
     ELSE /\ entries' = entries \cup names /\ pc' = "open"
          /\ names' = {e \in names : Descends(e, Head(pending).depth + 1)}
  /\ UNCHANGED <<pending, truncated, kind, changes, tree>>

\* open_child_directory, for each directory to go into; the walk ends with what was left out.
InOrder(S, depth) == [n \in 1..Cardinality(S) |->
  [dir |-> CHOOSE e \in S : Cardinality({x \in S : x < e}) = n - 1, depth |-> depth]]
OpenChildren ==
  /\ pc = "open"
  /\ IF \E e \in names : ~IsDirectory(e) THEN pc' = "refused" /\ UNCHANGED <<pending, names>>
     ELSE /\ pending' = IF truncated THEN <<>>
                        ELSE Tail(pending) \o InOrder(names, Head(pending).depth + 1)
          /\ names' = {} /\ pc' = IF pending' = <<>> THEN "done" ELSE "read"
  /\ UNCHANGED <<entries, truncated, kind, changes, tree>>

\* Others remove an entry (a directory with all that is in it) or put a link in its place.
Within(e) == LET up[x \in Entries] == x = e \/ (IF parent[x] = Top THEN FALSE
                                               ELSE LET above == up[parent[x]] IN above)
             IN {x \in Entries : up[x]}
Change == \E e \in Entries, new \in {None, "symlink"} :
  /\ pc \in {"read", "stat", "open"} /\ changes < MaxChanges /\ kind[e] \notin {None, new}
  /\ changes' = changes + 1
  /\ kind' = [x \in Entries |-> IF x = e THEN new ELSE IF x \in Within(e) THEN None ELSE kind[x]]
  /\ UNCHANGED <<pending, names, entries, truncated, pc, tree>>

Next == ReadDirectory \/ Stat \/ OpenChildren \/ Change
Spec == Init /\ [][Next]_vars

-----------------------------------------------------------------------------
Depth(e) == LET depth[x \in Entries] == IF parent[x] = Top THEN 1
                                        ELSE LET above == depth[parent[x]] IN above + 1
            IN depth[e]
\* What the call asks for: what is not hidden, nor in a hidden directory, and not too deep.
Wanted == {e \in Entries :
             /\ Depth(e) <= IF call.recursive THEN call.depth ELSE 1
             /\ call.hidden \/ \A x \in Entries : hidden[x] => e \notin Within(x)}

\* A listing has only what was asked for, and of a tree nobody changed as many of the
\* wanted entries as it may; it says that it is truncated exactly when it leaves some out,
\* leaves nothing out above what it lists, and keeps the first names of a directory.
ListingIsHonest ==
  pc = "done" =>
    /\ entries \subseteq Wanted
    /\ changes = 0 =>
         /\ Cardinality(entries) = IF Cardinality(Wanted) < call.limit THEN Cardinality(Wanted) ELSE call.limit
         /\ truncated <=> Wanted # entries
         /\ \A e \in entries, x \in Wanted \ entries :
              Depth(x) >= Depth(e) /\ (parent[x] = parent[e] => x > e)
=============================================================================
