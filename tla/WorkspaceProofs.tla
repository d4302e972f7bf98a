--------------------------- MODULE WorkspaceProofs ---------------------------
(***************************************************************************)
(* What the tools that work on a workspace promise, for any tree of        *)
(* directories and links, any files, jobs, scripts and runs, and whatever  *)
(* others do meanwhile.  The parts share no variable (EachPartAlone), so   *)
(* each has an inductive invariant of its own:                             *)
(*   IInv         what a selected call knows at each of its steps: that    *)
(*                its directory lay where it may and that its path named   *)
(*                it; and that a repository lock has one holder, who acts; *)
(*   ScriptInv    that the manifest of this moment, the one the call has   *)
(*                open and the one that admitted the script are among      *)
(*                those there were during the call;                        *)
(*   WalkInv      that all that lies beneath the root, or beneath the      *)
(*                directory the call holds, counts as beneath the root;    *)
(*   JobInv       what each stage of a Docker job, or a command that the   *)
(*                daemon still owes it, may have made, and under which     *)
(*                names;                                                   *)
(*   SettingsInv  who holds the lock of the settings file, and what that   *)
(*                run has put on the disk at each of its steps;            *)
(*   BracketInv   what the first look kept, and which exits a reply needs; *)
(*   FixtureInv   that a reading is what the file had during the call.     *)
(***************************************************************************)
EXTENDS MCWorkspace, SequenceTheorems, FiniteSetTheorems, TLAPS

-----------------------------------------------------------------------------
(* The selection of repositories.                                          *)

Looked == {"root", "toplevel", "compare", "prove", "reprove", "lock", "act"}
Proven == {"reprove", "lock", "act"}

(* What a selected call knows of the directory it holds. *)
Knows(c) ==
  /\ pc[c] \in Looked \cup {"walk", "resolve"} => fd[c] \in Dirs /\ fd[c] \in within[c]
  /\ pc[c] \in Looked => Reach(tree, path[c]) \in named[c]
  /\ pc[c] \in Proven => fd[c] \in named[c]

(* Who holds a lock acts, and a selected call holds the lock of its directory. *)
Locks(c) ==
  /\ key[c] # None => pc[c] = "act"
  /\ Selected(c) /\ pc[c] = "act" => key[c] = fd[c]

OneHolder == \A c, e \in Calls : key[c] = key[e] /\ key[c] # None => c = e

Tables == /\ path = [c \in Calls |-> path[c]] /\ top = [c \in Calls |-> top[c]]
          /\ rest = [c \in Calls |-> rest[c]]

IInv == /\ TypeOK /\ Tables /\ OneHolder
        /\ \A c \in Calls : (Selected(c) => Knows(c)) /\ Locks(c)

-----------------------------------------------------------------------------
(* A directory lies beneath itself. *)
LEMMA BeneathItself ==
  ASSUME NEW t, NEW d \in Dirs
  PROVE  d \in Beneath(t, d)
BY DEF Beneath

LEMMA BeneathAreDirs ==
  ASSUME NEW t, NEW d
  PROVE  Beneath(t, d) \subseteq Dirs
BY DEF Beneath

LEMMA ReachesADirectory ==
  ASSUME NEW t, NEW p
  PROVE  Reach(t, p) \in Dirs \cup {None}
BY Zenon DEF Reach

LEMMA InitIInv ==
  ASSUME Init
  PROVE  IInv
<1>. USE DEF Init, InitOf
<1>1. TypeOK
  BY ConstantsAreSane DEF TypeOK, Steps
<1>2. Tables /\ OneHolder
  BY DEF Tables, OneHolder
<1>3. ASSUME NEW c \in Calls PROVE (Selected(c) => Knows(c)) /\ Locks(c)
  BY DEF Selected, Knows, Locks, Looked, Proven
<1>. QED  BY <1>1, <1>2, <1>3 DEF IInv

-----------------------------------------------------------------------------
(* A step of one call leaves what the others know, hold and lock. *)
Alone(c) ==
  /\ UNCHANGED <<tree, moves, sel>>
  /\ \A e \in Calls \ {c} : /\ pc'[e] = pc[e] /\ path'[e] = path[e] /\ fd'[e] = fd[e] /\ key'[e] = key[e]
                            /\ named'[e] = named[e] /\ within'[e] = within[e]

LEMMA OneCallKeeps ==
  ASSUME IInv, NEW c \in Calls, Alone(c), TypeOK', Tables', OneHolder',
         Selected(c) => Knows(c)', Locks(c)'
  PROVE  IInv'
<1>1. ASSUME NEW e \in Calls, e # c PROVE (Selected(e) => Knows(e))' /\ Locks(e)'
  BY <1>1 DEF IInv, Alone, Selected, Knows, Locks
<1>2. Selected(c)' = Selected(c)
  BY DEF Alone, Selected
<1>. QED  BY <1>1, <1>2 DEF IInv

(* A call that is refused, or ends, holds nothing. *)
LEMMA RefuseKeeps ==
  ASSUME IInv, NEW c \in Calls, Refuse(c), UNCHANGED <<tree, moves>>, pc[c] # "act"
  PROVE  IInv'
<1>. USE DEF Refuse, Go
<1>1. pc'[c] = "refused" /\ key'[c] = None
  BY DEF IInv, TypeOK, Locks
<1>2. Alone(c)
  BY DEF IInv, TypeOK, Alone
<1>3. TypeOK' /\ Tables' /\ OneHolder'
  BY DEF IInv, TypeOK, Tables, OneHolder, Steps
<1>4. Knows(c)' /\ Locks(c)'
  BY <1>1 DEF Knows, Locks, Looked, Proven
<1>. QED  BY <1>2, <1>3, <1>4, OneCallKeeps

(* A call that takes hold of a directory knows that it lies beneath itself. *)
LEMMA HoldingHolds ==
  ASSUME IInv, NEW c \in Calls, NEW d \in Dirs, Holding(c, d)
  PROVE  /\ fd' \in [Calls -> Dirs \cup {None}] /\ within' \in [Calls -> SUBSET Dirs]
         /\ fd'[c] = d /\ d \in within'[c]
         /\ \A e \in Calls \ {c} : fd'[e] = fd[e] /\ within'[e] = within[e]
<1>1. Beneath(tree, d) \subseteq Dirs /\ d \in Beneath(tree, d)
  BY BeneathItself, BeneathAreDirs
<1>. QED  BY <1>1 DEF IInv, TypeOK, Holding

(* What a path that was just computed names is all that it named. *)
LEMMA ComputesNames ==
  ASSUME IInv, NEW c \in Calls, NEW p, Computes(c, p), UNCHANGED tree
  PROVE  /\ named' \in [Calls -> SUBSET (Dirs \cup {None})]
         /\ path' = [e \in Calls |-> path'[e]]
         /\ Reach(tree', path'[c]) \in named'[c]
         /\ \A e \in Calls \ {c} : path'[e] = path[e] /\ named'[e] = named[e]
<1>1. path'[c] = p /\ named'[c] = {Reach(tree, p)} /\ Reach(tree, p) \in Dirs \cup {None}
  BY ReachesADirectory DEF IInv, TypeOK, Tables, Computes
<1>2. Reach(tree', path'[c]) = Reach(tree, p)
  BY <1>1
<1>. QED  BY <1>1, <1>2 DEF IInv, TypeOK, Tables, Computes

-----------------------------------------------------------------------------
(* One lemma per step of a call; all but the last may refuse. *)
LEMMA BoundaryKeeps ==
  ASSUME IInv, NEW c \in Calls, Boundary(c), UNCHANGED <<tree, moves>>
  PROVE  IInv'
<1>1. CASE Refuse(c)
  BY <1>1, RefuseKeeps DEF Boundary
<1>2. CASE ~Refuse(c)
  <2>1. /\ Computes(c, Canonical(tree, Workspace)) /\ Go(c, "open") /\ pc[c] = "boundary"
        /\ UNCHANGED <<sel, top, fd, rest, key, within>>
    BY <1>2 DEF Boundary
  <2>2. Alone(c)
    BY <2>1, ComputesNames DEF IInv, TypeOK, Alone, Go
  <2>3. TypeOK' /\ Tables' /\ OneHolder'
    BY <2>1, ComputesNames DEF IInv, TypeOK, Tables, OneHolder, Steps, Go
  <2>4. Knows(c)' /\ Locks(c)'
    BY <2>1 DEF IInv, TypeOK, Knows, Locks, Looked, Proven, Go
  <2>. QED  BY <2>2, <2>3, <2>4, OneCallKeeps
<1>. QED  BY <1>1, <1>2
LEMMA OpenWorkspaceKeeps ==
  ASSUME IInv, NEW c \in Calls, OpenWorkspace(c), UNCHANGED <<tree, moves>>
  PROVE  IInv'
<1>. DEFINE found == Entry(Reach(tree, Front(path[c])), Last(path[c]))
<1>1. CASE Refuse(c)
  BY <1>1, RefuseKeeps DEF OpenWorkspace
<1>2. CASE ~Refuse(c)
  <2>1. /\ Holding(c, found) /\ found \in Dirs /\ Go(c, "walk") /\ pc[c] = "open"
        /\ rest' = [rest EXCEPT ![c] = sel[c]] /\ UNCHANGED <<sel, path, top, key, named>>
    BY <1>2 DEF OpenWorkspace
  <2>. HIDE DEF found
  <2>2. Alone(c)
    BY <2>1, HoldingHolds DEF IInv, TypeOK, Alone, Go
  <2>3. TypeOK' /\ Tables' /\ OneHolder'
    BY <2>1, HoldingHolds DEF IInv, TypeOK, Tables, OneHolder, Steps, Go
  <2>4. Knows(c)' /\ Locks(c)'
    BY <2>1, HoldingHolds DEF IInv, TypeOK, Knows, Locks, Looked, Proven, Go
  <2>. QED  BY <2>2, <2>3, <2>4, OneCallKeeps
<1>. QED  BY <1>1, <1>2
LEMMA WalkKeeps ==
  ASSUME IInv, NEW c \in Calls, Walk(c), UNCHANGED <<tree, moves>>
  PROVE  IInv'
<1>. DEFINE found == Entry(fd[c], Head(rest[c]))
<1>1. CASE Refuse(c)
  BY <1>1, RefuseKeeps DEF Walk
<1>2. CASE ~Refuse(c)
  <2>1. /\ Holding(c, found) /\ found \in Dirs /\ pc[c] = "walk" /\ (Go(c, "resolve") \/ Go(c, "walk"))
        /\ rest' = [rest EXCEPT ![c] = Tail(@)] /\ UNCHANGED <<sel, path, top, key, named>>
    BY <1>2 DEF Walk
  <2>. HIDE DEF found
  <2>2. Alone(c)
    BY <2>1, HoldingHolds DEF IInv, TypeOK, Alone, Go
  <2>3. TypeOK' /\ Tables' /\ OneHolder'
    BY <2>1, HoldingHolds DEF IInv, TypeOK, Tables, OneHolder, Steps, Go
  <2>4. Knows(c)' /\ Locks(c)'
    BY <2>1, HoldingHolds DEF IInv, TypeOK, Knows, Locks, Looked, Proven, Go
  <2>. QED  BY <2>2, <2>3, <2>4, OneCallKeeps
<1>. QED  BY <1>1, <1>2
LEMMA ResolveKeeps ==
  ASSUME IInv, NEW c \in Calls, Resolve(c), UNCHANGED <<tree, moves>>
  PROVE  IInv'
<1>1. CASE Refuse(c)
  BY <1>1, RefuseKeeps DEF Resolve
<1>2. CASE ~Refuse(c)
  <2>1. /\ Computes(c, Canonical(tree, path[c] \o sel[c])) /\ Go(c, "root") /\ pc[c] = "resolve"
        /\ UNCHANGED <<sel, top, fd, rest, key, within>>
    BY <1>2 DEF Resolve
  <2>2. Alone(c)
    BY <2>1, ComputesNames DEF IInv, TypeOK, Alone, Go
  <2>3. TypeOK' /\ Tables' /\ OneHolder'
    BY <2>1, ComputesNames DEF IInv, TypeOK, Tables, OneHolder, Steps, Go
  <2>4. Selected(c) => Knows(c)'
    BY <2>1, ComputesNames DEF IInv, TypeOK, Knows, Looked, Proven, Go
  <2>5. Locks(c)'
    BY <2>1 DEF IInv, TypeOK, Locks, Go
  <2>. QED  BY <2>2, <2>3, <2>4, <2>5, OneCallKeeps
<1>. QED  BY <1>1, <1>2
LEMMA WorktreeRootKeeps ==
  ASSUME IInv, NEW c \in Calls, WorktreeRoot(c), UNCHANGED <<tree, moves>>
  PROVE  IInv'
<1>1. CASE Refuse(c)
  BY <1>1, RefuseKeeps DEF WorktreeRoot
<1>2. CASE ~Refuse(c)
  <2>1. /\ Computes(c, Canonical(tree, path[c])) /\ Go(c, "toplevel") /\ pc[c] = "root"
        /\ UNCHANGED <<sel, top, fd, rest, key, within>>
    BY <1>2 DEF WorktreeRoot
  <2>2. Alone(c)
    BY <2>1, ComputesNames DEF IInv, TypeOK, Alone, Go
  <2>3. TypeOK' /\ Tables' /\ OneHolder'
    BY <2>1, ComputesNames DEF IInv, TypeOK, Tables, OneHolder, Steps, Go
  <2>4. Selected(c) => Knows(c)'
    BY <2>1, ComputesNames DEF IInv, TypeOK, Knows, Looked, Proven, Go
  <2>5. Locks(c)'
    BY <2>1 DEF IInv, TypeOK, Locks, Go
  <2>. QED  BY <2>2, <2>3, <2>4, <2>5, OneCallKeeps
<1>. QED  BY <1>1, <1>2
LEMMA ShowToplevelKeeps ==
  ASSUME IInv, NEW c \in Calls, ShowToplevel(c), UNCHANGED <<tree, moves>>
  PROVE  IInv'
<1>1. CASE Refuse(c)
  BY <1>1, RefuseKeeps DEF ShowToplevel
<1>2. CASE ~Refuse(c)
  <2>1. /\ Go(c, "compare") /\ pc[c] = "toplevel" /\ top' = [top EXCEPT ![c] = PathOf(tree, Toplevel(tree, fd[c]))]
        /\ UNCHANGED <<sel, path, fd, rest, key, named, within>>
    BY <1>2 DEF ShowToplevel
  <2>2. Alone(c)
    BY <2>1 DEF IInv, TypeOK, Alone, Go
  <2>3. TypeOK' /\ Tables' /\ OneHolder'
    BY <2>1 DEF IInv, TypeOK, Tables, OneHolder, Steps, Go
  <2>4. Selected(c) => Knows(c)'
    BY <2>1 DEF IInv, TypeOK, Knows, Looked, Proven, Go
  <2>5. Locks(c)'
    BY <2>1 DEF IInv, TypeOK, Locks, Go
  <2>. QED  BY <2>2, <2>3, <2>4, <2>5, OneCallKeeps
<1>. QED  BY <1>1, <1>2
LEMMA CompareKeeps ==
  ASSUME IInv, NEW c \in Calls, Compare(c), UNCHANGED <<tree, moves>>
  PROVE  IInv'
<1>1. CASE Refuse(c)
  BY <1>1, RefuseKeeps DEF Compare
<1>2. CASE ~Refuse(c)
  <2>1. /\ Go(c, "prove") /\ pc[c] = "compare" /\ top' = top
        /\ UNCHANGED <<sel, path, fd, rest, key, named, within>>
    BY <1>2 DEF Compare
  <2>2. Alone(c)
    BY <2>1 DEF IInv, TypeOK, Alone, Go
  <2>3. TypeOK' /\ Tables' /\ OneHolder'
    BY <2>1 DEF IInv, TypeOK, Tables, OneHolder, Steps, Go
  <2>4. Selected(c) => Knows(c)'
    BY <2>1 DEF IInv, TypeOK, Knows, Looked, Proven, Go
  <2>5. Locks(c)'
    BY <2>1 DEF IInv, TypeOK, Locks, Go
  <2>. QED  BY <2>2, <2>3, <2>4, <2>5, OneCallKeeps
<1>. QED  BY <1>1, <1>2

(* The comparison is what makes the directory one that the path named. *)
LEMMA RevalidateKeeps ==
  ASSUME IInv, NEW c \in Calls, Revalidate(c), UNCHANGED <<tree, moves>>
  PROVE  IInv'
<1>1. CASE Refuse(c)
  BY <1>1, RefuseKeeps DEF Revalidate
<1>2. CASE ~Refuse(c)
  <2>1. /\ Reach(tree, path[c]) = fd[c] /\ UNCHANGED <<sel, path, top, fd, rest, key, named, within>>
        /\ \/ pc[c] = "prove" /\ Go(c, "reprove")
           \/ pc[c] = "reprove" /\ Go(c, "lock")
    BY <1>2 DEF Revalidate, StillNames
  <2>2. Alone(c)
    BY <2>1 DEF IInv, TypeOK, Alone, Go
  <2>3. TypeOK' /\ Tables' /\ OneHolder'
    BY <2>1 DEF IInv, TypeOK, Tables, OneHolder, Steps, Go
  <2>4. Selected(c) => Knows(c)'
    BY <2>1 DEF IInv, TypeOK, Knows, Looked, Proven, Go
  <2>5. Locks(c)'
    BY <2>1 DEF IInv, TypeOK, Locks, Go
  <2>. QED  BY <2>2, <2>3, <2>4, <2>5, OneCallKeeps
<1>. QED  BY <1>1, <1>2
LEMMA LockKeeps ==
  ASSUME IInv, NEW c \in Calls, Lock(c), UNCHANGED <<tree, moves>>
  PROVE  IInv'
<1>1. CASE Refuse(c)
  BY <1>1, RefuseKeeps DEF Lock
<1>2. CASE ~Refuse(c)
  <2>1. /\ key' = [key EXCEPT ![c] = Identity(c)] /\ Go(c, "act") /\ pc[c] = "lock"
        /\ Identity(c) # None /\ \A e \in Calls : key[e] # Identity(c)
        /\ UNCHANGED <<sel, path, top, fd, rest, named, within>>
    BY <1>2 DEF Lock, Held
  <2>2. Identity(c) \in Dirs
    BY <2>1 DEF Identity, ByName, IInv, TypeOK
  <2>3. Selected(c) => Identity(c) = fd[c]
    BY DEF Identity
  <2>. HIDE DEF Identity
  <2>4. Alone(c)
    BY <2>1 DEF IInv, TypeOK, Alone, Go
  <2>5. TypeOK' /\ Tables'
    BY <2>1, <2>2 DEF IInv, TypeOK, Tables, Steps, Go
  <2>6. OneHolder'
    BY <2>1 DEF IInv, TypeOK, OneHolder
  <2>7. Selected(c) => Knows(c)'
    BY <2>1 DEF IInv, TypeOK, Knows, Looked, Proven, Go
  <2>8. Locks(c)'
    BY <2>1, <2>3 DEF IInv, TypeOK, Locks, Go, Selected
  <2>. QED  BY <2>4, <2>5, <2>6, <2>7, <2>8, OneCallKeeps
<1>. QED  BY <1>1, <1>2
LEMMA FinishKeeps ==
  ASSUME IInv, NEW c \in Calls, Finish(c), UNCHANGED <<tree, moves>>
  PROVE  IInv'
<1>1. /\ key' = [key EXCEPT ![c] = None] /\ Go(c, "done")
      /\ UNCHANGED <<sel, path, top, fd, rest, named, within>>
  BY DEF Finish
<1>2. Alone(c)
  BY <1>1 DEF IInv, TypeOK, Alone, Go
<1>3. TypeOK' /\ Tables' /\ OneHolder'
  BY <1>1 DEF IInv, TypeOK, Tables, OneHolder, Steps, Go
<1>4. Knows(c)' /\ Locks(c)'
  BY <1>1 DEF IInv, TypeOK, Knows, Locks, Looked, Proven, Go
<1>. QED  BY <1>2, <1>3, <1>4, OneCallKeeps
-----------------------------------------------------------------------------
(* Others move a directory or a link: whoever holds a directory notes what his path names now. *)
LEMMA MoveKeeps ==
  ASSUME IInv, NEW d \in Dirs, NEW e \in Dirs, NEW n \in Names, NEW m \in Names,
         Move(d, n, e, m)
  PROVE  IInv'
<1>1. /\ tree' = [tree EXCEPT ![d][n] = None, ![e][m] = tree[d][n]] /\ moves' = moves + 1 /\ moves < MaxMoves
      /\ UNCHANGED <<pc, sel, path, top, fd, rest, key>>
  BY DEF Move
<1>2. /\ named' = [c \in Calls |-> IF path[c] = Workspace /\ fd[c] = None THEN named[c]
                                   ELSE named[c] \cup {Reach(tree', path[c])}]
      /\ within' = [c \in Calls |-> IF fd[c] = None THEN within[c]
                                    ELSE within[c] \cup Beneath(tree', fd[c])]
  BY DEF Move
<1>3. tree' \in [Dirs -> [Names -> Entries]]
  <2>1. tree[d][n] \in Entries /\ None \in Entries
    BY DEF IInv, TypeOK, Entries
  <2>. QED  BY <1>1, <2>1 DEF IInv, TypeOK
<1>4. moves' \in 0..MaxMoves
  BY <1>1, ConstantsAreSane DEF IInv, TypeOK
<1>5. /\ named' \in [Calls -> SUBSET (Dirs \cup {None})]
      /\ within' \in [Calls -> SUBSET Dirs]
  BY <1>2, ReachesADirectory, BeneathAreDirs DEF IInv, TypeOK
<1>6. TypeOK' /\ Tables' /\ OneHolder'
  BY <1>1, <1>3, <1>4, <1>5 DEF IInv, TypeOK, Tables, OneHolder
<1>7. ASSUME NEW c \in Calls PROVE (Selected(c) => Knows(c))' /\ Locks(c)'
  <2>1. Locks(c)'
    BY <1>1 DEF IInv, Locks, Selected
  <2>2. /\ named[c] \subseteq named'[c] /\ within[c] \subseteq within'[c]
        /\ fd[c] \in Dirs => Reach(tree', path[c]) \in named'[c]
    BY <1>2, ConstantsAreSane
  <2>3. Selected(c) => Knows(c)'
    BY <1>1, <2>2 DEF IInv, Knows, Looked, Proven
  <2>. QED  BY <1>1, <2>1, <2>3 DEF Selected
<1>. QED  BY <1>6, <1>7 DEF IInv

-----------------------------------------------------------------------------
LEMMA StepKeepsIInv ==
  ASSUME IInv, [Next]_vars
  PROVE  IInv'
<1>1. ASSUME NEW c \in Calls, Step(c), UNCHANGED <<tree, moves>> PROVE IInv'
  BY <1>1, BoundaryKeeps, OpenWorkspaceKeeps, WalkKeeps, ResolveKeeps, WorktreeRootKeeps,
     ShowToplevelKeeps,
     CompareKeeps, RevalidateKeeps, LockKeeps, FinishKeeps DEF Step
<1>2. ASSUME NEW d \in Dirs, NEW e \in Dirs, NEW n \in Names, NEW m \in Names, Move(d, n, e, m) PROVE IInv'
  BY <1>2, MoveKeeps
<1>3. CASE UNCHANGED vars
  BY <1>3 DEF vars, IInv, TypeOK, Tables, OneHolder, Knows, Locks, Selected
<1>. QED  BY <1>1, <1>2, <1>3 DEF Next

(* The invariant of the selections and their locks holds in every reachable state. *)
THEOREM Invariance == Spec => []IInv
<1>1. Init => IInv
  BY InitIInv
<1>2. IInv /\ [Next]_vars => IInv'
  BY StepKeepsIInv
<1>. QED  BY <1>1, <1>2, PTL DEF Spec

(* Whatever others move and link, a selected call acts on a directory that lay beneath the     *)
(* workspace it opened, or beneath one it held on the way, and that its path named.            *)
THEOREM Selection == Spec => []SelectsWhatItNames
<1>1. IInv => SelectsWhatItNames
  BY DEF IInv, Knows, Looked, Proven, SelectsWhatItNames, Acting, Target
<1>. QED  BY <1>1, Invariance, PTL

(* No two selected calls act on one directory, under whatever names they reached it. *)
THEOREM OneWriter == Spec => []OneWriterPerRepository
<1>1. IInv => OneWriterPerRepository
  BY ConstantsAreSane DEF IInv, OneHolder, Locks, Knows, Looked, OneWriterPerRepository, Acting, Target
<1>. QED  BY <1>1, Invariance, PTL

-----------------------------------------------------------------------------
(* The parts share no variable, so a step of the whole is a step of its part, or leaves it alone. *)
LEMMA EachPartAlone ==
  ASSUME [MCNext]_everything
  PROVE  /\ part' = part
         /\ part = "docker" => Docker!Next \/ UNCHANGED jobs
         /\ part = "paths" => Rooted!Next \/ UNCHANGED walks
         /\ part = "script" => Script!Next \/ UNCHANGED scripts
         /\ part = "desktop" => Desktop!Next \/ UNCHANGED settings
         /\ part = "bracket" => Bracket!Next \/ UNCHANGED brackets
         /\ part = "fixture" => Fixture!Next \/ UNCHANGED fixtures
<1>1. CASE MCNext
  BY <1>1 DEF MCNext
<1>2. CASE UNCHANGED everything
  <2>1. UNCHANGED <<part, jobs, walks, scripts, settings, brackets, fixtures>>
    BY <1>2 DEF everything
  <2>. QED  BY <2>1
<1>. QED  BY <1>1, <1>2

-----------------------------------------------------------------------------
(* The admission of scripts.                                               *)

(* The manifest of this moment is among those there were during the call, and so is what the *)
(* file the call opened contains, though it may have lost its name.                          *)
ManifestIsKnown == stage # "begin" => Script!Manifest \in since
OpenedIsKnown == stage \in {"length", "read"} => opened \in Inodes /\ holds[opened] \in since

(* A script on its way to the start was declared. *)
DeclaredIsKnown ==
  stage = "timeout" /\ request.program = "bash" =>
    \E m \in since \ {None} : m.whole /\ request.script \in m.scripts

ScriptInv == /\ Script!TypeOK /\ Script!IsRequest(request) /\ (stage # "end" => outcome = None)
             /\ ManifestIsKnown /\ OpenedIsKnown /\ DeclaredIsKnown /\ Script!JudgedByTheManifest

LEMMA ManifestConstants == /\ None \notin Inodes /\ MaxEdits \in Nat /\ None \notin Script!Contents
                /\ None \notin {"running", "not_allowlisted", "refused"}
BY PartsAreSane DEF Script!ConstantsAreSane, Script!Contents

LEMMA ScriptStarts ==
  ASSUME Script!Init
  PROVE  ScriptInv
BY ManifestConstants DEF Script!Init, Script!InitOf, ScriptInv, Script!TypeOK, ManifestIsKnown,
   OpenedIsKnown, DeclaredIsKnown,
   Script!JudgedByTheManifest

LEMMA ManifestType ==
  ASSUME ScriptInv
  PROVE  Script!Manifest \in Script!Contents \cup {None}
BY DEF ScriptInv, Script!TypeOK, Script!Manifest

LEMMA BeginsKeep ==
  ASSUME ScriptInv, Script!Begin, UNCHANGED <<bearer, holds, edits, request>>
  PROVE  ScriptInv'
BY ManifestType, ManifestConstants
DEF ScriptInv, Script!Begin, Script!End, Script!Go, Script!TypeOK, Script!Manifest, ManifestIsKnown, OpenedIsKnown,
    DeclaredIsKnown, Script!JudgedByTheManifest, Script!IsRequest

LEMMA ValidateKeeps ==
  ASSUME ScriptInv, Script!Validate, UNCHANGED <<bearer, holds, edits, request>>
  PROVE  ScriptInv'
BY ManifestConstants
DEF ScriptInv, Script!Validate, Script!End, Script!Go, Script!TypeOK, Script!Manifest, ManifestIsKnown, OpenedIsKnown,
    DeclaredIsKnown, Script!JudgedByTheManifest, Script!IsRequest

LEMMA ExistsKeeps ==
  ASSUME ScriptInv, Script!Exists, UNCHANGED <<bearer, holds, edits, request>>
  PROVE  ScriptInv'
BY ManifestConstants
DEF ScriptInv, Script!Exists, Script!End, Script!Go, Script!TypeOK, Script!Manifest, ManifestIsKnown, OpenedIsKnown,
    DeclaredIsKnown, Script!JudgedByTheManifest, Script!IsRequest

LEMMA OpenKeeps ==
  ASSUME ScriptInv, Script!Open, UNCHANGED <<bearer, holds, edits, request>>
  PROVE  ScriptInv'
BY ManifestConstants
DEF ScriptInv, Script!Open, Script!End, Script!Go, Script!TypeOK, Script!Manifest, ManifestIsKnown, OpenedIsKnown,
    DeclaredIsKnown, Script!JudgedByTheManifest, Script!IsRequest

LEMMA LengthKeeps ==
  ASSUME ScriptInv, Script!Length, UNCHANGED <<bearer, holds, edits, request>>
  PROVE  ScriptInv'
BY ManifestConstants
DEF ScriptInv, Script!Length, Script!End, Script!Go, Script!TypeOK, Script!Manifest, ManifestIsKnown, OpenedIsKnown,
    DeclaredIsKnown, Script!JudgedByTheManifest, Script!IsRequest

LEMMA ReadKeeps ==
  ASSUME ScriptInv, Script!Read, UNCHANGED <<bearer, holds, edits, request>>
  PROVE  ScriptInv'
BY ManifestConstants
DEF ScriptInv, Script!Read, Script!End, Script!Go, Script!TypeOK, Script!Manifest, ManifestIsKnown, OpenedIsKnown,
    DeclaredIsKnown, Script!JudgedByTheManifest, Script!IsRequest, Script!Broken

LEMMA StartKeeps ==
  ASSUME ScriptInv, Script!Start, UNCHANGED <<bearer, holds, edits, request>>
  PROVE  ScriptInv'
<1>. USE DEF ScriptInv
<1>1. PICK o \in {"running", "refused"} : (o = "running" => Script!Allowed) /\ Script!End(o)
  BY DEF Script!Start
<1>2. stage = "timeout" /\ stage' = "end" /\ outcome' = o /\ UNCHANGED <<opened, since, bearer, holds, edits, request>>
  BY <1>1 DEF Script!Start, Script!End
<1>3. request.limit \in {600, 3600} /\ request.secs \in {0, 600, 3600}
  BY DEF Script!TypeOK, Script!Requests
<1>4. o = "running" /\ request.secs > 600 => request.limit = 3600
  BY <1>1, <1>3 DEF Script!Allowed
<1>7. request.limit = 3600 => request.owned
  BY DEF Script!IsRequest
<1>5. Script!TypeOK' /\ ManifestIsKnown' /\ OpenedIsKnown' /\ DeclaredIsKnown' /\ Script!IsRequest(request)'
  BY <1>2 DEF Script!TypeOK, Script!Manifest, ManifestIsKnown, OpenedIsKnown, DeclaredIsKnown,
     Script!IsRequest
<1>6. Script!JudgedByTheManifest'
  BY <1>2, <1>4, <1>7 DEF Script!JudgedByTheManifest, DeclaredIsKnown
<1>. QED  BY <1>2, <1>5, <1>6

(* Whatever the owner writes, during a call it is among the manifests there were. *)
LEMMA EditedKeeps ==
  ASSUME ScriptInv, NEW i \in Inodes \cup {None}, NEW h \in [Inodes -> Script!Contents], Script!Edited(i, h),
         opened \in Inodes => h[opened] = holds[opened] \/ opened = i
  PROVE  ScriptInv'
<1>1. stage # "begin" => since' = since \cup {IF i = None THEN None ELSE h[i]}
  BY DEF Script!Edited
<1>2. since \subseteq since' \/ stage = "begin"
  BY <1>1
<1>3. Script!TypeOK'
  BY ManifestConstants DEF ScriptInv, Script!TypeOK, Script!Edited
<1>4. ManifestIsKnown'
  BY <1>1 DEF Script!Edited, ManifestIsKnown, Script!Manifest
<1>5. OpenedIsKnown'
  BY <1>1, ManifestConstants DEF Script!Edited, OpenedIsKnown, ScriptInv
<1>6. DeclaredIsKnown' /\ Script!JudgedByTheManifest' /\ Script!IsRequest(request)' /\ (stage' # "end" => outcome' = None)
  BY <1>2, ManifestConstants DEF Script!Edited, DeclaredIsKnown, Script!JudgedByTheManifest, ScriptInv,
     Script!IsRequest
<1>. QED  BY <1>3, <1>4, <1>5, <1>6 DEF ScriptInv

LEMMA ScriptSteps ==
  ASSUME ScriptInv, Script!Next
  PROVE  ScriptInv'
<1>0. bearer \in Inodes \cup {None} /\ holds \in [Inodes -> Script!Contents]
  BY DEF ScriptInv, Script!TypeOK
<1>1. CASE Script!Call /\ UNCHANGED <<bearer, holds, edits, request>>
  BY <1>1, BeginsKeep, ValidateKeeps, ExistsKeeps, OpenKeeps, LengthKeeps, ReadKeeps, StartKeeps
  DEF Script!Call
<1>2. CASE \E c \in Script!Contents : Script!Write(c)
  BY <1>0, <1>2, EditedKeeps DEF Script!Write
<1>3. CASE \E c \in Script!Contents, i \in Inodes : Script!Replace(i, c)
  BY <1>0, <1>3, EditedKeeps DEF Script!Replace
<1>4. CASE Script!Remove
  BY <1>0, <1>4, EditedKeeps DEF Script!Remove
<1>. QED  BY <1>1, <1>2, <1>3, <1>4 DEF Script!Next, Script!NextOf

LEMMA ScriptStays ==
  ASSUME ScriptInv, UNCHANGED scripts
  PROVE  ScriptInv'
BY DEF ScriptInv, scripts, Script!TypeOK, Script!Manifest, ManifestIsKnown, OpenedIsKnown,
   DeclaredIsKnown,
   Script!JudgedByTheManifest, Script!IsRequest

ScriptsInv == part = "script" => ScriptInv

LEMMA ScriptsStep == ScriptsInv /\ [MCNext]_everything => ScriptsInv'
<1>. SUFFICES ASSUME ScriptsInv, [MCNext]_everything, part' = "script" PROVE ScriptInv'
  BY DEF ScriptsInv
<1>1. part = "script" /\ ScriptInv
  BY EachPartAlone DEF ScriptsInv
<1>2. Script!Next \/ UNCHANGED scripts
  BY <1>1, EachPartAlone
<1>. QED  BY <1>1, <1>2, ScriptSteps, ScriptStays

(* However its owner edits the manifest meanwhile, a script off the fixed list runs only if one *)
(* whole manifest declared it during the call, and is refused as unlisted only if there was     *)
(* none or a whole one without it (is_repo_declared_shell_script, guarded_command.rs).          *)
THEOREM ScriptsAreJudged == MCSpec => []JudgedByTheManifest
<1>1. MCInit => ScriptsInv
  BY ScriptStarts DEF MCInit, ScriptsInv
<1>2. ScriptsInv => JudgedByTheManifest
  BY DEF ScriptsInv, ScriptInv, JudgedByTheManifest
<1>. QED  BY <1>1, <1>2, ScriptsStep, PTL DEF MCSpec

-----------------------------------------------------------------------------
(* The path walks.                                                         *)

Acts == {"stat", "confine", "hash", "remove", "chdir", "create", "list", "rmdir"}
Walks == [act : Acts, path : Seq(Labels) \ {<<>>}]

(* The plain types, and a walk that is on its way has a component left. *)
WalkTypes ==
  /\ entries \in [Folders -> [Labels -> Rooted!Entries]]
  /\ dir \in Folders \cup {None} /\ left \in Seq(Labels) /\ (dir # None => left # <<>>)
  /\ todo \in Seq(Walks) /\ made \in Seq(Folders)
  /\ beneath \subseteq Folders /\ touched \subseteq Folders
  /\ result \in {None, "ok", "refused"} /\ look \in {None, "missing", "directory"}

(* Whatever lies below what the call holds, or may open next, lay beneath the root. *)
RootIsBeneath == Rooted!Below(entries, {Rooted!RootOf(entries)}) \subseteq beneath
HeldIsBeneath == dir # None => dir \in touched /\ Rooted!Below(entries, {dir}) \subseteq beneath

(* A directory that is yet to be made holds nothing. *)
UnusedIsEmpty == \A d \in Rooted!Unused, n \in Labels : entries[d][n] = None

WalkInv == WalkTypes /\ RootIsBeneath /\ HeldIsBeneath /\ UnusedIsEmpty /\ Rooted!StaysBeneathRoot

LEMMA Places ==
  /\ Home \in Folders /\ Repo \in Folders /\ RootName \in Labels
  /\ Folders \cap Leaves = {} /\ Link \notin Folders /\ None \notin Folders /\ Link \notin Leaves /\ None \notin Leaves
  /\ Link # None /\ IsFiniteSet(Labels) /\ RelativePaths \subseteq Seq(Labels) \ {<<>>}
<1>1. Rooted!IsFiniteSet(Labels) <=> IsFiniteSet(Labels)
  BY Zenon DEF Rooted!IsFiniteSet, IsFiniteSet
<1>. QED  BY <1>1, PartsAreSane DEF Rooted!ConstantsAreSane

(* Below is the least set that holds the given directories and those in its members. *)
LEMMA BelowIsClosed ==
  ASSUME NEW t, NEW D
  PROVE  /\ Rooted!Below(t, D) \subseteq Folders /\ D \cap Folders \subseteq Rooted!Below(t, D)
         /\ Rooted!Closed(t, Rooted!Below(t, D))
BY DEF Rooted!Below, Rooted!Closed

LEMMA BelowIsLeast ==
  ASSUME NEW t, NEW D, NEW S, S \subseteq Folders, D \cap Folders \subseteq S, Rooted!Closed(t, S)
  PROVE  Rooted!Below(t, D) \subseteq S
BY DEF Rooted!Below

(* An entry lies below its directory, with all that lies below it. *)
LEMMA EntryIsBelow ==
  ASSUME NEW t, NEW d \in Folders, NEW n \in Labels, t[d][n] \in Folders
  PROVE  t[d][n] \in Rooted!Below(t, {d}) /\ Rooted!Below(t, {t[d][n]}) \subseteq Rooted!Below(t, {d})
<1>. DEFINE S == Rooted!Below(t, {d})
<1>1. S \subseteq Folders /\ d \in S /\ Rooted!Closed(t, S)
  BY BelowIsClosed
<1>. HIDE DEF S
<1>2. t[d][n] \in S
  BY <1>1 DEF Rooted!Closed
<1>3. Rooted!Below(t, {t[d][n]}) \subseteq S
  BY <1>1, <1>2, BelowIsLeast
<1>. QED  BY <1>2, <1>3 DEF S

(* Less lies below when entries go, and no more than the new directory when one is made. *)
LEMMA LessBelow ==
  ASSUME NEW t, NEW w, NEW D,
         \A e \in Folders, n \in Labels : w[e][n] \in Folders => w[e][n] = t[e][n]
  PROVE  Rooted!Below(w, D) \subseteq Rooted!Below(t, D)
<1>. DEFINE S == Rooted!Below(t, D)
<1>1. S \subseteq Folders /\ D \cap Folders \subseteq S /\ Rooted!Closed(t, S)
  BY BelowIsClosed
<1>. HIDE DEF S
<1>2. Rooted!Closed(w, S)
  BY <1>1 DEF Rooted!Closed
<1>3. Rooted!Below(w, D) \subseteq S
  BY <1>1, <1>2, BelowIsLeast
<1>. QED  BY <1>3 DEF S

LEMMA OneMoreBelow ==
  ASSUME NEW t, NEW w, NEW D, NEW d \in Folders, \A n \in Labels : t[d][n] = None,
         \A e \in Folders, n \in Labels : w[e][n] \in Folders => w[e][n] = t[e][n] \/ w[e][n] = d
  PROVE  Rooted!Below(w, D) \subseteq Rooted!Below(t, D) \cup {d}
<1>. DEFINE S == Rooted!Below(t, D)
<1>1. S \subseteq Folders /\ D \cap Folders \subseteq S /\ Rooted!Closed(t, S)
  BY BelowIsClosed
<1>. HIDE DEF S
<1>2. Rooted!Closed(w, S \cup {d})
  BY <1>1, Places DEF Rooted!Closed
<1>3. Rooted!Below(w, D) \subseteq S \cup {d}
  BY <1>1, <1>2, BelowIsLeast
<1>. QED  BY <1>3 DEF S

LEMMA FewerBelow ==
  ASSUME NEW t, NEW D, NEW E, D \subseteq E
  PROVE  Rooted!Below(t, D) \subseteq Rooted!Below(t, E)
BY BelowIsClosed, BelowIsLeast

-----------------------------------------------------------------------------
LEMMA WalkRefusalKeeps ==
  ASSUME WalkInv, Rooted!Refuse
  PROVE  WalkInv'
<1>. USE DEF WalkInv, Rooted!Refuse
<1>1. WalkTypes'
  BY DEF WalkTypes
<1>2. RootIsBeneath' /\ HeldIsBeneath' /\ Rooted!StaysBeneathRoot'
  BY DEF RootIsBeneath, HeldIsBeneath, Rooted!RootOf, Rooted!StaysBeneathRoot
<1>3. UnusedIsEmpty'
  BY DEF UnusedIsEmpty, Rooted!Unused, Rooted!Existing, Rooted!Linked
<1>. QED  BY <1>1, <1>2, <1>3

LEMMA ReachKeeps ==
  ASSUME WalkInv, NEW d \in Folders, NEW l \in Seq(Labels) \ {<<>>}, Rooted!Below(entries, {d}) \subseteq beneath,
         Rooted!Reach(d, l)
  PROVE  WalkInv'
<1>. USE DEF WalkInv, Rooted!Reach
<1>1. WalkTypes'
  BY DEF WalkTypes
<1>2. d \in beneath
  BY BelowIsClosed
<1>3. RootIsBeneath' /\ Rooted!StaysBeneathRoot'
  BY <1>2 DEF RootIsBeneath, Rooted!RootOf, Rooted!StaysBeneathRoot
<1>4. HeldIsBeneath'
  BY DEF HeldIsBeneath
<1>5. UnusedIsEmpty'
  BY DEF UnusedIsEmpty, Rooted!Unused, Rooted!Existing, Rooted!Linked
<1>. QED  BY <1>1, <1>3, <1>4, <1>5

(* The end of a walk, which may have removed an entry and touched what lay beneath the root. *)
LEMMA DoneKeeps ==
  ASSUME WalkInv, NEW next \in Seq(Walks), NEW t \in [Folders -> [Labels -> Rooted!Entries]], NEW D,
         D \subseteq beneath,
         \A e \in Folders, n \in Labels : t[e][n] \in Folders => t[e][n] = entries[e][n],
         \A e \in Folders \ (Rooted!Linked(t) \cup {Home} \cup touched), n \in Labels : t[e][n] = None,
         Rooted!Done(next, t, D)
  PROVE  WalkInv'
<1>. USE DEF WalkInv, Rooted!Done
<1>1. WalkTypes'
  BY DEF WalkTypes
<1>2. HeldIsBeneath' /\ Rooted!StaysBeneathRoot'
  BY DEF HeldIsBeneath, Rooted!StaysBeneathRoot
<1>3. UnusedIsEmpty'
  BY DEF UnusedIsEmpty, Rooted!Unused, Rooted!Existing, Rooted!Linked
<1>4. RootIsBeneath'
  <2>1. Rooted!RootOf(t)' = Rooted!RootOf(t)
    BY DEF Rooted!RootOf
  <2>2. CASE Rooted!RootOf(t) \notin Folders
    <3>1. Rooted!Closed(t, {}) /\ {} \subseteq Folders /\ {Rooted!RootOf(t)} \cap Folders \subseteq {}
      BY <2>2 DEF Rooted!Closed
    <3>2. Rooted!Below(t, {Rooted!RootOf(t)}) \subseteq {}
      BY <3>1, BelowIsLeast
    <3>. QED  BY <2>1, <3>2 DEF RootIsBeneath
  <2>3. CASE Rooted!RootOf(t) \in Folders
    <3>1. Rooted!RootOf(t) = Rooted!RootOf(entries)
      BY <2>3, Places DEF Rooted!RootOf
    <3>2. Rooted!Below(t, {Rooted!RootOf(t)}) \subseteq Rooted!Below(entries, {Rooted!RootOf(t)})
      BY LessBelow
    <3>. QED  BY <2>1, <3>1, <3>2 DEF RootIsBeneath
  <2>. QED  BY <2>2, <2>3
<1>. QED  BY <1>1, <1>2, <1>3, <1>4

LEMMA LongerThanOne ==
  ASSUME NEW S, NEW q \in Seq(S), q # <<>>, Len(q) # 1
  PROVE  Tail(q) # <<>>
<1>1. Len(Tail(q)) = Len(q) - 1 /\ Len(q) \in Nat
  BY HeadTailProperties
<1>2. Len(Tail(q)) # 0
  BY <1>1
<1>3. Len(<<>>) = 0
  OBVIOUS
<1>. QED  BY <1>2, <1>3, Zenon

(* What an action finds at the component it has come to. *)
LEMMA AtComponent ==
  ASSUME WalkInv, dir # None
  PROVE  /\ dir \in Folders /\ Head(left) \in Labels /\ left[1] \in Labels /\ Head(left) = left[1]
         /\ Rooted!Leaf = entries[dir][left[1]] /\ Rooted!Leaf \in Folders \cup Leaves \cup {Link, None}
         /\ Tail(left) \in Seq(Labels) /\ (Len(left) # 1 => Tail(left) # <<>>)
<1>1. dir \in Folders /\ left \in Seq(Labels) /\ left # <<>>
  BY DEF WalkInv, WalkTypes
<1>2. Rooted!Leaf = entries[dir][left[1]]
  BY <1>1 DEF Rooted!Leaf, Rooted!Entry
<1>3. Rooted!Leaf \in Folders \cup Leaves \cup {Link, None}
  <2>1. left[1] \in Labels
    BY <1>1, HeadTailProperties
  <2>. QED  BY <1>1, <1>2, <2>1 DEF WalkInv, WalkTypes, Rooted!Entries
<1>4. /\ Head(left) \in Labels /\ Head(left) = left[1] /\ Tail(left) \in Seq(Labels)
      /\ Len(Tail(left)) = Len(left) - 1 /\ Len(left) \in Nat
  BY <1>1, HeadTailProperties
<1>5. Len(left) # 1 => Tail(left) # <<>>
  BY <1>1, LongerThanOne
<1>. QED  BY <1>1, <1>2, <1>3, <1>4, <1>5

(* A directory at that component lies beneath the root, with all that lies below it. *)
LEMMA OpenedIsBeneath ==
  ASSUME WalkInv, dir # None, NEW d, d = Rooted!Opens(dir, left[1]), d # None
  PROVE  /\ d \in Folders /\ d = Rooted!Leaf /\ d \in beneath /\ Rooted!Below(entries, {d}) \subseteq beneath
<1>1. entries[dir][left[1]] \in Folders /\ entries[dir][left[1]] = d
  BY DEF Rooted!Opens
<1>2. dir \in Folders /\ left[1] \in Labels /\ Rooted!Leaf = d
  BY <1>1, AtComponent
<1>3. d \in Rooted!Below(entries, {dir}) /\ Rooted!Below(entries, {d}) \subseteq Rooted!Below(entries, {dir})
  <2>1. \A t, e, n : e \in Folders /\ n \in Labels /\ t[e][n] \in Folders
          => t[e][n] \in Rooted!Below(t, {e}) /\ Rooted!Below(t, {t[e][n]}) \subseteq Rooted!Below(t, {e})
    BY EntryIsBelow
  <2>. QED  BY <1>1, <1>2, <2>1
<1>. QED  BY <1>1, <1>2, <1>3 DEF WalkInv, HeldIsBeneath

(* Nothing is removed: the next walk begins, or the call ends. *)
LEMMA DoneUnchangedKeeps ==
  ASSUME WalkInv, NEW next \in Seq(Walks), NEW D, D \subseteq beneath, Rooted!Done(next, entries, D)
  PROVE  WalkInv'
<1>1. entries \in [Folders -> [Labels -> Rooted!Entries]]
  BY DEF WalkInv, WalkTypes
<1>2. \A e \in Folders \ (Rooted!Linked(entries) \cup {Home} \cup touched), n \in Labels : entries[e][n] = None
  BY DEF WalkInv, UnusedIsEmpty, Rooted!Unused, Rooted!Existing
<1>. QED  BY <1>1, <1>2, DoneKeeps

(* An entry that leads to nothing is removed. *)
LEMMA DoneUnlinkedKeeps ==
  ASSUME WalkInv, dir # None, NEW next \in Seq(Walks),
         Rooted!Leaf \in Folders => \A n \in Labels : entries[Rooted!Leaf][n] = None,
         Rooted!Done(next, Rooted!Unlinked, {})
  PROVE  WalkInv'
<1>. DEFINE t == Rooted!Unlinked
<1>1. entries \in [Folders -> [Labels -> Rooted!Entries]] /\ None \in Rooted!Entries
  BY DEF WalkInv, WalkTypes, Rooted!Entries
<1>2. /\ t \in [Folders -> [Labels -> Rooted!Entries]]
      /\ \A e \in Folders, n \in Labels : t[e][n] = IF e = dir /\ n = left[1] THEN None ELSE entries[e][n]
  BY <1>1, AtComponent DEF Rooted!Unlinked
<1>. HIDE DEF t
<1>3. \A e \in Folders, n \in Labels : t[e][n] \in Folders => t[e][n] = entries[e][n]
  BY <1>2, Places
<1>4. ASSUME NEW e \in Folders, e \notin Rooted!Linked(t) \cup {Home} \cup touched, NEW n \in Labels
      PROVE  t[e][n] = None
  <2>1. CASE e \in Rooted!Linked(entries)
    <3>1. PICK h \in Folders, m \in Labels : entries[h][m] = e
      BY <2>1 DEF Rooted!Linked
    <3>2. h = dir /\ m = left[1]
      BY <1>2, <1>4, <3>1 DEF Rooted!Linked
    <3>. QED  BY <1>2, <1>4, <3>1, <3>2, AtComponent
  <2>2. CASE e \notin Rooted!Linked(entries)
    BY <1>2, <1>4, <2>2 DEF WalkInv, UnusedIsEmpty, Rooted!Unused, Rooted!Existing
  <2>. QED  BY <2>1, <2>2
<1>5. \A e \in Folders \ (Rooted!Linked(t) \cup {Home} \cup touched), n \in Labels : t[e][n] = None
  BY <1>4
<1>6. {} \subseteq beneath /\ Rooted!Done(next, t, {})
  BY DEF t
<1>. QED  BY <1>2, <1>3, <1>5, <1>6, DoneKeeps

LEMMA OneWalk ==
  ASSUME NEW w \in Walks
  PROVE  <<w>> \in Seq(Walks)
OBVIOUS

LEMMA NoWalksAreWalks == <<>> \in Seq(Walks)
OBVIOUS

LEMMA DoneTouchingNothingKeeps ==
  ASSUME WalkInv, NEW next \in Seq(Walks), Rooted!Done(next, entries, {})
  PROVE  WalkInv'
<1>1. \A D : D \subseteq beneath /\ Rooted!Done(next, entries, D) => WalkInv'
  BY DoneUnchangedKeeps
<1>2. {} \subseteq beneath
  OBVIOUS
<1>. QED  BY <1>1, <1>2

(* A directory is removed by walks of its own to its entries and to itself. *)
LEMMA RemovalsAreWalks ==
  ASSUME NEW d \in Folders, NEW p \in Seq(Labels) \ {<<>>}
  PROVE  Rooted!Removals(d, p) \in Seq(Walks)
<1>. DEFINE present == {n \in Labels : entries[d][n] # None}
           k == Cardinality(present)
           order == CHOOSE s \in [1..k -> present] : \A n \in present : \E i \in DOMAIN s : s[i] = n
           walk == [i \in DOMAIN order |-> [act  |-> IF entries[d][order[i]] \in Folders THEN "list" ELSE "remove",
                                            path |-> Append(p, order[i])]]
<1>1. IsFiniteSet(present)
  BY Places, FS_Subset
<1>2. k \in Nat /\ ExistsBijection(1..k, present)
  BY <1>1, FS_CardinalityType
<1>3. order \in [1..k -> present]
  <2>. HIDE DEF present, k
  <2>1. PICK s : s \in Bijection(1..k, present)
    BY <1>2 DEF ExistsBijection
  <2>2. s \in [1..k -> present] /\ \A n \in present : \E i \in 1..k : s[i] = n
    BY <2>1 DEF Bijection, Surjection
  <2>3. DOMAIN s = 1..k
    BY <2>2
  <2>. QED  BY <2>2, <2>3
<1>. HIDE DEF k
<1>4. ASSUME NEW i \in 1..k PROVE Append(p, order[i]) \in Seq(Labels) \ {<<>>}
  <2>1. order[i] \in Labels
    BY <1>3
  <2>. HIDE DEF order
  <2>2. Append(p, order[i]) \in Seq(Labels) /\ Append(p, order[i]) # <<>>
    BY <2>1, AppendProperties
  <2>. QED  BY <2>2
<1>5. walk \in [1..k -> Walks]
  <2>1. DOMAIN order = 1..k
    BY <1>3
  <2>. HIDE DEF order
  <2>2. ASSUME NEW i \in 1..k
        PROVE  [act  |-> IF entries[d][order[i]] \in Folders THEN "list" ELSE "remove",
                path |-> Append(p, order[i])] \in Walks
    BY <1>4 DEF Walks, Acts
  <2>. QED  BY <2>1, <2>2
<1>6. walk \in Seq(Walks)
  <2>. HIDE DEF walk
  <2>. QED  BY <1>2, <1>5
<1>7. <<[act |-> "rmdir", path |-> p]>> \in Seq(Walks)
  <2>1. [act |-> "rmdir", path |-> p] \in Walks
    BY DEF Walks, Acts
  <2>. QED  BY <2>1, OneWalk
<1>8. Rooted!Cardinality(present) = k
  BY Zenon DEF Rooted!Cardinality, Cardinality, k
<1>9. Rooted!Removals(d, p) = walk \o <<[act |-> "rmdir", path |-> p]>>
  BY <1>8, Zenon DEF Rooted!Removals
<1>. HIDE DEF walk
<1>. QED  BY <1>6, <1>7, <1>9

LEMMA WalksFollow ==
  ASSUME WalkInv, todo # <<>>
  PROVE  Tail(todo) \in Seq(Walks) /\ Head(todo).path \in Seq(Labels) \ {<<>>}
<1>1. todo \in Seq(Walks)
  BY DEF WalkInv, WalkTypes
<1>2. Head(todo) \in Walks /\ Tail(todo) \in Seq(Walks)
  BY <1>1, HeadTailProperties
<1>. QED  BY <1>2 DEF Walks

-----------------------------------------------------------------------------
LEMMA BeginKeeps ==
  ASSUME WalkInv, NEW o \in Rooted!Ops, NEW p \in RelativePaths, Rooted!Begin(o, p)
  PROVE  WalkInv'
<1>. USE DEF WalkInv, Rooted!Begin
<1>1. WalkTypes'
  <2>1. Rooted!FirstAct(o) \in Acts
    BY DEF Rooted!FirstAct, Rooted!Ops, Acts
  <2>2. <<[act |-> Rooted!FirstAct(o), path |-> p]>> \in Seq(Walks)
    BY <2>1, Places, OneWalk DEF Walks
  <2>. QED  BY <2>2 DEF WalkTypes
<1>2. RootIsBeneath' /\ HeldIsBeneath' /\ Rooted!StaysBeneathRoot'
  BY DEF RootIsBeneath, HeldIsBeneath, Rooted!RootOf, Rooted!StaysBeneathRoot
<1>3. UnusedIsEmpty'
  BY DEF UnusedIsEmpty, Rooted!Unused, Rooted!Existing, Rooted!Linked
<1>. QED  BY <1>1, <1>2, <1>3

LEMMA OpenRootKeeps ==
  ASSUME WalkInv, Rooted!OpenRoot
  PROVE  WalkInv'
<1>1. CASE Rooted!RootOf(entries) \in Folders
  <2>1. Rooted!Reach(Rooted!RootOf(entries), Head(todo).path) /\ todo # <<>>
    BY <1>1 DEF Rooted!OpenRoot
  <2>2. Rooted!Below(entries, {Rooted!RootOf(entries)}) \subseteq beneath
    BY DEF WalkInv, RootIsBeneath
  <2>. QED  BY <1>1, <2>1, <2>2, WalksFollow, ReachKeeps
<1>2. CASE Rooted!RootOf(entries) \notin Folders
  BY <1>2, WalkRefusalKeeps DEF Rooted!OpenRoot
<1>. QED  BY <1>1, <1>2

LEMMA DescendKeeps ==
  ASSUME WalkInv, Rooted!Descend
  PROVE  WalkInv'
<1>. DEFINE d == Rooted!Opens(dir, left[1])
<1>1. dir # None /\ Len(left) # 1
  <2>1. Len(left) \in Nat
    BY DEF WalkInv, WalkTypes
  <2>2. dir # None /\ Len(left) > 1
    BY DEF Rooted!Descend
  <2>3. \A k \in Nat : k > 1 => k # 1
    OBVIOUS
  <2>. QED  BY <2>1, <2>2, <2>3, Zenon
<1>2. Head(left) = left[1] /\ Tail(left) \in Seq(Labels) \ {<<>>}
  BY <1>1, AtComponent
<1>3. CASE d # None
  <2>1. Rooted!Reach(d, Tail(left))
    BY <1>2, <1>3 DEF Rooted!Descend
  <2>2. d \in Folders /\ Rooted!Below(entries, {d}) \subseteq beneath
    BY <1>1, <1>3, OpenedIsBeneath
  <2>. HIDE DEF d
  <2>. QED  BY <1>2, <2>1, <2>2, ReachKeeps
<1>4. CASE d = None
  <2>1. Rooted!Done(<<>>, entries, {}) \/ Rooted!Refuse
    BY <1>2, <1>4 DEF Rooted!Descend
  <2>. QED  BY <2>1, NoWalksAreWalks, DoneTouchingNothingKeeps, WalkRefusalKeeps
<1>. QED  BY <1>3, <1>4

(* The calls that look at a leaf, hand it out or open it. *)
LEMMA LooksKeep ==
  ASSUME WalkInv, Rooted!Stat \/ Rooted!Confine \/ Rooted!Hash
  PROVE  WalkInv'
<1>1. todo # <<>> /\ (Rooted!Done(Tail(todo), entries, {}) \/ Rooted!Refuse)
  BY DEF Rooted!Stat, Rooted!Confine, Rooted!Hash, Rooted!AtLeaf
<1>2. Tail(todo) \in Seq(Walks)
  BY <1>1, WalksFollow
<1>. QED  BY <1>1, <1>2, DoneTouchingNothingKeeps, WalkRefusalKeeps

LEMMA ChdirKeeps ==
  ASSUME WalkInv, Rooted!Chdir
  PROVE  WalkInv'
<1>. DEFINE d == Rooted!Opens(dir, left[1])
<1>1. todo # <<>> /\ dir # None /\ ((d # None /\ Rooted!Done(Tail(todo), entries, {d})) \/ Rooted!Refuse)
  BY DEF Rooted!Chdir, Rooted!AtLeaf
<1>2. d # None => {d} \subseteq beneath
  BY <1>1, OpenedIsBeneath
<1>. HIDE DEF d
<1>. QED  BY <1>1, <1>2, WalksFollow, DoneUnchangedKeeps, WalkRefusalKeeps

LEMMA ListKeeps ==
  ASSUME WalkInv, Rooted!List
  PROVE  WalkInv'
<1>. DEFINE d == Rooted!Opens(dir, left[1])
           next == Rooted!Removals(d, Head(todo).path) \o Tail(todo)
<1>1. todo # <<>> /\ dir # None /\ ((d # None /\ Rooted!Done(next, entries, {d})) \/ Rooted!Refuse)
  BY DEF Rooted!List, Rooted!AtLeaf
<1>2. d # None => {d} \subseteq beneath /\ d \in Folders
  BY <1>1, OpenedIsBeneath
<1>. HIDE DEF d
<1>3. d # None => next \in Seq(Walks)
  BY <1>1, <1>2, WalksFollow, RemovalsAreWalks
<1>. HIDE DEF next
<1>. QED  BY <1>1, <1>2, <1>3, DoneUnchangedKeeps, WalkRefusalKeeps

LEMMA RemoveFileKeeps ==
  ASSUME WalkInv, Rooted!RemoveFile
  PROVE  WalkInv'
<1>1. todo # <<>> /\ dir # None
      /\ \/ Rooted!Leaf \in Leaves \cup {Link} /\ Rooted!Done(Tail(todo), Rooted!Unlinked, {})
         \/ Rooted!Refuse
  BY DEF Rooted!RemoveFile, Rooted!AtLeaf
<1>2. Rooted!Leaf \in Leaves \cup {Link} => Rooted!Leaf \notin Folders
  BY Places
<1>. QED  BY <1>1, <1>2, WalksFollow, DoneUnlinkedKeeps, WalkRefusalKeeps

LEMMA RemoveDirKeeps ==
  ASSUME WalkInv, Rooted!RemoveDir
  PROVE  WalkInv'
<1>1. todo # <<>> /\ dir # None
      /\ \/ (\A n \in Labels : entries[Rooted!Leaf][n] = None) /\ Rooted!Done(Tail(todo), Rooted!Unlinked, {})
         \/ Rooted!Refuse
  BY DEF Rooted!RemoveDir, Rooted!AtLeaf
<1>. QED  BY <1>1, WalksFollow, DoneUnlinkedKeeps, WalkRefusalKeeps

LEMMA LookKeeps ==
  ASSUME WalkInv, Rooted!Look
  PROVE  WalkInv'
<1>1. CASE Rooted!Refuse
  BY <1>1, WalkRefusalKeeps
<1>2. CASE ~Rooted!Refuse
  <2>1. /\ look' \in {"directory", "missing"}
        /\ UNCHANGED <<entries, call, todo, dir, left, made, result, touched, anchored, changes, beneath>>
    BY <1>2 DEF Rooted!Look
  <2>2. WalkTypes' /\ RootIsBeneath' /\ HeldIsBeneath' /\ Rooted!StaysBeneathRoot'
    BY <2>1 DEF WalkInv, WalkTypes, RootIsBeneath, HeldIsBeneath, Rooted!RootOf, Rooted!StaysBeneathRoot
  <2>3. UnusedIsEmpty'
    BY <2>1 DEF WalkInv, UnusedIsEmpty, Rooted!Unused, Rooted!Existing, Rooted!Linked
  <2>. QED  BY <2>2, <2>3 DEF WalkInv
<1>. QED  BY <1>1, <1>2

LEMMA EnterKeeps ==
  ASSUME WalkInv, Rooted!Enter
  PROVE  WalkInv'
<1>. DEFINE d == Rooted!Opens(dir, left[1])
<1>1. /\ dir # None
      /\ \/ Rooted!Refuse
         \/ d # None /\ Len(left) = 1 /\ Rooted!Done(<<>>, entries, {d})
         \/ d # None /\ Len(left) # 1 /\ Rooted!Reach(d, Tail(left))
  BY DEF Rooted!Enter, Rooted!Creating, Rooted!Target
<1>2. d # None => d \in Folders /\ {d} \subseteq beneath /\ Rooted!Below(entries, {d}) \subseteq beneath
  BY <1>1, OpenedIsBeneath
<1>. HIDE DEF d
<1>3. Len(left) # 1 => Tail(left) \in Seq(Labels) \ {<<>>}
  BY <1>1, AtComponent
<1>. QED  BY <1>1, <1>2, <1>3, NoWalksAreWalks, DoneUnchangedKeeps, ReachKeeps, WalkRefusalKeeps

(* A new directory lies at a name that led to nothing, and holds nothing. *)
LEMMA MakeDirKeeps ==
  ASSUME WalkInv, Rooted!MakeDir
  PROVE  WalkInv'
<1>1. CASE Rooted!Refuse
  BY <1>1, WalkRefusalKeeps
<1>2. CASE ~Rooted!Refuse
  <2>1. PICK d : /\ d \in Rooted!Unused
                 /\ entries' = [entries EXCEPT ![dir][left[1]] = d]
                 /\ made' = Append(made, d) /\ look' = "directory" /\ beneath' = beneath \cup {d}
                 /\ UNCHANGED <<call, todo, dir, left, result, touched, anchored, changes>>
                 /\ dir # None /\ Rooted!Leaf = None
    BY <1>2 DEF Rooted!MakeDir, Rooted!Creating
  <2>2. /\ d \in Folders /\ d \notin touched /\ d # Home
        /\ \A e \in Folders, n \in Labels : entries[e][n] # d
        /\ \A n \in Labels : entries[d][n] = None
    BY <2>1 DEF WalkInv, UnusedIsEmpty, Rooted!Unused, Rooted!Existing, Rooted!Linked
  <2>3. /\ dir \in Folders /\ left[1] \in Labels /\ entries[dir][left[1]] = None
        /\ entries \in [Folders -> [Labels -> Rooted!Entries]] /\ d \in Rooted!Entries
    BY <2>1, <2>2, AtComponent DEF WalkInv, WalkTypes, Rooted!Entries
  <2>4. /\ entries' \in [Folders -> [Labels -> Rooted!Entries]]
        /\ \A e \in Folders, n \in Labels :
             entries'[e][n] = IF e = dir /\ n = left[1] THEN d ELSE entries[e][n]
    BY <2>1, <2>3
  <2>5. ASSUME NEW D PROVE Rooted!Below(entries', D) \subseteq Rooted!Below(entries, D) \cup {d}
    <3>1. \A e \in Folders, n \in Labels : entries'[e][n] \in Folders => entries'[e][n] = entries[e][n] \/ entries'[e][n] = d
      BY <2>4
    <3>. QED  BY <2>2, <3>1, OneMoreBelow
  <2>6. WalkTypes'
    BY <2>1, <2>2, <2>4 DEF WalkInv, WalkTypes
  <2>7. HeldIsBeneath' /\ Rooted!StaysBeneathRoot'
    BY <2>1, <2>5 DEF WalkInv, HeldIsBeneath, Rooted!StaysBeneathRoot
  <2>8. RootIsBeneath'
    <3>1. Rooted!RootOf(entries)' \in {Rooted!RootOf(entries), d}
      BY <2>1, <2>4, Places DEF Rooted!RootOf
    <3>2. CASE Rooted!RootOf(entries)' = Rooted!RootOf(entries)
      BY <2>1, <2>5, <3>2 DEF WalkInv, RootIsBeneath
    <3>3. CASE Rooted!RootOf(entries)' = d
      <4>1. Rooted!Closed(entries, {d}) /\ {d} \subseteq Folders /\ {d} \cap Folders \subseteq {d}
        BY <2>2, Places DEF Rooted!Closed
      <4>2. Rooted!Below(entries, {d}) \subseteq {d}
        BY <4>1, BelowIsLeast
      <4>. QED  BY <2>1, <2>5, <3>3, <4>2 DEF RootIsBeneath
    <3>. QED  BY <3>1, <3>2, <3>3
  <2>9. UnusedIsEmpty'
    <3>1. ASSUME NEW e \in Folders, e \notin Rooted!Linked(entries)' \cup {Home} \cup touched, NEW n \in Labels
          PROVE  entries'[e][n] = None
      <4>1. e # dir
        BY <2>1, <3>1 DEF WalkInv, HeldIsBeneath
      <4>2. e \notin Rooted!Linked(entries)
        BY <2>3, <2>4, <3>1, Places DEF Rooted!Linked
      <4>. QED  BY <2>4, <3>1, <4>1, <4>2 DEF WalkInv, UnusedIsEmpty, Rooted!Unused, Rooted!Existing
    <3>. QED  BY <2>1, <3>1 DEF UnusedIsEmpty, Rooted!Unused, Rooted!Existing
  <2>. QED  BY <2>6, <2>7, <2>8, <2>9 DEF WalkInv
<1>. QED  BY <1>1, <1>2

(* Others change entries, but link no directory that does not exist and unlink none. *)
LEMMA ChangeKeeps ==
  ASSUME WalkInv, NEW t \in [Folders -> [Labels -> Rooted!Entries]],
         Rooted!Linked(t) \cap Folders = Rooted!Linked(entries) \cap Folders,
         \A e \in Rooted!Unused, n \in Labels : t[e][n] = None,
         Rooted!Change(t)
  PROVE  WalkInv'
<1>. USE DEF WalkInv, Rooted!Change, Rooted!walk
<1>1. WalkTypes'
  BY BelowIsClosed DEF WalkTypes
<1>2. UnusedIsEmpty'
  BY DEF UnusedIsEmpty, Rooted!Unused, Rooted!Existing
<1>3. Rooted!Below(t, {Rooted!RootOf(t)}) \subseteq beneath' /\ Rooted!Below(t, {dir}) \subseteq beneath'
  BY FewerBelow
<1>4. RootIsBeneath' /\ HeldIsBeneath'
  BY <1>3 DEF RootIsBeneath, HeldIsBeneath, Rooted!RootOf
<1>5. Rooted!StaysBeneathRoot'
  BY DEF Rooted!StaysBeneathRoot
<1>. QED  BY <1>1, <1>2, <1>4, <1>5

LEMMA UserMovesKeeps ==
  ASSUME WalkInv, Rooted!UserMoves
  PROVE  WalkInv'
<1>1. PICK d \in Folders, m \in Labels, l \in {None, Link} :
        /\ entries[d][m] # None
        /\ \E e \in Rooted!Existing \ Rooted!Below(entries, {entries[d][m]}), n \in Labels :
             entries[e][n] = None /\ Rooted!Change([entries EXCEPT ![d][m] = l, ![e][n] = entries[d][m]])
  BY DEF Rooted!UserMoves
<1>2. PICK e \in Rooted!Existing, n \in Labels :
        entries[e][n] = None /\ Rooted!Change([entries EXCEPT ![d][m] = l, ![e][n] = entries[d][m]])
  BY <1>1
<1>. DEFINE t == [entries EXCEPT ![d][m] = l, ![e][n] = entries[d][m]]
<1>3. e \in Folders /\ entries \in [Folders -> [Labels -> Rooted!Entries]] /\ {None, Link} \subseteq Rooted!Entries
  BY DEF Rooted!Existing, WalkInv, WalkTypes, Rooted!Entries
<1>4. /\ t \in [Folders -> [Labels -> Rooted!Entries]]
      /\ \A h \in Folders, k \in Labels :
           t[h][k] = IF h = e /\ k = n THEN entries[d][m] ELSE IF h = d /\ k = m THEN l ELSE entries[h][k]
  <2>1. DOMAIN entries = Folders /\ \A h \in Folders : entries[h] \in [Labels -> Rooted!Entries]
    BY <1>3
  <2>2. entries[d][m] \in Rooted!Entries /\ l \in Rooted!Entries
    BY <1>3
  <2>. HIDE <1>1, <1>2
  <2>. QED  BY <1>3, <2>1, <2>2
<1>5. Rooted!Change(t)
  BY <1>2
<1>. HIDE DEF t
<1>6. Rooted!Linked(t) \cap Folders = Rooted!Linked(entries) \cap Folders
  <2>1. ASSUME NEW x1 \in Folders, x1 \in Rooted!Linked(t) PROVE x1 \in Rooted!Linked(entries)
    BY <1>4, <2>1, Places DEF Rooted!Linked
  <2>2. ASSUME NEW x1 \in Folders, x1 \in Rooted!Linked(entries) PROVE x1 \in Rooted!Linked(t)
    <3>1. PICK h \in Folders, k \in Labels : entries[h][k] = x1
      BY <2>2 DEF Rooted!Linked
    <3>2. CASE h = d /\ k = m
      <4>1. t[e][n] = x1
        BY <1>3, <1>4, <3>1, <3>2
      <4>. QED  BY <1>3, <4>1 DEF Rooted!Linked
    <3>3. CASE ~(h = d /\ k = m)
      <4>1. t[h][k] = x1
        BY <1>2, <1>4, <3>1, <3>3, Places
      <4>. QED  BY <4>1 DEF Rooted!Linked
    <3>. QED  BY <3>2, <3>3
  <2>. QED  BY <2>1, <2>2
<1>7. \A h \in Rooted!Unused, k \in Labels : t[h][k] = None
  BY <1>1, <1>2, <1>4 DEF WalkInv, UnusedIsEmpty, Rooted!Unused
<1>. QED  BY <1>4, <1>5, <1>6, <1>7, ChangeKeeps

LEMMA UserLinksKeeps ==
  ASSUME WalkInv, Rooted!UserLinks
  PROVE  WalkInv'
<1>1. PICK d \in Rooted!Existing, n \in Labels :
        entries[d][n] = None /\ Rooted!Change([entries EXCEPT ![d][n] = Link])
  BY DEF Rooted!UserLinks
<1>. DEFINE t == [entries EXCEPT ![d][n] = Link]
<1>2. d \in Folders /\ entries \in [Folders -> [Labels -> Rooted!Entries]] /\ Link \in Rooted!Entries
  BY DEF Rooted!Existing, WalkInv, WalkTypes, Rooted!Entries
<1>3. /\ t \in [Folders -> [Labels -> Rooted!Entries]]
      /\ \A h \in Folders, k \in Labels : t[h][k] = IF h = d /\ k = n THEN Link ELSE entries[h][k]
  BY <1>2
<1>4. Rooted!Change(t)
  BY <1>1
<1>. HIDE DEF t
<1>5. Rooted!Linked(t) \cap Folders = Rooted!Linked(entries) \cap Folders
  BY <1>1, <1>2, <1>3, Places DEF Rooted!Linked
<1>6. \A h \in Rooted!Unused, k \in Labels : t[h][k] = None
  BY <1>1, <1>3 DEF WalkInv, UnusedIsEmpty, Rooted!Unused
<1>. QED  BY <1>3, <1>4, <1>5, <1>6, ChangeKeeps

-----------------------------------------------------------------------------
WalksInv == part = "paths" => WalkInv

LEMMA WalksStart == MCInit => WalksInv
<1>. SUFFICES ASSUME Rooted!InitOf(Trees) PROVE WalkInv
  BY DEF MCInit, WalksInv
<1>1. /\ entries \in [Folders -> [Labels -> Rooted!Entries]] /\ Rooted!IsTree(entries)
      /\ beneath = Rooted!Below(entries, {Repo}) /\ Rooted!Idle
  BY PartsAreSane DEF Rooted!InitOf
<1>2. WalkTypes
  BY <1>1, BelowIsClosed DEF WalkTypes, Rooted!Idle
<1>3. RootIsBeneath
  BY <1>1 DEF RootIsBeneath, Rooted!RootOf, Rooted!IsTree
<1>4. HeldIsBeneath /\ Rooted!StaysBeneathRoot
  BY <1>1 DEF HeldIsBeneath, Rooted!StaysBeneathRoot, Rooted!Idle
<1>5. UnusedIsEmpty
  BY <1>1 DEF UnusedIsEmpty, Rooted!Unused, Rooted!Existing, Rooted!IsTree
<1>. QED  BY <1>2, <1>3, <1>4, <1>5 DEF WalkInv

LEMMA WalkSteps ==
  ASSUME WalkInv, Rooted!Next
  PROVE  WalkInv'
<1>1. CASE Rooted!Step
  BY <1>1, OpenRootKeeps, DescendKeeps, LooksKeep, ChdirKeeps, RemoveFileKeeps, RemoveDirKeeps,
     ListKeeps, LookKeeps,
     MakeDirKeeps, EnterKeeps DEF Rooted!Step
<1>. QED  BY <1>1, BeginKeeps, UserMovesKeeps, UserLinksKeeps DEF Rooted!Next

LEMMA WalkStays ==
  ASSUME WalkInv, UNCHANGED walks
  PROVE  WalkInv'
<1>1. WalkTypes' /\ RootIsBeneath' /\ HeldIsBeneath' /\ Rooted!StaysBeneathRoot'
  BY DEF WalkInv, WalkTypes, RootIsBeneath, HeldIsBeneath, Rooted!RootOf, Rooted!StaysBeneathRoot, walks
<1>2. UnusedIsEmpty'
  BY DEF WalkInv, UnusedIsEmpty, Rooted!Unused, Rooted!Existing, Rooted!Linked, walks
<1>. QED  BY <1>1, <1>2 DEF WalkInv

LEMMA WalksStep == WalksInv /\ [MCNext]_everything => WalksInv'
<1>. SUFFICES ASSUME WalksInv, [MCNext]_everything, part' = "paths" PROVE WalkInv'
  BY DEF WalksInv
<1>1. part = "paths" /\ WalkInv
  BY EachPartAlone DEF WalksInv
<1>2. Rooted!Next \/ UNCHANGED walks
  BY <1>1, EachPartAlone
<1>. QED  BY <1>1, <1>2, WalkSteps, WalkStays

(* Whatever others move, remove or link meanwhile, a call opens, reads and changes only what lay *)
(* beneath the repository root at some moment since it began, or beneath a directory it had      *)
(* reached that way (openat with O_NOFOLLOW, rooted.rs and create_directory.rs).                 *)
THEOREM WalksStayBeneathRoot == MCSpec => []StaysBeneathRoot
<1>1. WalkInv => Rooted!TypeOK
  BY DEF WalkInv, WalkTypes, Rooted!TypeOK
<1>2. WalksInv => StaysBeneathRoot
  BY <1>1 DEF WalksInv, WalkInv, StaysBeneathRoot
<1>. QED  BY <1>2, WalksStart, WalksStep, PTL DEF MCSpec

-----------------------------------------------------------------------------
(* The Docker jobs.                                                        *)

Stages == {"build", "run", "smoke", "rm", "rmi", "up", "down", "find"}
Records == [kind : Kinds \cup {None}, name : {None, Project} \cup (Nat \X Nat), stage : Stages \cup {"idle", "end"},
            client : BOOLEAN, result : [Stages -> Docker!Outcomes \cup {None}],
            status : {None, "completed", "failed", "timed_out"}, clean : BOOLEAN]
Objects == [type : {"tag", "container", "stack"}, name : {None, Project, Operator} \cup (Nat \X Nat),
            maker : Jobs \cup {Operator}]
JobTypes == /\ job \in [Jobs -> Records] /\ docker \subseteq Objects /\ late \subseteq Objects
            /\ clock \in 0..1 /\ plans \in Nat

(* A job that was planned counts, and has the stages of its kind. *)
Planned == {j \in Jobs : job[j].stage # "idle"}
PlansCount == Cardinality(Planned) = plans
StageFits(k, s) ==
  \/ k = None /\ s = "idle"
  \/ k = "task" /\ s \in {"build", "run", "rm", "rmi", "end"}
  \/ k = "artifact" /\ s \in {"build", "smoke", "rmi", "end"}
  \/ k = "compose" /\ s \in {"up", "down", "end"}
  \/ k = "find" /\ s \in {"find", "end"}
StagesFit == \A j \in Jobs : StageFits(job[j].kind, job[j].stage)

(* Names: those of task images and artifact builds are of one plan each. *)
Numbered(j) == job[j].kind \in {"task", "artifact"}
NamesFit ==
  \A j \in Jobs : /\ Numbered(j) => job[j].name \in Nat \X Nat /\ job[j].name[2] < plans
                  /\ job[j].kind = "compose" => job[j].name = Project
                  /\ job[j].kind = "find" => job[j].name = None
NamesAreUnique == \A i \in Jobs, j \in Jobs : i # j /\ Numbered(i) /\ Numbered(j) => job[i].name[2] # job[j].name[2]

(* What there is, or may yet be, was made by a planned job under its name, or by the operator. *)
ObjectsAreNamed ==
  \A o \in docker \cup late :
    IF o.maker = Operator THEN o.name = Operator
    ELSE o.maker \in Planned /\ o.name = job[o.maker].name

(* The commands of a job that make something.  While those before went well there is nothing to come *)
(* later, and what there is the cleanup that is still to run removes.                            *)
Making(k) == CASE k = "task" -> {"build", "run"} [] k = "artifact" -> {"build", "smoke"}
               [] k = "compose" -> {"up"} [] OTHER -> {"find"}
Past(k, s) == IF s \in Making(k) THEN (Making(k) \cap {"build"}) \ {s} ELSE Making(k)
Kept(k) == CASE k \in {"task", "artifact"} -> {"tag"} [] k = "compose" -> {"stack"} [] OTHER -> {}
Tidy(j) ==
  job[j].stage # "end" /\ (\A s \in Past(job[j].kind, job[j].stage) : job[j].result[s] \in {None, "ok"}) =>
    /\ \A o \in late : o.maker # j
    /\ \A o \in docker : o.maker = j => o.type \in Kept(job[j].kind)
Unjudged(j) == job[j].stage # "end" => job[j].status = None

JobInv == /\ JobTypes /\ PlansCount /\ StagesFit /\ NamesFit /\ NamesAreUnique /\ ObjectsAreNamed
          /\ \A j \in Jobs : Tidy(j) /\ Unjudged(j)
          /\ Docker!CompletedIsClean

JobsInv == part = "docker" => JobInv

LEMMA JobConstants ==
  /\ IsFiniteSet(Jobs) /\ Operator \notin Jobs /\ Operator # Project
  /\ None \notin Nat \X Nat /\ Project \notin Nat \X Nat /\ Operator \notin Nat \X Nat
  /\ Kinds \subseteq {"task", "artifact", "compose", "find"}
  /\ None \notin {"task", "artifact", "compose", "find"} /\ None \notin Docker!Outcomes
  /\ None \notin {"completed", "failed", "timed_out"}
<1>1. Docker!IsFiniteSet(Jobs) <=> IsFiniteSet(Jobs)
  BY Zenon DEF Docker!IsFiniteSet, IsFiniteSet
<1>. QED  BY <1>1, PartsAreSane DEF Docker!ConstantsAreSane, Docker!Outcomes

LEMMA FollowingFits ==
  ASSUME NEW k, NEW s \in Stages, NEW o, StageFits(k, s)
  PROVE  /\ StageFits(k, Docker!Following(k, s, o))
         /\ Docker!Following(k, s, o) \in Stages \cup {"end"}
BY JobConstants DEF StageFits, Stages, Docker!Following, Docker!AfterTask, Docker!AfterArtifact,
   Docker!AfterCompose

(* A command ends: the job goes on to the next one, or is judged. *)
LEMMA EndEffect ==
  ASSUME NEW j \in Jobs, NEW o \in Docker!Outcomes, JobTypes, StageFits(job[j].kind, job[j].stage), Unjudged(j),
         job[j].stage \in Stages, Docker!End(j, o)
  PROVE  LET r == [job[j].result EXCEPT ![job[j].stage] = o]
             t == Docker!Following(job[j].kind, job[j].stage, o)
         IN  /\ job' \in [Jobs -> Records]
             /\ \A i \in Jobs : i # j => job'[i] = job[i]
             /\ job'[j].kind = job[j].kind /\ job'[j].name = job[j].name /\ job'[j].stage = t
             /\ t # "end" => job'[j].result = r /\ job'[j].status = None
             /\ t = "end" => /\ job'[j].status = Docker!Verdict(job[j].kind, r)
                            /\ job'[j].clean = Docker!ReportedClean(job[j].kind, r)
<1>. DEFINE s == job[j].stage
            k == job[j].kind
            r == [job[j].result EXCEPT ![s] = o]
            t == Docker!Following(k, s, o)
            over == [job[j] EXCEPT !.client = FALSE, !.stage = t, !.result = Docker!NewJob.result,
                                   !.status = Docker!Verdict(k, r), !.clean = Docker!ReportedClean(k, r)]
            on == [job[j] EXCEPT !.client = FALSE, !.stage = t, !.result = r]
<1>1. job' = [job EXCEPT ![j] = IF t = "end" THEN over ELSE on]
  BY DEF Docker!End
<1>2. t \in Stages \cup {"end"}
  BY FollowingFits
<1>3. job[j] \in Records /\ r \in [Stages -> Docker!Outcomes \cup {None}]
  BY DEF JobTypes, Records
<1>4. /\ Docker!NewJob.result \in [Stages -> Docker!Outcomes \cup {None}]
      /\ Docker!Verdict(k, r) \in {None, "completed", "failed", "timed_out"}
  BY DEF Docker!NewJob, Docker!Verdict, Stages
<1>5. Docker!ReportedClean(k, r) \in BOOLEAN
  BY DEF Docker!ReportedClean
<1>. HIDE DEF t, r
<1>6. /\ on \in Records /\ on.kind = k /\ on.name = job[j].name /\ on.stage = t /\ on.result = r
      /\ on.status = job[j].status
  BY <1>2, <1>3 DEF Records
<1>7. /\ over \in Records /\ over.kind = k /\ over.name = job[j].name /\ over.stage = t
      /\ over.status = Docker!Verdict(k, r) /\ over.clean = Docker!ReportedClean(k, r)
  BY <1>2, <1>3, <1>4, <1>5 DEF Records
<1>8. job[j].status = None
  BY DEF Unjudged, Stages
<1>. HIDE DEF over, on
<1>9. /\ job' \in [Jobs -> Records] /\ \A i \in Jobs : i # j => job'[i] = job[i]
      /\ job'[j] = IF t = "end" THEN over ELSE on
  BY <1>1, <1>6, <1>7 DEF JobTypes
<1>. QED  BY <1>6, <1>7, <1>8, <1>9 DEF r, t

(* What stays when no job takes a new name and only a planned job makes an object. *)
LEMMA NamesKeep ==
  ASSUME NEW j \in Jobs, JobInv, UNCHANGED <<plans, clock>>, job' \in [Jobs -> Records],
         \A i \in Jobs : job'[i].kind = job[i].kind /\ job'[i].name = job[i].name,
         \A i \in Jobs : job'[i].stage = "idle" <=> job[i].stage = "idle",
         \A i \in Jobs : StageFits(job'[i].kind, job'[i].stage),
         NEW t \in {"tag", "container", "stack"}, job[j].stage # "idle",
         docker' \cup late' \subseteq docker \cup late \cup {Docker!Object(t, j)}
  PROVE  JobTypes' /\ PlansCount' /\ StagesFit' /\ NamesFit' /\ NamesAreUnique' /\ ObjectsAreNamed'
<1>. USE DEF JobInv
<1>1. Docker!Object(t, j) \in Objects
  BY DEF Docker!Object, Objects, JobTypes, Records
<1>2. JobTypes'
  BY <1>1 DEF JobTypes
<1>3. Planned' = Planned
  BY DEF Planned
<1>4. StagesFit' /\ NamesFit' /\ NamesAreUnique' /\ PlansCount'
  BY <1>3 DEF StagesFit, NamesFit, NamesAreUnique, Numbered, PlansCount
<1>5. ObjectsAreNamed'
  <2>1. SUFFICES ASSUME NEW o \in docker' \cup late'
                 PROVE  IF o.maker = Operator THEN o.name = Operator ELSE o.maker \in Planned /\ o.name = job'[o.maker].name
    BY <1>3 DEF ObjectsAreNamed
  <2>2. CASE o \in docker \cup late
    BY <2>2 DEF ObjectsAreNamed, Planned
  <2>3. CASE o = Docker!Object(t, j)
    BY <2>3, JobConstants DEF Docker!Object, Planned
  <2>. QED  BY <2>2, <2>3
<1>. QED  BY <1>2, <1>4, <1>5
(* What a job does leaves the other jobs as they are. *)
Settled(j) == job[j].status = "completed" /\ job[j].clean => \A o \in docker \cup late : o.maker # j
LEMMA OthersKeep ==
  ASSUME NEW j \in Jobs, JobInv, \A i \in Jobs : i # j => job'[i] = job[i],
         NEW t, docker' \subseteq docker \cup {Docker!Object(t, j)}, late' \subseteq late \cup {Docker!Object(t, j)},
         Tidy(j)', Unjudged(j)', Settled(j)'
  PROVE  (\A i \in Jobs : Tidy(i) /\ Unjudged(i))' /\ Docker!CompletedIsClean'
<1>1. Docker!Object(t, j).maker = j
  BY DEF Docker!Object
<1>. DEFINE new == Docker!Object(t, j)
<1>. HIDE DEF new
<1>2. ASSUME NEW i \in Jobs, i # j
      PROVE  Tidy(i)' /\ Unjudged(i)' /\ Settled(i)'
  <2>1. job'[i] = job[i] /\ \A o : (o \in docker' /\ o.maker = i => o \in docker) /\ (o \in late' /\ o.maker = i => o \in late)
    BY <1>1, <1>2 DEF new
  <2>2. Tidy(i) /\ Unjudged(i) /\ Settled(i)
    BY DEF JobInv, Settled, Docker!CompletedIsClean
  <2>. QED  BY <2>1, <2>2 DEF Tidy, Unjudged, Settled
<1>3. \A i \in Jobs : Tidy(i)' /\ Unjudged(i)' /\ Settled(i)'
  BY <1>2
<1>. QED  BY <1>3 DEF Settled, Docker!CompletedIsClean

(* Nothing is there of a job that was not planned. *)
LEMMA IdleMadeNothing ==
  ASSUME JobInv, NEW j \in Jobs, job[j].stage = "idle"
  PROVE  \A o \in docker \cup late : o.maker # j
BY JobConstants DEF JobInv, ObjectsAreNamed, Planned

LEMMA PlanKeeps ==
  ASSUME JobInv, NEW j \in Jobs,
         NEW p \in {Docker!TaskPlan, Docker!ArtifactPlan, Docker!ComposePlan, Docker!FindPlan}, Docker!Plan(j, p)
  PROVE  JobInv'
<1>. USE DEF JobInv
<1>1. /\ job[j].stage = "idle" /\ p.kind \in Kinds
      /\ job' = [job EXCEPT ![j].kind = p.kind, ![j].name = p.name, ![j].stage = p.first]
      /\ plans' = plans + 1 /\ UNCHANGED <<docker, late, clock>>
  BY DEF Docker!Plan
<1>2. /\ StageFits(p.kind, p.first) /\ p.first \in Stages
      /\ p.kind \in {"task", "artifact"} => p.name = <<clock, plans>>
      /\ p.kind = "compose" => p.name = Project
      /\ p.kind = "find" => p.name = None
  BY DEF Docker!TaskPlan, Docker!ArtifactPlan, Docker!ComposePlan, Docker!FindPlan, StageFits, Stages,
     Docker!Unique
<1>3. <<clock, plans>> \in Nat \X Nat /\ <<clock, plans>>[2] = plans /\ plans \in Nat
  BY DEF JobTypes
<1>4. p.name \in {None, Project} \cup (Nat \X Nat)
  BY <1>1, <1>2, <1>3, JobConstants
<1>5. /\ job' \in [Jobs -> Records] /\ \A i \in Jobs : i # j => job'[i] = job[i]
      /\ job'[j].kind = p.kind /\ job'[j].name = p.name /\ job'[j].stage = p.first
      /\ job'[j].status = job[j].status
  <2>. DEFINE new == [job[j] EXCEPT !.kind = p.kind, !.name = p.name, !.stage = p.first]
  <2>1. job' = [job EXCEPT ![j] = new]
    BY <1>1 DEF JobTypes, Records
  <2>2. /\ new \in Records /\ new.kind = p.kind /\ new.name = p.name /\ new.stage = p.first
        /\ new.status = job[j].status
    BY <1>1, <1>2, <1>4 DEF JobTypes, Records
  <2>. HIDE DEF new
  <2>. QED  BY <2>1, <2>2 DEF JobTypes
<1>6. JobTypes'
  BY <1>1, <1>3, <1>5 DEF JobTypes
<1>7. Planned' = Planned \cup {j} /\ j \notin Planned
  BY <1>1, <1>2, <1>5 DEF Planned, Stages
<1>8. PlansCount'
  <2>1. IsFiniteSet(Planned)
    BY FS_Subset, JobConstants DEF Planned
  <2>. QED  BY <1>1, <1>3, <1>7, <2>1, FS_AddElement DEF PlansCount
<1>9. StagesFit'
  BY <1>2, <1>5 DEF StagesFit
<1>10. NamesFit'
  <2>1. \A i \in Jobs : Numbered(i) => job[i].name[2] \in Nat
    BY DEF NamesFit
  <2>2. ASSUME NEW i \in Jobs, i # j
        PROVE  /\ Numbered(i)' => job'[i].name \in Nat \X Nat /\ job'[i].name[2] < plans'
               /\ job'[i].kind = "compose" => job'[i].name = Project
               /\ job'[i].kind = "find" => job'[i].name = None
    BY <1>1, <1>3, <1>5, <2>1, <2>2 DEF NamesFit, Numbered
  <2>3. /\ Numbered(j)' => job'[j].name \in Nat \X Nat /\ job'[j].name[2] < plans'
        /\ job'[j].kind = "compose" => job'[j].name = Project
        /\ job'[j].kind = "find" => job'[j].name = None
    BY <1>1, <1>2, <1>3, <1>5 DEF Numbered
  <2>. QED  BY <2>2, <2>3 DEF NamesFit
<1>11. NamesAreUnique'
  <2>1. Numbered(j)' => job'[j].name[2] = plans
    BY <1>2, <1>3, <1>5 DEF Numbered
  <2>2. \A i \in Jobs : i # j /\ Numbered(i)' => Numbered(i) /\ job'[i].name[2] # plans
    BY <1>3, <1>5 DEF NamesFit, Numbered
  <2>. QED  BY <1>5, <2>1, <2>2 DEF NamesAreUnique, Numbered
<1>12. ObjectsAreNamed'
  BY <1>1, <1>5, <1>7 DEF ObjectsAreNamed, Planned
<1>13. Tidy(j)' /\ Unjudged(j)' /\ Settled(j)'
  BY <1>1, <1>5, IdleMadeNothing DEF Tidy, Unjudged, Settled
<1>14. (\A i \in Jobs : Tidy(i) /\ Unjudged(i))' /\ Docker!CompletedIsClean'
  BY <1>1, <1>5, <1>13, OthersKeep
<1>. QED  BY <1>6, <1>8, <1>9, <1>10, <1>11, <1>12, <1>14

LEMMA LaunchKeeps ==
  ASSUME JobInv, NEW j \in Jobs, Docker!Launch(j)
  PROVE  JobInv'
<1>. USE DEF JobInv
<1>1. /\ job[j].stage \notin {"idle", "end"} /\ job' = [job EXCEPT ![j].client = TRUE]
      /\ UNCHANGED <<late, plans, clock>>
      /\ \/ UNCHANGED docker
         \/ job[j].stage = "up" /\ docker' = docker \cup {Docker!Object("stack", j)}
  BY DEF Docker!Launch
<1>2. /\ job' \in [Jobs -> Records] /\ \A i \in Jobs : i # j => job'[i] = job[i]
      /\ \A i \in Jobs : /\ job'[i].kind = job[i].kind /\ job'[i].name = job[i].name /\ job'[i].stage = job[i].stage
                          /\ job'[i].status = job[i].status /\ job'[i].result = job[i].result
  BY <1>1 DEF JobTypes, Records
<1>3. \A i \in Jobs : StageFits(job'[i].kind, job'[i].stage)
  BY <1>2 DEF StagesFit
<1>4. JobTypes' /\ PlansCount' /\ StagesFit' /\ NamesFit' /\ NamesAreUnique' /\ ObjectsAreNamed'
  BY <1>1, <1>2, <1>3, NamesKeep
<1>5. Unjudged(j)' /\ job[j].status = None
  BY <1>1, <1>2 DEF Unjudged
<1>6. Settled(j)'
  BY <1>2, <1>5, JobConstants DEF Settled
<1>7. Tidy(j)'
  <2>1. CASE UNCHANGED docker
    BY <1>1, <1>2, <2>1 DEF Tidy
  <2>2. CASE job[j].stage = "up" /\ docker' = docker \cup {Docker!Object("stack", j)}
    <3>1. "stack" \in Kept(job[j].kind)
      BY <2>2, JobConstants DEF StagesFit, StageFits, Kept
    <3>2. Docker!Object("stack", j).type = "stack"
      BY DEF Docker!Object
    <3>. QED  BY <1>1, <1>2, <2>2, <3>1, <3>2 DEF Tidy
  <2>. QED  BY <1>1, <2>1, <2>2
<1>8. (\A i \in Jobs : Tidy(i) /\ Unjudged(i))' /\ Docker!CompletedIsClean'
  BY <1>1, <1>2, <1>5, <1>6, <1>7, OthersKeep
<1>. QED  BY <1>4, <1>8
(* A command that makes something ends. *)
LEMMA EndOfMakerKeeps ==
  ASSUME JobInv, NEW j \in Jobs, NEW o \in Docker!Outcomes, Docker!EndOfMaker(j, o)
  PROVE  JobInv'
<1>. USE DEF JobInv
<1>. DEFINE s == job[j].stage
            k == job[j].kind
            r == [job[j].result EXCEPT ![s] = o]
            t == Docker!Following(k, s, o)
            m == Docker!Makes(s)
            new == Docker!Object(m, j)
<1>1. /\ s \in {"build", "run", "smoke", "find", "up"} /\ Docker!End(j, o) /\ UNCHANGED <<plans, clock>>
      /\ \/ o = "ok" /\ s = "build" /\ docker' = docker \cup {new} /\ UNCHANGED late
         \/ (o = "ok" => s # "build") /\ UNCHANGED <<docker, late>>
         \/ o \in {"timeout", "error", "daemon"} /\ docker' = docker \cup {new} /\ UNCHANGED late
         \/ o \in {"timeout", "error"} /\ late' = late \cup {new} /\ UNCHANGED docker
  BY DEF Docker!EndOfMaker
<1>2. s \in Stages /\ StageFits(k, s) /\ m \in {"tag", "container", "stack"} /\ o # None
  BY <1>1, JobConstants DEF Stages, StagesFit, Docker!Makes
<1>3. /\ job' \in [Jobs -> Records] /\ \A i \in Jobs : i # j => job'[i] = job[i]
      /\ job'[j].kind = k /\ job'[j].name = job[j].name /\ job'[j].stage = t
      /\ t # "end" => job'[j].result = r /\ job'[j].status = None
      /\ t = "end" => job'[j].status = Docker!Verdict(k, r)
  BY <1>1, <1>2, EndEffect
<1>4. t \in Stages \cup {"end"} /\ StageFits(k, t)
  BY <1>2, FollowingFits
<1>5. r[s] = o /\ \A q \in Stages : q # s => r[q] = job[j].result[q]
  BY <1>2 DEF JobTypes, Records
<1>6. /\ t = "end" => s = "find" /\ k = "find"
      /\ s \notin Past(k, s) /\ s \in Past(k, t) /\ Past(k, s) \subseteq Past(k, t) /\ Past(k, s) \subseteq Stages
  BY <1>1, <1>2, JobConstants DEF StageFits, Making, Past, Docker!Following, Docker!AfterTask,
     Docker!AfterArtifact,
     Docker!AfterCompose, Stages
<1>7. s = "build" => m \in Kept(k)
  BY <1>2, JobConstants DEF Docker!Makes, Kept, StageFits
<1>8. new.type = m /\ new.maker = j
  BY DEF Docker!Object
<1>9. docker' \subseteq docker \cup {new} /\ late' \subseteq late \cup {new}
  BY <1>1
<1>10. t = "end" /\ Docker!Verdict(k, r) = "completed" => o = "ok"
  BY <1>5, <1>6 DEF Docker!Verdict, Docker!Succeeded, Docker!FindSucceeded
<1>. HIDE DEF r, t, m, new
<1>11. JobTypes' /\ PlansCount' /\ StagesFit' /\ NamesFit' /\ NamesAreUnique' /\ ObjectsAreNamed'
  <2>1. \A i \in Jobs : job'[i].kind = job[i].kind /\ job'[i].name = job[i].name
    BY <1>3
  <2>2. \A i \in Jobs : job'[i].stage = "idle" <=> job[i].stage = "idle"
    BY <1>2, <1>3, <1>4 DEF Stages
  <2>3. \A i \in Jobs : StageFits(job'[i].kind, job'[i].stage)
    BY <1>3, <1>4 DEF StagesFit
  <2>. QED  BY <1>1, <1>2, <1>3, <1>9, <2>1, <2>2, <2>3, NamesKeep DEF new, Stages
<1>12. Unjudged(j)'
  BY <1>3 DEF Unjudged
<1>13. ASSUME o = "ok", \A q \in Past(k, s) : job[j].result[q] \in {None, "ok"}
       PROVE  (\A p \in late' : p.maker # j) /\ \A p \in docker' : p.maker = j => p.type \in Kept(k)
  <2>1. (\A p \in late : p.maker # j) /\ \A p \in docker : p.maker = j => p.type \in Kept(k)
    BY <1>2, <1>13 DEF Tidy, Stages
  <2>2. UNCHANGED late /\ (UNCHANGED docker \/ (s = "build" /\ docker' = docker \cup {new}))
    BY <1>1, <1>13
  <2>. QED  BY <1>7, <1>8, <2>1, <2>2
<1>14. Tidy(j)'
  <2>1. SUFFICES ASSUME t # "end", \A q \in Past(k, t) : r[q] \in {None, "ok"}
                 PROVE  (\A p \in late' : p.maker # j) /\ \A p \in docker' : p.maker = j => p.type \in Kept(k)
    BY <1>3 DEF Tidy
  <2>2. o = "ok"
    BY <1>2, <1>5, <1>6, <2>1
  <2>3. \A q \in Past(k, s) : job[j].result[q] \in {None, "ok"}
    BY <1>5, <1>6, <2>1
  <2>. QED  BY <1>13, <2>2, <2>3
<1>15. Settled(j)'
  <2>1. SUFFICES ASSUME job'[j].status = "completed" PROVE \A p \in docker' \cup late' : p.maker # j
    BY DEF Settled
  <2>2. t = "end" /\ o = "ok" /\ k = "find" /\ s = "find"
    BY <1>3, <1>6, <1>10, <2>1, JobConstants
  <2>3. Past(k, s) = {} /\ Kept(k) = {}
    BY <2>2 DEF Making, Past, Kept
  <2>. QED  BY <1>13, <2>2, <2>3
<1>16. (\A i \in Jobs : Tidy(i) /\ Unjudged(i))' /\ Docker!CompletedIsClean'
  BY <1>3, <1>9, <1>12, <1>14, <1>15, OthersKeep DEF new
<1>. QED  BY <1>11, <1>16

(* A cleanup ends. *)
LEMMA EndOfCleanupKeeps ==
  ASSUME JobInv, NEW j \in Jobs, NEW o \in Docker!Outcomes, Docker!EndOfCleanup(j, o)
  PROVE  JobInv'
<1>. USE DEF JobInv
<1>. DEFINE s == job[j].stage
            k == job[j].kind
            r == [job[j].result EXCEPT ![s] = o]
            t == Docker!Following(k, s, o)
<1>1. /\ s \in {"rm", "rmi", "down"} /\ Docker!End(j, o) /\ UNCHANGED <<late, plans, clock>>
      /\ docker' \subseteq docker
      /\ o = "ok" => docker' = docker \ Docker!Named(Docker!Removes(s), j)
  BY DEF Docker!EndOfCleanup
<1>2. s \in Stages /\ StageFits(k, s) /\ o # None
  BY <1>1, JobConstants DEF Stages, StagesFit
<1>3. /\ job' \in [Jobs -> Records] /\ \A i \in Jobs : i # j => job'[i] = job[i]
      /\ job'[j].kind = k /\ job'[j].name = job[j].name /\ job'[j].stage = t
      /\ t # "end" => job'[j].result = r /\ job'[j].status = None
      /\ t = "end" => job'[j].status = Docker!Verdict(k, r) /\ job'[j].clean = Docker!ReportedClean(k, r)
  BY <1>1, <1>2, EndEffect
<1>4. t \in Stages \cup {"end"} /\ StageFits(k, t)
  BY <1>2, FollowingFits
<1>5. r[s] = o /\ \A q \in Stages : q # s => r[q] = job[j].result[q]
  BY <1>2 DEF JobTypes, Records
<1>6. /\ s \notin Making(k) /\ Past(k, s) = Making(k) /\ Past(k, t) = Making(k) 
      /\ (t = "end" => s \in {"rmi", "down"}) /\ Making(k) \subseteq Stages
  BY <1>1, <1>2, JobConstants DEF StageFits, Making, Past, Docker!Following, Docker!AfterTask,
     Docker!AfterArtifact,
     Docker!AfterCompose, Stages
<1>7. t = "end" /\ Docker!Verdict(k, r) = "completed" /\ Docker!ReportedClean(k, r) =>
        o = "ok" /\ \A q \in Making(k) : r[q] = "ok"
  BY <1>1, <1>2, <1>5, <1>6, JobConstants DEF StageFits, Making, Docker!Verdict, Docker!Succeeded,
     Docker!TaskSucceeded,
     Docker!ArtifactSucceeded, Docker!ComposeSucceeded, Docker!ReportedClean
<1>8. t = "end" => \A y \in Kept(k) : y = Docker!Removes(s)
  BY <1>1, <1>2, <1>6, JobConstants DEF StageFits, Kept, Docker!Removes
<1>. HIDE DEF r, t
<1>9. JobTypes' /\ PlansCount' /\ StagesFit' /\ NamesFit' /\ NamesAreUnique' /\ ObjectsAreNamed'
  <2>1. \A i \in Jobs : job'[i].kind = job[i].kind /\ job'[i].name = job[i].name
    BY <1>3
  <2>2. \A i \in Jobs : job'[i].stage = "idle" <=> job[i].stage = "idle"
    BY <1>2, <1>3, <1>4 DEF Stages
  <2>3. \A i \in Jobs : StageFits(job'[i].kind, job'[i].stage)
    BY <1>3, <1>4 DEF StagesFit
  <2>4. docker' \cup late' \subseteq docker \cup late \cup {Docker!Object("tag", j)} /\ s # "idle"
    BY <1>1
  <2>. QED  BY <1>1, <1>3, <2>1, <2>2, <2>3, <2>4, NamesKeep
<1>10. Unjudged(j)'
  BY <1>3 DEF Unjudged
<1>11. ASSUME \A q \in Making(k) : job[j].result[q] \in {None, "ok"}
       PROVE  (\A p \in late : p.maker # j) /\ \A p \in docker : p.maker = j => p.type \in Kept(k)
  BY <1>1, <1>6, <1>11 DEF Tidy
<1>12. Tidy(j)'
  <2>1. SUFFICES ASSUME t # "end", \A q \in Past(k, t) : r[q] \in {None, "ok"}
                 PROVE  (\A p \in late' : p.maker # j) /\ \A p \in docker' : p.maker = j => p.type \in Kept(k)
    BY <1>3 DEF Tidy
  <2>2. \A q \in Making(k) : job[j].result[q] \in {None, "ok"}
    BY <1>5, <1>6, <2>1
  <2>. QED  BY <1>1, <1>11, <2>2
<1>13. Settled(j)'
  <2>1. SUFFICES ASSUME job'[j].status = "completed", job'[j].clean, NEW p \in docker' \cup late', p.maker = j
                 PROVE  FALSE
    BY DEF Settled
  <2>2. t = "end" /\ o = "ok" /\ \A q \in Making(k) : job[j].result[q] \in {None, "ok"}
    BY <1>3, <1>5, <1>6, <1>7, <2>1, JobConstants
  <2>3. p \in docker /\ p.type \in Kept(k)
    BY <1>1, <1>11, <2>1, <2>2
  <2>4. p.type = Docker!Removes(s) /\ p.name = job[j].name
    BY <1>8, <2>1, <2>2, <2>3, JobConstants DEF ObjectsAreNamed
  <2>5. p \notin docker' /\ p \notin late'
    BY <1>1, <1>11, <2>1, <2>2, <2>3, <2>4 DEF Docker!Named
  <2>. QED  BY <2>1, <2>5
<1>14. (\A i \in Jobs : Tidy(i) /\ Unjudged(i))' /\ Docker!CompletedIsClean'
  BY <1>1, <1>3, <1>10, <1>12, <1>13, OthersKeep
<1>. QED  BY <1>9, <1>14

(* The daemon and the clock. *)
LEMMA DaemonKeeps ==
  ASSUME JobInv, Docker!DaemonCatchesUp \/ Docker!ContainerEnds \/ Docker!Tick
  PROVE  JobInv'
<1>. USE DEF JobInv
<1>1. UNCHANGED <<job, plans>> /\ docker' \cup late' \subseteq docker \cup late /\ late' \subseteq late /\ clock' \in 0..1
  BY DEF Docker!DaemonCatchesUp, Docker!ContainerEnds, Docker!Tick, JobTypes
<1>2. JobTypes' /\ PlansCount' /\ StagesFit' /\ NamesFit' /\ NamesAreUnique' /\ ObjectsAreNamed'
  BY <1>1 DEF JobTypes, PlansCount, Planned, StagesFit, NamesFit, NamesAreUnique, Numbered,
     ObjectsAreNamed
<1>3. \A p \in docker' : p \in docker \/ p \in late
  BY <1>1
<1>4. (\A i \in Jobs : Tidy(i) /\ Unjudged(i))' /\ Docker!CompletedIsClean'
  BY <1>1, <1>3 DEF Tidy, Unjudged, Docker!CompletedIsClean
<1>. QED  BY <1>2, <1>4

LEMMA JobSteps ==
  ASSUME JobInv, Docker!Next
  PROVE  JobInv'
BY PlanKeeps, LaunchKeeps, EndOfMakerKeeps, EndOfCleanupKeeps, DaemonKeeps DEF Docker!Next,
   Docker!Command

LEMMA JobStays ==
  ASSUME JobInv, UNCHANGED jobs
  PROVE  JobInv'
BY DEF JobInv, jobs, JobTypes, PlansCount, Planned, StagesFit, NamesFit, NamesAreUnique, Numbered,
   ObjectsAreNamed,
   Tidy, Unjudged, Docker!CompletedIsClean

LEMMA JobStarts ==
  ASSUME Docker!Init
  PROVE  JobInv
<1>1. /\ job = [j \in Jobs |-> Docker!NewJob] /\ late = {} /\ plans = 0 /\ clock = 0
      /\ docker = {[type |-> "stack", name |-> Operator, maker |-> Operator]}
  BY DEF Docker!Init
<1>2. /\ Docker!NewJob \in Records /\ Docker!NewJob.stage = "idle" /\ Docker!NewJob.kind = None
      /\ Docker!NewJob.status = None
  BY DEF Docker!NewJob, Records, Stages
<1>. HIDE DEF Docker!NewJob
<1>3. \A j \in Jobs : job[j] = Docker!NewJob
  BY <1>1
<1>4. JobTypes
  BY <1>1, <1>2 DEF JobTypes, Objects
<1>5. PlansCount
  <2>1. Planned = {}
    BY <1>2, <1>3 DEF Planned
  <2>. QED  BY <1>1, <2>1, FS_EmptySet DEF PlansCount
<1>6. StagesFit /\ NamesFit /\ NamesAreUnique
  BY <1>2, <1>3, JobConstants DEF StagesFit, StageFits, NamesFit, NamesAreUnique, Numbered
<1>7. ObjectsAreNamed
  BY <1>1 DEF ObjectsAreNamed
<1>8. \A j \in Jobs : Tidy(j) /\ Unjudged(j)
  BY <1>1, <1>2, <1>3, JobConstants DEF Tidy, Unjudged
<1>9. Docker!CompletedIsClean
  BY <1>2, <1>3, JobConstants DEF Docker!CompletedIsClean
<1>. QED  BY <1>4, <1>5, <1>6, <1>7, <1>8, <1>9 DEF JobInv

LEMMA JobsStep == JobsInv /\ [MCNext]_everything => JobsInv'
<1>. SUFFICES ASSUME JobsInv, [MCNext]_everything, part' = "docker" PROVE JobInv'
  BY DEF JobsInv
<1>1. part = "docker" /\ JobInv
  BY EachPartAlone DEF JobsInv
<1>2. Docker!Next \/ UNCHANGED jobs
  BY <1>1, EachPartAlone
<1>. QED  BY <1>1, <1>2, JobSteps, JobStays

LEMMA JobsHaveTypes ==
  ASSUME JobInv
  PROVE  Docker!TypeOK
<1>. USE DEF JobInv
<1>1. Docker!Cardinality(Jobs) = Cardinality(Jobs)
  BY Zenon DEF Docker!Cardinality, Cardinality
<1>2. plans <= Cardinality(Jobs) /\ Cardinality(Jobs) \in Nat
  BY FS_Subset, FS_CardinalityType, JobConstants DEF PlansCount, Planned
<1>3. plans \in 0..Docker!Cardinality(Jobs) /\ clock \in 0..1
  BY <1>1, <1>2 DEF JobTypes
<1>4. \A j \in Jobs : /\ job[j].kind \in Kinds \cup {None}
                      /\ \A q \in DOMAIN job[j].result : job[j].result[q] \in Docker!Outcomes \cup {None}
                      /\ job[j].status \in {None, "completed", "failed", "timed_out"}
  BY DEF JobTypes, Records
<1>5. \A p \in docker \cup late : p.type \in {"tag", "container", "stack"} /\ p.maker \in Jobs \cup {Operator}
  BY DEF JobTypes, Objects
<1>. QED  BY <1>3, <1>4, <1>5 DEF Docker!TypeOK

(* A task-image job reported completed, a search that succeeded, and an artifact or compose job *)
(* that also reports a clean removal have left nothing they made, nor will the daemon make any  *)
(* of it later (task_image.rs, artifact_build.rs, compose_stack.rs).                            *)
THEOREM CompletedJobsAreClean == MCSpec => []CompletedIsClean
<1>1. MCInit => JobsInv
  BY JobStarts DEF MCInit, JobsInv
<1>2. JobsInv => CompletedIsClean
  BY JobsHaveTypes DEF JobsInv, JobInv, CompletedIsClean
<1>. QED  BY <1>1, <1>2, JobsStep, PTL DEF MCSpec

(* The commands of a job remove by name, and no other maker's object bears the name they use. *)
LEMMA CommandsSpareOthers ==
  ASSUME JobInv, NEW j \in Jobs, Docker!Command(j), NEW p \in docker \ docker'
  PROVE  p.maker = j \/ (job[j].kind = "compose" /\ p.maker \in Jobs)
<1>. USE DEF JobInv
<1>1. PICK o \in Docker!Outcomes : Docker!EndOfCleanup(j, o)
  BY DEF Docker!Command, Docker!Launch, Docker!EndOfMaker
<1>2. job[j].stage \in {"rm", "rmi", "down"} /\ p \in Docker!Named(Docker!Removes(job[j].stage), j)
  BY <1>1 DEF Docker!EndOfCleanup
<1>3. p \in docker /\ p.name = job[j].name /\ p.type = Docker!Removes(job[j].stage)
  BY <1>2 DEF Docker!Named
<1>4. StageFits(job[j].kind, job[j].stage)
  BY DEF StagesFit
<1>5. CASE job[j].stage = "down"
  <2>1. job[j].kind = "compose" /\ p.name = Project
    BY <1>3, <1>4, <1>5 DEF StageFits, NamesFit
  <2>2. p.maker # Operator
    BY <1>3, <2>1, JobConstants DEF ObjectsAreNamed
  <2>. QED  BY <1>3, <2>1, <2>2 DEF JobTypes, Objects
<1>6. CASE job[j].stage \in {"rm", "rmi"}
  <2>1. Numbered(j) /\ p.name \in Nat \X Nat
    BY <1>3, <1>4, <1>6 DEF StageFits, NamesFit, Numbered
  <2>2. p.maker \in Jobs /\ p.name = job[p.maker].name /\ job[p.maker].stage # "idle"
    BY <1>3, <2>1, JobConstants DEF ObjectsAreNamed, Planned
  <2>3. Numbered(p.maker)
    BY <2>1, <2>2, JobConstants DEF Numbered, NamesFit, StagesFit, StageFits
  <2>. QED  BY <1>3, <2>1, <2>2, <2>3 DEF NamesAreUnique
<1>. QED  BY <1>2, <1>5, <1>6

(* The commands of a job remove nothing that others made, but for the stack that compose jobs of *)
(* one action share (the unique names of task_image_identity and unique_suffix).                 *)
THEOREM JobsLeaveOthersAlone == MCSpec => LeavesOthersAlone
<1>1. MCInit => JobsInv
  BY JobStarts DEF MCInit, JobsInv
<1>2. JobsInv => (part = "docker" => Docker!LeavesOthersAlone)
  BY CommandsSpareOthers DEF JobsInv, Docker!LeavesOthersAlone
<1>3. JobsInv => [part = "docker" => Docker!LeavesOthersAlone]_jobs
  BY <1>2
<1>. QED  BY <1>1, <1>3, JobsStep, PTL DEF MCSpec, LeavesOthersAlone

-----------------------------------------------------------------------------
(* The settings of Claude Desktop.                                         *)

Active == {"read", "name", "backup", "keep", "temp", "write", "sync", "compare", "rename"}
Backups == {"backup"} \X (0..MaxTries)
Temporaries == {"temporary"} \X Runs \X (0..MaxTries)
FileStates == [text : Desktop!Documents \cup {None}, synced : BOOLEAN]
RunStates == [pc : Active \cup {"start", "end", "killed"}, surface : Surfaces \cup {None}, dry : BOOLEAN,
              read : Desktop!Documents \cup {None}, backup : Backups \cup {None}, temp : Temporaries \cup {None},
              try : 0..MaxTries, edited : BOOLEAN, reused : BOOLEAN]
ConfigStates == [text : Desktop!Documents, synced : BOOLEAN,
                 by : {None} \cup [read : Desktop!Documents, backup : Backups]]
FilesAreTyped == files \in [DOMAIN files -> FileStates]
SettingsTypes == /\ config \in ConfigStates /\ config.synced /\ FilesAreTyped
                 /\ lock \in Runs \cup {None} /\ run \in [Runs -> RunStates]

(* One run at a time is under way: it has the lock. *)
HolderRuns == \A r \in Runs : run[r].pc \in Active <=> lock = r

(* What a run under way has put on the disk. *)
Named == {"backup", "keep", "temp", "write", "sync", "compare", "rename"}
RunFits(r) ==
  LET at == run[r].pc
  IN  /\ at \in Active => run[r].surface \in Surfaces
      /\ at = "name" => run[r].read \in Desktop!Documents
      /\ at \in Named => run[r].read \in Desktop!Documents /\ run[r].backup \in Backups
      /\ at \in Named \ {"backup"} /\ config.by # None => config.by.backup # run[r].backup
      /\ at \in Named \ {"backup", "keep"} =>
           /\ run[r].backup \in DOMAIN files
           /\ files[run[r].backup].text = run[r].read /\ files[run[r].backup].synced
      /\ at \in {"write", "sync", "compare", "rename"} => run[r].temp \in Temporaries /\ run[r].temp \in DOMAIN files
      /\ at \in {"sync", "compare", "rename"} => files[run[r].temp].text \in Desktop!Documents
      /\ at \in {"compare", "rename"} => files[run[r].temp].synced
      /\ at = "rename" => config.text = run[r].read \/ run[r].edited

SettingsInv == /\ SettingsTypes /\ HolderRuns /\ Desktop!ReplacementIsRecoverable
               /\ \A r \in Runs : RunFits(r)
AllSettingsInv == part = "desktop" => SettingsInv

LEMMA SettingsConstants ==
  None \notin Runs /\ MaxSaves \in Nat /\ MaxTries \in Nat /\ None \notin Desktop!Documents
BY PartsAreSane DEF Desktop!ConstantsAreSane, Desktop!Documents

LEMMA NewRuns ==
  /\ Desktop!NewRun \in RunStates /\ Desktop!NewRun.pc = "start"
  /\ [Desktop!NewRun EXCEPT !.pc = "end"] \in RunStates /\ [Desktop!NewRun EXCEPT !.pc = "end"].pc = "end"
<1>1. Desktop!NewRun \in RunStates
  BY SettingsConstants DEF Desktop!NewRun, RunStates, Active
<1>2. Desktop!NewRun.pc = "start"
  BY DEF Desktop!NewRun
<1>3. \A s \in RunStates : [s EXCEPT !.pc = "end"] \in RunStates /\ [s EXCEPT !.pc = "end"].pc = "end"
  BY DEF RunStates
<1>. QED  BY <1>1, <1>2, <1>3

LEMMA SettingsStart ==
  ASSUME Desktop!Init
  PROVE  SettingsInv
<1>1. /\ config \in [text : {d \in Desktop!Documents : d.rev = 0}, synced : {TRUE}, by : {None}]
      /\ files = [n \in {} |-> None] /\ lock = None /\ run = [r \in Runs |-> Desktop!NewRun]
  BY DEF Desktop!Init
<1>2. config.text \in Desktop!Documents /\ config.synced = TRUE /\ config.by = None /\ config \in ConfigStates
  BY <1>1 DEF ConfigStates
<1>. QED  BY <1>1, <1>2, NewRuns, SettingsConstants DEF SettingsInv, SettingsTypes, FilesAreTyped,
             HolderRuns, RunFits, Named,
     Active, Desktop!ReplacementIsRecoverable

(* A step of the run that has the lock, or that takes it, leaves the others idle. *)
LEMMA HolderKeeps ==
  ASSUME SettingsInv, NEW r \in Runs, NEW new \in RunStates, run[r].pc \in Active \/ lock = None,
         run' = [run EXCEPT ![r] = new], new.pc \in Active, lock' = r,
         config' \in ConfigStates, config'.synced, FilesAreTyped', Desktop!ReplacementIsRecoverable', RunFits(r)'
  PROVE  SettingsInv'
<1>. USE DEF SettingsInv
<1>1. \A i \in Runs : i # r => run[i].pc \notin Active /\ run'[i] = run[i]
  BY SettingsConstants DEF HolderRuns, SettingsTypes
<1>2. run' \in [Runs -> RunStates] /\ run'[r] = new
  BY DEF SettingsTypes
<1>3. SettingsTypes' /\ HolderRuns'
  BY <1>1, <1>2 DEF SettingsTypes, HolderRuns
<1>4. ASSUME NEW i \in Runs, i # r
      PROVE  RunFits(i)'
  BY <1>1, <1>4 DEF RunFits, Active, Named
<1>. QED  BY <1>3, <1>4

(* A run ends, and takes some of its files with it. *)
LEMMA EndKeeps ==
  ASSUME SettingsInv, NEW r \in Runs, NEW names,
         Desktop!Finish(r), files' = Desktop!Without(names), UNCHANGED config,
         config.by # None => config.by.backup \notin names,
         run[r].pc \in Active \/ names = {}
  PROVE  SettingsInv'
<1>. USE DEF SettingsInv
<1>1. run' = [run EXCEPT ![r] = [Desktop!NewRun EXCEPT !.pc = "end"]] /\ lock' = (IF lock = r THEN None ELSE lock)
  BY DEF Desktop!Finish, Desktop!Go
<1>2. run'[r].pc = "end" /\ run' \in [Runs -> RunStates] /\ \A i \in Runs : i # r => run'[i] = run[i]
  BY <1>1, NewRuns DEF SettingsTypes
<1>3. DOMAIN files' = DOMAIN files \ names /\ \A m \in DOMAIN files \ names : files'[m] = files[m]
  BY DEF Desktop!Without
<1>4. FilesAreTyped'
  BY <1>3 DEF SettingsTypes, FilesAreTyped, Desktop!Without
<1>5. SettingsTypes' /\ HolderRuns'
  BY <1>1, <1>2, <1>4, SettingsConstants DEF SettingsTypes, HolderRuns, Active
<1>6. Desktop!ReplacementIsRecoverable'
  BY <1>3 DEF Desktop!ReplacementIsRecoverable
<1>7. ASSUME NEW i \in Runs
      PROVE  RunFits(i)'
  <2>1. CASE i = r
    BY <1>2, <2>1 DEF RunFits, Active, Named
  <2>2. CASE i # r /\ run[r].pc \in Active
    <3>1. run'[i].pc \notin Active
      BY <1>2, <2>2 DEF HolderRuns
    <3>. QED  BY <3>1 DEF RunFits, Active, Named
  <2>3. CASE i # r /\ names = {}
    <3>1. run'[i] = run[i] /\ DOMAIN files' = DOMAIN files /\ \A m \in DOMAIN files : files'[m] = files[m]
      BY <1>2, <1>3, <2>3
    <3>. QED  BY <3>1 DEF RunFits, Named
  <2>. QED  BY <2>1, <2>2, <2>3
<1>. QED  BY <1>5, <1>6, <1>7
LEMMA NothingGone ==
  ASSUME FilesAreTyped
  PROVE  Desktop!Without({}) = files
BY DEF FilesAreTyped, Desktop!Without

(* What a run writes leaves the other files as they are. *)
LEMMA WrittenFile ==
  ASSUME FilesAreTyped, NEW n, NEW written \in FileStates, files' = Desktop!With(n, written)
  PROVE  /\ FilesAreTyped' /\ DOMAIN files' = DOMAIN files \cup {n} /\ files'[n] = written
         /\ \A m \in DOMAIN files : m # n => files'[m] = files[m]
BY DEF FilesAreTyped, Desktop!With

LEMMA NamesDiffer ==
  ASSUME NEW y \in Backups, NEW z \in Temporaries
  PROVE  y # z
<1>1. y[1] = "backup"
  BY DEF Backups
<1>2. z[1] = "temporary"
  BY DEF Temporaries
<1>. QED  BY <1>1, <1>2

LEMMA UpdatedIsDocument ==
  ASSUME NEW d \in Desktop!Documents, NEW s \in Surfaces
  PROVE  Desktop!Updated(d, s) \in Desktop!Documents
BY DEF Desktop!Documents, Desktop!Updated

(* A run under way that fails removes its backup, its temporary file or both. *)
LEMMA FailKeeps ==
  ASSUME SettingsInv, NEW r \in Runs, run[r].pc \in Named \ {"backup"}, NEW names, Desktop!Fail(r, names),
         names \subseteq {run[r].backup} \cup Temporaries,
         UNCHANGED config
  PROVE  SettingsInv'
<1>. USE DEF SettingsInv
<1>1. config.by # None => config.by.backup \in Backups /\ config.by.backup # run[r].backup
  BY DEF SettingsTypes, ConfigStates, RunFits
<1>2. config.by # None => config.by.backup \notin names
  BY <1>1, NamesDiffer
<1>3. run[r].pc \in Active
  BY DEF Named, Active
<1>. QED  BY <1>2, <1>3, EndKeeps DEF Desktop!Fail

LEMMA RunEndKeeps ==
  ASSUME SettingsInv, NEW r \in Runs, Desktop!Finish(r), UNCHANGED <<config, files>>
  PROVE  SettingsInv'
<1>1. files' = Desktop!Without({})
  BY NothingGone DEF SettingsInv, SettingsTypes
<1>. QED  BY <1>1, EndKeeps

(* A step of a run under way that touches no file another may need. *)
LEMMA GoesOn ==
  ASSUME SettingsInv, NEW r \in Runs, run[r].pc \in Active \/ lock = None, NEW new \in RunStates, new.pc \in Active,
         run' = [run EXCEPT ![r] = new], lock' = r, UNCHANGED <<config, files>>,
         new.surface \in Surfaces, new.pc = "name" => new.read \in Desktop!Documents,
         new.pc \in Named => new.read \in Desktop!Documents /\ new.backup \in Backups,
         new.pc \in Named \ {"backup"} => /\ run[r].pc \in Named \ {"backup", "keep"}
                                       /\ new.backup = run[r].backup /\ new.read = run[r].read,
         new.pc \in {"write", "sync", "compare", "rename"} =>
           new.pc = "rename" /\ run[r].pc = "compare" /\ new.temp = run[r].temp /\ config.text = new.read
  PROVE  SettingsInv'
<1>. USE DEF SettingsInv
<1>1. run'[r] = new
  BY DEF SettingsTypes
<1>2. RunFits(r)'
  BY <1>1 DEF RunFits, Named, Active
<1>3. config' \in ConfigStates /\ config'.synced /\ FilesAreTyped' /\ Desktop!ReplacementIsRecoverable'
  BY DEF SettingsTypes, FilesAreTyped, Desktop!ReplacementIsRecoverable
<1>. QED  BY <1>2, <1>3, HolderKeeps

LEMMA StartRunKeeps ==
  ASSUME SettingsInv, NEW r \in Runs, Desktop!Start(r)
  PROVE  SettingsInv'
<1>. USE DEF SettingsInv
<1>1. PICK s \in Surfaces, dry \in BOOLEAN :
        IF lock = None
        THEN /\ run' = [run EXCEPT ![r] = [run[r] EXCEPT !.pc = "read", !.surface = s, !.dry = dry]]
             /\ lock' = r
        ELSE Desktop!Finish(r)
  BY DEF Desktop!Start, Desktop!LockFree, Desktop!Go
<1>2. UNCHANGED <<config, files>> /\ run[r].pc = "start" /\ run[r] \in RunStates
  BY DEF Desktop!Start, Desktop!At, SettingsTypes
<1>3. CASE lock = None
  <2>. DEFINE new == [run[r] EXCEPT !.pc = "read", !.surface = s, !.dry = dry]
  <2>1. new \in RunStates /\ new.pc = "read" /\ new.surface = s
    BY <1>2 DEF RunStates, Active
  <2>. HIDE DEF new
  <2>2. run' = [run EXCEPT ![r] = new] /\ lock' = r
    BY <1>1, <1>3 DEF new
  <2>. QED  BY <1>2, <1>3, <2>1, <2>2, GoesOn DEF Active, Named
<1>4. CASE lock # None
  BY <1>1, <1>2, <1>4, RunEndKeeps
<1>. QED  BY <1>3, <1>4
LEMMA ReadSettingsKeeps ==
  ASSUME SettingsInv, NEW r \in Runs, Desktop!Read(r)
  PROVE  SettingsInv'
<1>. USE DEF SettingsInv
<1>. DEFINE new == [run[r] EXCEPT !.pc = "name", !.read = config.text]
<1>1. /\ run[r].pc = "read" /\ UNCHANGED <<config, files>>
      /\ \/ Desktop!Finish(r)
         \/ run' = [run EXCEPT ![r] = new] /\ UNCHANGED lock
  BY DEF Desktop!Read, Desktop!At, Desktop!Go
<1>2. lock = r /\ run[r].surface \in Surfaces /\ run[r] \in RunStates /\ config.text \in Desktop!Documents
  BY <1>1 DEF HolderRuns, RunFits, Active, SettingsTypes, ConfigStates
<1>3. new \in RunStates /\ new.pc = "name" /\ new.surface = run[r].surface /\ new.read = config.text
  BY <1>2 DEF RunStates, Active
<1>. HIDE DEF new
<1>4. CASE run' = [run EXCEPT ![r] = new] /\ UNCHANGED lock
  BY <1>1, <1>2, <1>3, <1>4, GoesOn DEF Active, Named
<1>. QED  BY <1>1, <1>4, RunEndKeeps

LEMMA BackupNameKeeps ==
  ASSUME SettingsInv, NEW r \in Runs, Desktop!BackupName(r)
  PROVE  SettingsInv'
<1>. USE DEF SettingsInv
<1>1. run[r].pc = "name" /\ UNCHANGED <<config, files>>
  BY DEF Desktop!BackupName, Desktop!At
<1>2. lock = r /\ run[r].surface \in Surfaces /\ run[r].read \in Desktop!Documents /\ run[r] \in RunStates
  BY <1>1 DEF HolderRuns, RunFits, Active, SettingsTypes
<1>3. ASSUME NEW k \in 0..(MaxTries - 1), UNCHANGED lock,
             run' = [run EXCEPT ![r] = [run[r] EXCEPT !.pc = "backup", !.backup = <<"backup", k>>]]
      PROVE  SettingsInv'
  <2>. DEFINE new == [run[r] EXCEPT !.pc = "backup", !.backup = <<"backup", k>>]
  <2>1. <<"backup", k>> \in Backups
    BY SettingsConstants DEF Backups
  <2>2. /\ new \in RunStates /\ new.pc = "backup" /\ new.surface = run[r].surface /\ new.read = run[r].read
        /\ new.backup \in Backups
    BY <1>2, <2>1 DEF RunStates, Active
  <2>3. run' = [run EXCEPT ![r] = new]
    BY <1>3
  <2>. HIDE DEF new
  <2>. QED  BY <1>1, <1>2, <1>3, <2>2, <2>3, GoesOn DEF Active, Named
<1>. QED  BY <1>1, <1>3, RunEndKeeps DEF Desktop!BackupName, Desktop!Go

(* A run under way writes a file that is not the backup of the last replacement. *)
LEMMA WritesOn ==
  ASSUME SettingsInv, NEW r \in Runs, run[r].pc \in Active, NEW new \in RunStates, new.pc \in Active,
         run' = [run EXCEPT ![r] = new], UNCHANGED <<lock, config>>,
         NEW n, NEW written \in FileStates, files' = Desktop!With(n, written), config.by # None => config.by.backup # n,
         RunFits(r)'
  PROVE  SettingsInv'
<1>. USE DEF SettingsInv
<1>1. lock = r
  BY DEF HolderRuns
<1>2. /\ FilesAreTyped' /\ DOMAIN files' = DOMAIN files \cup {n}
      /\ \A m \in DOMAIN files : m # n => files'[m] = files[m]
  BY WrittenFile DEF SettingsTypes
<1>3. Desktop!ReplacementIsRecoverable'
  BY <1>2 DEF Desktop!ReplacementIsRecoverable
<1>4. config' \in ConfigStates /\ config'.synced
  BY DEF SettingsTypes
<1>. QED  BY <1>1, <1>2, <1>3, <1>4, HolderKeeps

LEMMA CreateBackupKeeps ==
  ASSUME SettingsInv, NEW r \in Runs, Desktop!CreateBackup(r)
  PROVE  SettingsInv'
<1>. USE DEF SettingsInv
<1>. DEFINE new == [run[r] EXCEPT !.pc = "keep"]
<1>1. run[r].pc = "backup" /\ UNCHANGED config
  BY DEF Desktop!CreateBackup, Desktop!At
<1>2. CASE Desktop!Finish(r) /\ UNCHANGED files
  BY <1>1, <1>2, RunEndKeeps
<1>3. CASE /\ run[r].backup \notin DOMAIN files /\ files' = Desktop!With(run[r].backup, Desktop!Empty)
           /\ run' = [run EXCEPT ![r] = new] /\ UNCHANGED lock
  <2>1. run[r] \in RunStates /\ run[r].surface \in Surfaces /\ run[r].read \in Desktop!Documents /\ run[r].backup \in Backups
    BY <1>1 DEF RunFits, Active, Named, SettingsTypes
  <2>2. /\ new \in RunStates /\ new.pc = "keep" /\ new.surface = run[r].surface /\ new.read = run[r].read
        /\ new.backup = run[r].backup
    BY <2>1 DEF RunStates, Active
  <2>. HIDE DEF new
  <2>3. run'[r] = new
    BY <1>3, <2>2 DEF SettingsTypes
  <2>4. config.by # None => config.by.backup # run[r].backup
    BY <1>3 DEF Desktop!ReplacementIsRecoverable
  <2>5. RunFits(r)'
    BY <1>1, <2>1, <2>2, <2>3, <2>4 DEF RunFits, Active, Named
  <2>6. Desktop!Empty \in FileStates
    BY DEF Desktop!Empty, FileStates
  <2>. QED  BY <1>1, <1>3, <2>2, <2>4, <2>5, <2>6, WritesOn DEF Active
<1>. QED  BY <1>2, <1>3 DEF Desktop!CreateBackup, Desktop!Go

LEMMA KeepBackupKeeps ==
  ASSUME SettingsInv, NEW r \in Runs, Desktop!KeepBackup(r)
  PROVE  SettingsInv'
<1>. USE DEF SettingsInv
<1>. DEFINE new == [run[r] EXCEPT !.pc = "temp"]
            whole == [text |-> run[r].read, synced |-> TRUE]
<1>1. run[r].pc = "keep" /\ UNCHANGED config
  BY DEF Desktop!KeepBackup, Desktop!At
<1>2. run[r] \in RunStates /\ run[r].surface \in Surfaces /\ run[r].read \in Desktop!Documents /\ run[r].backup \in Backups
  BY <1>1 DEF RunFits, Active, Named, SettingsTypes
<1>3. CASE Desktop!Fail(r, {run[r].backup})
  BY <1>1, <1>3, FailKeeps DEF Named
<1>4. CASE files' = Desktop!With(run[r].backup, whole) /\ run' = [run EXCEPT ![r] = new] /\ UNCHANGED lock
  <2>1. /\ new \in RunStates /\ new.pc = "temp" /\ new.surface = run[r].surface /\ new.read = run[r].read
        /\ new.backup = run[r].backup
    BY <1>2 DEF RunStates, Active
  <2>2. whole \in FileStates /\ whole.text = run[r].read /\ whole.synced
    BY <1>2 DEF FileStates
  <2>. HIDE DEF new, whole
  <2>3. run'[r] = new
    BY <1>4, <2>1 DEF SettingsTypes
  <2>4. config.by # None => config.by.backup # run[r].backup
    BY <1>1 DEF RunFits, Named
  <2>5. run[r].backup \in DOMAIN files' /\ files'[run[r].backup] = whole
    <3>1. FilesAreTyped
      BY DEF SettingsTypes
    <3>. QED  BY <1>4, <2>2, <3>1, WrittenFile
  <2>6. RunFits(r)'
    BY <1>1, <1>2, <2>1, <2>2, <2>3, <2>4, <2>5 DEF RunFits, Active, Named
  <2>. QED  BY <1>1, <1>4, <2>1, <2>2, <2>4, <2>6, WritesOn DEF Active
<1>. QED  BY <1>3, <1>4 DEF Desktop!KeepBackup, Desktop!Go
LEMMA CreateTempKeeps ==
  ASSUME SettingsInv, NEW r \in Runs, Desktop!CreateTemp(r)
  PROVE  SettingsInv'
<1>. USE DEF SettingsInv
<1>. DEFINE n == <<"temporary", r, run[r].try>>
            next == [run[r] EXCEPT !.try = @ + 1]
            new == [run[r] EXCEPT !.pc = "write", !.temp = n]
<1>1. run[r].pc = "temp" /\ UNCHANGED config
  BY DEF Desktop!CreateTemp, Desktop!At
<1>2. /\ run[r] \in RunStates /\ run[r].surface \in Surfaces /\ run[r].read \in Desktop!Documents
      /\ run[r].backup \in Backups /\ run[r].try \in 0..MaxTries /\ lock = r
  BY <1>1 DEF RunFits, Active, Named, SettingsTypes, RunStates, HolderRuns
<1>3. CASE Desktop!Fail(r, {run[r].backup})
  BY <1>1, <1>3, FailKeeps DEF Named
<1>4. CASE run[r].try # MaxTries /\ run' = [run EXCEPT ![r] = next] /\ UNCHANGED <<files, lock>>
  <2>1. run[r].try + 1 \in 0..MaxTries
    BY <1>2, <1>4, SettingsConstants
  <2>2. /\ next \in RunStates /\ next.pc = "temp" /\ next.surface = run[r].surface /\ next.read = run[r].read
        /\ next.backup = run[r].backup
    BY <1>1, <1>2, <2>1 DEF RunStates
  <2>. HIDE DEF next
  <2>. QED  BY <1>1, <1>2, <1>4, <2>2, GoesOn DEF Active, Named
<1>5. CASE files' = Desktop!With(n, Desktop!Empty) /\ run' = [run EXCEPT ![r] = new] /\ UNCHANGED lock
  <2>1. n \in Temporaries
    BY <1>2 DEF Temporaries
  <2>. HIDE DEF n
  <2>2. /\ new \in RunStates /\ new.pc = "write" /\ new.surface = run[r].surface /\ new.read = run[r].read
        /\ new.backup = run[r].backup /\ new.temp = n
    BY <1>2, <2>1 DEF RunStates, Active
  <2>. HIDE DEF new
  <2>3. run'[r] = new
    BY <1>5, <2>2 DEF SettingsTypes
  <2>4. config.by # None => config.by.backup # n
    BY <2>1, NamesDiffer DEF SettingsTypes, ConfigStates
  <2>5. Desktop!Empty \in FileStates
    BY DEF Desktop!Empty, FileStates
  <2>6. /\ n \in DOMAIN files' /\ DOMAIN files \subseteq DOMAIN files'
        /\ \A m \in DOMAIN files : m # n => files'[m] = files[m]
    <3>1. FilesAreTyped
      BY DEF SettingsTypes
    <3>. QED  BY <1>5, <2>5, <3>1, WrittenFile
  <2>7. run[r].backup # n
    BY <1>2, <2>1, NamesDiffer
  <2>8. RunFits(r)'
    BY <1>1, <1>2, <2>1, <2>2, <2>3, <2>6, <2>7 DEF RunFits, Active, Named
  <2>. QED  BY <1>1, <1>5, <2>2, <2>4, <2>5, <2>8, WritesOn DEF Active
<1>. QED  BY <1>3, <1>4, <1>5 DEF Desktop!CreateTemp, Desktop!Go

(* A write of the temporary file. *)
LEMMA WriteTempOn ==
  ASSUME SettingsInv, NEW r \in Runs, run[r].pc \in {"write", "sync"}, NEW s \in {"sync", "compare"},
         NEW written \in FileStates, files' = Desktop!With(run[r].temp, written), written.text \in Desktop!Documents,
         s = "compare" => written.synced,
         run' = [run EXCEPT ![r] = [run[r] EXCEPT !.pc = s]], UNCHANGED <<lock, config>>
  PROVE  SettingsInv'
<1>. USE DEF SettingsInv
<1>. DEFINE new == [run[r] EXCEPT !.pc = s]
<1>1. /\ run[r] \in RunStates /\ run[r].surface \in Surfaces /\ run[r].read \in Desktop!Documents
      /\ run[r].backup \in Backups /\ run[r].temp \in Temporaries
  BY DEF RunFits, Active, Named, SettingsTypes
<1>2. /\ new \in RunStates /\ new.pc = s /\ new.surface = run[r].surface /\ new.read = run[r].read
      /\ new.backup = run[r].backup /\ new.temp = run[r].temp
  BY <1>1 DEF RunStates, Active
<1>3. run' = [run EXCEPT ![r] = new]
  OBVIOUS
<1>. HIDE DEF new
<1>4. run'[r] = new
  BY <1>2, <1>3 DEF SettingsTypes
<1>5. config.by # None => config.by.backup # run[r].temp
  BY <1>1, NamesDiffer DEF SettingsTypes, ConfigStates
<1>6. /\ DOMAIN files \subseteq DOMAIN files' /\ files'[run[r].temp] = written
      /\ \A m \in DOMAIN files : m # run[r].temp => files'[m] = files[m]
  <2>1. FilesAreTyped
    BY DEF SettingsTypes
  <2>. QED  BY <2>1, WrittenFile
<1>7. run[r].backup # run[r].temp
  BY <1>1, NamesDiffer
<1>8. RunFits(r)'
  BY <1>1, <1>2, <1>4, <1>6, <1>7 DEF RunFits, Active, Named
<1>. QED  BY <1>2, <1>3, <1>5, <1>8, WritesOn DEF Active

LEMMA WriteTempKeeps ==
  ASSUME SettingsInv, NEW r \in Runs, Desktop!WriteTemp(r)
  PROVE  SettingsInv'
<1>. USE DEF SettingsInv
<1>. DEFINE written == Desktop!Full(Desktop!Updated(run[r].read, run[r].surface))
<1>1. run[r].pc = "write" /\ UNCHANGED config /\ run[r].temp \in Temporaries
  BY DEF Desktop!WriteTemp, Desktop!At, RunFits
<1>2. CASE Desktop!Fail(r, {run[r].temp, run[r].backup})
  BY <1>1, <1>2, FailKeeps DEF Named
<1>3. CASE /\ files' = Desktop!With(run[r].temp, written)
           /\ run' = [run EXCEPT ![r] = [run[r] EXCEPT !.pc = "sync"]] /\ UNCHANGED lock
  <2>1. run[r].surface \in Surfaces /\ run[r].read \in Desktop!Documents
    BY <1>1 DEF RunFits, Active, Named
  <2>2. written \in FileStates /\ written.text \in Desktop!Documents
    BY <2>1, UpdatedIsDocument DEF FileStates, Desktop!Full
  <2>. HIDE DEF written
  <2>. QED  BY <1>1, <1>3, <2>2, WriteTempOn
<1>. QED  BY <1>2, <1>3 DEF Desktop!WriteTemp, Desktop!Go

LEMMA SyncTempKeeps ==
  ASSUME SettingsInv, NEW r \in Runs, Desktop!SyncTemp(r)
  PROVE  SettingsInv'
<1>. USE DEF SettingsInv
<1>1. run[r].pc = "sync" /\ UNCHANGED config /\ run[r].temp \in Temporaries
  BY DEF Desktop!SyncTemp, Desktop!At, RunFits
<1>2. CASE Desktop!Fail(r, {run[r].temp, run[r].backup})
  BY <1>1, <1>2, FailKeeps DEF Named
<1>3. CASE /\ files' = Desktop!With(run[r].temp, Desktop!Synced(r)) /\ UNCHANGED lock
           /\ run' = [run EXCEPT ![r] = [run[r] EXCEPT !.pc = "compare"]]
  <2>1. files[run[r].temp] \in FileStates /\ files[run[r].temp].text \in Desktop!Documents
    BY <1>1 DEF RunFits, SettingsTypes, FilesAreTyped
  <2>2. Desktop!Synced(r) \in FileStates /\ Desktop!Synced(r).text \in Desktop!Documents /\ Desktop!Synced(r).synced
    BY <2>1 DEF FileStates, Desktop!Synced
  <2>. QED  BY <1>1, <1>3, <2>2, WriteTempOn
<1>. QED  BY <1>2, <1>3 DEF Desktop!SyncTemp, Desktop!Go

LEMMA CompareTextsKeeps ==
  ASSUME SettingsInv, NEW r \in Runs, Desktop!Compare(r)
  PROVE  SettingsInv'
<1>. USE DEF SettingsInv
<1>. DEFINE new == [run[r] EXCEPT !.pc = "rename", !.edited = FALSE]
<1>1. run[r].pc = "compare" /\ UNCHANGED config /\ run[r].temp \in Temporaries
  BY DEF Desktop!Compare, Desktop!At, RunFits
<1>2. CASE Desktop!Fail(r, {run[r].temp, run[r].backup})
  BY <1>1, <1>2, FailKeeps DEF Named
<1>3. CASE config.text = run[r].read /\ run' = [run EXCEPT ![r] = new] /\ UNCHANGED <<files, lock>>
  <2>1. /\ run[r] \in RunStates /\ run[r].surface \in Surfaces /\ run[r].read \in Desktop!Documents
        /\ run[r].backup \in Backups /\ lock = r
    BY <1>1 DEF RunFits, Active, Named, SettingsTypes, HolderRuns
  <2>2. /\ new \in RunStates /\ new.pc = "rename" /\ new.surface = run[r].surface /\ new.read = run[r].read
        /\ new.backup = run[r].backup /\ new.temp = run[r].temp
    BY <2>1 DEF RunStates, Active
  <2>. HIDE DEF new
  <2>. QED  BY <1>1, <1>3, <2>1, <2>2, GoesOn DEF Active, Named
<1>. QED  BY <1>2, <1>3 DEF Desktop!Compare, Desktop!Go, Desktop!StillAsRead


LEMMA RenameKeeps ==
  ASSUME SettingsInv, NEW r \in Runs, Desktop!Rename(r)
  PROVE  SettingsInv'
<1>. USE DEF SettingsInv
<1>. DEFINE end == [Desktop!NewRun EXCEPT !.pc = "end"]
<1>1. run[r].pc = "rename" /\ run[r].temp \in Temporaries
  BY DEF Desktop!Rename, Desktop!At, RunFits
<1>2. CASE Desktop!Fail(r, {run[r].temp, run[r].backup}) /\ UNCHANGED config
  BY <1>1, <1>2, FailKeeps DEF Named
<1>3. CASE /\ config' = [text |-> files[run[r].temp].text, synced |-> files[run[r].temp].synced,
                         by |-> [read |-> run[r].read, backup |-> run[r].backup]]
           /\ files' = Desktop!Without({run[r].temp}) /\ Desktop!Finish(r)
  <2>1. /\ run[r].read \in Desktop!Documents /\ run[r].backup \in Backups
        /\ files[run[r].temp].text \in Desktop!Documents /\ files[run[r].temp].synced /\ run[r].temp \in DOMAIN files
        /\ run[r].backup \in DOMAIN files /\ files[run[r].backup].text = run[r].read /\ files[run[r].backup].synced
    BY <1>1 DEF RunFits, Named
  <2>2. files[run[r].temp].synced = TRUE /\ files[run[r].backup] \in FileStates
    BY <2>1 DEF SettingsTypes, FilesAreTyped, FileStates
  <2>3. files[run[r].backup] = [text |-> run[r].read, synced |-> TRUE]
    BY <2>1, <2>2 DEF FileStates
  <2>4. config' \in ConfigStates /\ config'.synced
    BY <1>3, <2>1, <2>2 DEF ConfigStates
  <2>5. run[r].backup # run[r].temp
    BY <1>1, <2>1, NamesDiffer
  <2>6. FilesAreTyped' /\ DOMAIN files' = DOMAIN files \ {run[r].temp} /\ \A m \in DOMAIN files' : files'[m] = files[m]
    BY <1>3 DEF SettingsTypes, FilesAreTyped, Desktop!Without
  <2>7. Desktop!ReplacementIsRecoverable'
    BY <1>3, <2>1, <2>3, <2>5, <2>6, SettingsConstants DEF Desktop!ReplacementIsRecoverable
  <2>8. lock = r
    BY <1>1 DEF HolderRuns, Active
  <2>9. lock' = None /\ run' = [run EXCEPT ![r] = end]
    BY <1>3, <2>8 DEF Desktop!Finish, Desktop!Go
  <2>10. end \in RunStates /\ end.pc = "end"
    BY NewRuns
  <2>. HIDE DEF end
  <2>11. run'[r] = end /\ run' \in [Runs -> RunStates] /\ \A i \in Runs : i # r => run'[i] = run[i]
    BY <2>9, <2>10 DEF SettingsTypes
  <2>12. \A i \in Runs : run'[i].pc \notin Active
    BY <2>8, <2>10, <2>11 DEF HolderRuns, Active
  <2>13. \A i \in Runs : RunFits(i)'
    BY <2>12 DEF RunFits, Active, Named
  <2>14. SettingsTypes' /\ HolderRuns'
    BY <2>4, <2>6, <2>9, <2>11, <2>12, SettingsConstants DEF SettingsTypes, HolderRuns
  <2>. QED  BY <2>7, <2>13, <2>14
<1>. QED  BY <1>2, <1>3 DEF Desktop!Rename

(* The editor knows nothing of the lock: a run about to rename notes that the file changed. *)
LEMMA EditKeeps ==
  ASSUME SettingsInv, Desktop!Edit
  PROVE  SettingsInv'
<1>. USE DEF SettingsInv
<1>1. PICK s \in Surfaces \cup {None, "odd", "absent"} :
        config' = [text |-> [config.text EXCEPT !.surface = s, !.rev = @ + 1], synced |-> TRUE, by |-> None]
  BY DEF Desktop!Edit
<1>2. config.text \in Desktop!Documents /\ config.text.rev < MaxSaves
  BY DEF Desktop!Edit, SettingsTypes, ConfigStates
<1>3. [config.text EXCEPT !.surface = s, !.rev = @ + 1] \in Desktop!Documents
  <2>. DEFINE d == config.text
  <2>1. d \in Desktop!Documents /\ d.rev + 1 \in 0..MaxSaves
    BY <1>2, SettingsConstants DEF Desktop!Documents
  <2>. HIDE DEF d
  <2>2. [d EXCEPT !.surface = s, !.rev = d.rev + 1] \in Desktop!Documents
    BY <2>1 DEF Desktop!Documents
  <2>. QED  BY <2>2 DEF d
<1>4. config' \in ConfigStates /\ config'.synced /\ config'.by = None /\ config'.text # None
  BY <1>1, <1>3, SettingsConstants DEF ConfigStates
<1>5. UNCHANGED <<files, lock>>
  BY DEF Desktop!Edit
<1>6. /\ run' = [i \in Runs |-> [run[i] EXCEPT !.edited = run[i].edited \/ run[i].pc = "rename"]]
      /\ \A i \in Runs : run[i] \in RunStates
  BY DEF Desktop!Edit, Desktop!At, SettingsTypes
<1>7. \A i \in Runs : /\ run'[i] \in RunStates /\ run'[i].pc = run[i].pc /\ run'[i].surface = run[i].surface
                      /\ run'[i].read = run[i].read /\ run'[i].backup = run[i].backup /\ run'[i].temp = run[i].temp
                      /\ run[i].pc = "rename" => run'[i].edited
  BY <1>6 DEF RunStates
<1>8. run' \in [Runs -> RunStates]
  BY <1>6, <1>7
<1>9. SettingsTypes' /\ HolderRuns'
  BY <1>4, <1>5, <1>7, <1>8 DEF SettingsTypes, FilesAreTyped, HolderRuns
<1>10. Desktop!ReplacementIsRecoverable'
  BY <1>4 DEF Desktop!ReplacementIsRecoverable
<1>11. ASSUME NEW i \in Runs
       PROVE  RunFits(i)'
  BY <1>4, <1>5, <1>7 DEF RunFits, Named
<1>. QED  BY <1>9, <1>10, <1>11

LEMMA KillKeeps ==
  ASSUME SettingsInv, NEW r \in Runs, Desktop!Kill(r)
  PROVE  SettingsInv'
<1>. USE DEF SettingsInv
<1>. DEFINE dead == [Desktop!NewRun EXCEPT !.pc = "killed", !.reused = run[r].reused]
<1>1. /\ run[r].pc \notin {"start", "end", "killed"} /\ run' = [run EXCEPT ![r] = dead]
      /\ lock' = (IF lock = r THEN None ELSE lock) /\ UNCHANGED <<config, files>>
  BY DEF Desktop!Kill, Desktop!Go
<1>2. run[r] \in RunStates /\ run[r].pc \in Active /\ lock = r
  BY <1>1 DEF SettingsTypes, RunStates, HolderRuns
<1>3. dead \in RunStates /\ dead.pc = "killed"
  BY <1>2, NewRuns DEF RunStates
<1>. HIDE DEF dead
<1>4. run' \in [Runs -> RunStates] /\ \A i \in Runs : run'[i].pc \notin Active
  BY <1>1, <1>2, <1>3 DEF SettingsTypes, HolderRuns, Active
<1>5. SettingsTypes' /\ HolderRuns'
  BY <1>1, <1>2, <1>4, SettingsConstants DEF SettingsTypes, FilesAreTyped, HolderRuns
<1>6. Desktop!ReplacementIsRecoverable' /\ \A i \in Runs : RunFits(i)'
  BY <1>1, <1>4 DEF Desktop!ReplacementIsRecoverable, RunFits, Active, Named
<1>. QED  BY <1>5, <1>6

LEMMA ReuseKeeps ==
  ASSUME SettingsInv, NEW r \in Runs, Desktop!Reuse(r)
  PROVE  SettingsInv'
<1>. USE DEF SettingsInv
<1>. DEFINE again == [Desktop!NewRun EXCEPT !.reused = TRUE]
<1>1. run[r].pc = "killed" /\ run' = [run EXCEPT ![r] = again] /\ UNCHANGED <<config, files, lock>>
  BY DEF Desktop!Reuse, Desktop!Go, Desktop!At
<1>2. again \in RunStates /\ again.pc = "start"
  BY NewRuns DEF RunStates
<1>. HIDE DEF again
<1>3. run' \in [Runs -> RunStates] /\ run'[r].pc = "start" /\ \A i \in Runs : i # r => run'[i] = run[i]
  BY <1>1, <1>2 DEF SettingsTypes
<1>4. SettingsTypes' /\ HolderRuns'
  BY <1>1, <1>3 DEF SettingsTypes, FilesAreTyped, HolderRuns, Active
<1>5. ASSUME NEW i \in Runs
      PROVE  RunFits(i)'
  BY <1>1, <1>3 DEF RunFits, Active, Named
<1>6. Desktop!ReplacementIsRecoverable'
  BY <1>1 DEF Desktop!ReplacementIsRecoverable
<1>. QED  BY <1>4, <1>5, <1>6

(* The power takes every run and what was not flushed, and nothing the settings need. *)
LEMMA PowerLossKeeps ==
  ASSUME SettingsInv, Desktop!PowerLoss
  PROVE  SettingsInv'
<1>. USE DEF SettingsInv
<1>. DEFINE end == [Desktop!NewRun EXCEPT !.pc = "end"]
<1>1. /\ config' = Desktop!Lost(config) /\ files' = [n \in DOMAIN files |-> Desktop!Lost(files[n])]
      /\ run' = [i \in Runs |-> end] /\ lock' = None
  BY DEF Desktop!PowerLoss
<1>2. config' = config
  BY <1>1 DEF SettingsTypes, Desktop!Lost
<1>3. end \in RunStates /\ end.pc = "end"
  BY NewRuns
<1>. HIDE DEF end
<1>4. \A g \in FileStates : Desktop!Lost(g) \in FileStates /\ (g.synced => Desktop!Lost(g) = g)
  BY DEF FileStates, Desktop!Lost
<1>5. \A n \in DOMAIN files : files[n] \in FileStates
  BY DEF SettingsTypes, FilesAreTyped
<1>6. FilesAreTyped' /\ DOMAIN files' = DOMAIN files /\ \A n \in DOMAIN files : files[n].synced => files'[n] = files[n]
  BY <1>1, <1>4, <1>5 DEF FilesAreTyped
<1>7. run' \in [Runs -> RunStates] /\ \A i \in Runs : run'[i].pc \notin Active
  BY <1>1, <1>3 DEF Active
<1>8. SettingsTypes' /\ HolderRuns'
  BY <1>1, <1>2, <1>6, <1>7, SettingsConstants DEF SettingsTypes, HolderRuns
<1>9. Desktop!ReplacementIsRecoverable' /\ \A i \in Runs : RunFits(i)'
  BY <1>2, <1>6, <1>7 DEF Desktop!ReplacementIsRecoverable, RunFits, Active, Named
<1>. QED  BY <1>8, <1>9

LEMMA SettingsSteps ==
  ASSUME SettingsInv, Desktop!Next
  PROVE  SettingsInv'
<1>1. ASSUME NEW r \in Runs, Desktop!Step(r)
      PROVE  SettingsInv'
  BY <1>1, StartRunKeeps, ReadSettingsKeeps, BackupNameKeeps, CreateBackupKeeps, KeepBackupKeeps,
     CreateTempKeeps,
     WriteTempKeeps, SyncTempKeeps, CompareTextsKeeps, RenameKeeps DEF Desktop!Step
<1>. QED  BY <1>1, EditKeeps, PowerLossKeeps, KillKeeps, ReuseKeeps DEF Desktop!Next

LEMMA SettingsStay ==
  ASSUME SettingsInv, UNCHANGED settings
  PROVE  SettingsInv'
BY DEF SettingsInv, SettingsTypes, FilesAreTyped, HolderRuns, RunFits,
   Desktop!ReplacementIsRecoverable, settings

LEMMA AllSettingsStep == AllSettingsInv /\ [MCNext]_everything => AllSettingsInv'
<1>. SUFFICES ASSUME AllSettingsInv, [MCNext]_everything, part' = "desktop" PROVE SettingsInv'
  BY DEF AllSettingsInv
<1>1. part = "desktop" /\ SettingsInv
  BY EachPartAlone DEF AllSettingsInv
<1>2. Desktop!Next \/ UNCHANGED settings
  BY <1>1, EachPartAlone
<1>. QED  BY <1>1, <1>2, SettingsSteps, SettingsStay

LEMMA SettingsHaveTypes ==
  ASSUME SettingsInv
  PROVE  Desktop!TypeOK
<1>1. config.text \in Desktop!Documents /\ config.synced \in BOOLEAN
  BY DEF SettingsInv, SettingsTypes, ConfigStates
<1>2. \A r \in Runs : run[r].read \in Desktop!Documents \cup {None} /\ run[r].try \in 0..MaxTries
  BY DEF SettingsInv, SettingsTypes, RunStates
<1>. QED  BY <1>1, <1>2 DEF SettingsInv, SettingsTypes, FilesAreTyped, FileStates, Desktop!TypeOK

LEMMA NoEditIsLost ==
  ASSUME SettingsInv
  PROVE  Desktop!LosesNoEdit
BY DEF SettingsInv, RunFits, Desktop!LosesNoEdit, Desktop!At

(* Claude Desktop's settings survive every kill and every power loss, each replacement leaves a *)
(* whole backup of what it replaced on the disk, and only an edit saved after the last look at  *)
(* the file can be lost (run, write_backup, write_atomic_preserving_permissions,                *)
(* configure_claude_desktop.rs).                                                                *)
THEOREM SettingsSurviveEverything == MCSpec => SettingsSurvive
<1>1. MCInit => AllSettingsInv
  BY SettingsStart DEF MCInit, AllSettingsInv
<1>2. AllSettingsInv => (part = "desktop" => Desktop!TypeOK /\ Desktop!ReplacementIsRecoverable)
  BY SettingsHaveTypes DEF AllSettingsInv, SettingsInv
<1>3. AllSettingsInv /\ [MCNext]_everything => [part = "desktop" => Desktop!LosesNoEdit]_settings
  BY NoEditIsLost DEF AllSettingsInv
<1>. QED  BY <1>1, <1>2, <1>3, AllSettingsStep, PTL DEF MCSpec, SettingsSurvive

-----------------------------------------------------------------------------
(* The bracketed runs.                                                     *)

RunArgs == programs.args
BracketTypes ==
  /\ work \in Bracket!Files /\ head \in Bracket!Files /\ start.file \in Bracket!Files
  /\ programs = None \/ programs \in Bracket!Steps
  /\ exits \in Seq(Bracket!Ends) /\ reply \in {None, "plan", "refused", "failed", "ok"}
  /\ committed \subseteq Sources

(* There are as many exits as commands that ended, and a reply when all is done. *)
ExitsFit ==
  IF programs = None THEN exits = <<>> /\ reply = None
  ELSE /\ Len(exits) <= RunArgs.commands
       /\ programs.pc \in {"gate", "before"} => exits = <<>>
       /\ programs.pc = "run" => Len(exits) < RunArgs.commands
       /\ programs.pc # "done" => reply = None

(* What was clean at the look before, and has not been committed since, is at HEAD as it was, *)
(* and the status of that look still tells what the file was then.                            *)
LookKept ==
  programs # None /\ programs.pc \in {"run", "after"} /\ RunArgs.tool \notin Bracket!Unbracketed =>
    \A p \in Sources \ committed : /\ p \notin RunArgs.allowed => start.file[p] = head[p]
                                   /\ start.status[p] = Bracket!Code(start.file[p], head[p])

BracketInv == BracketTypes /\ ExitsFit /\ LookKept /\ Bracket!SuccessIsConfined
BracketsInv == part = "bracket" => BracketInv

LEMMA StatusConstants == /\ None \notin Bracket!Steps
                         /\ None \notin {"untracked", "deleted", "modified", "plan", "refused", "failed", "ok"}
BY PartsAreSane DEF Bracket!ConstantsAreSane

LEMMA CodeOfClean ==
  ASSUME NEW y, NEW z
  PROVE  Bracket!Code(y, z) = None <=> y = z
BY StatusConstants DEF Bracket!Code

LEMMA CallTypes ==
  ASSUME NEW c \in Bracket!BracketedCalls
  PROVE  c.commands \in {1, 2} /\ c.tool \in Bracket!Tools
BY DEF Bracket!BracketedCalls, Bracket!Generations, Bracket!Setups, Bracket!Builds, Bracket!ImageChecks,
   Bracket!DeviceCalls, Bracket!Tools, Bracket!Unbracketed, Bracket!Device

LEMMA BracketStarts ==
  ASSUME Bracket!Init
  PROVE  BracketInv
BY StatusConstants DEF Bracket!Init, BracketInv, BracketTypes, ExitsFit, LookKept,
   Bracket!SuccessIsConfined, Bracket!Ok

LEMMA BeginsKeepBracket ==
  ASSUME BracketInv, Bracket!Begin
  PROVE  BracketInv'
<1>. USE DEF BracketInv
<1>1. PICK c \in Bracket!BracketedCalls : programs = None /\ programs' = [pc |-> "gate", args |-> c]
                /\ UNCHANGED <<exits, start, reply, work, head, committed, others>>
  BY DEF Bracket!Begin, Bracket!tree
<1>2. /\ programs' \in Bracket!Steps
      /\ programs'.pc = "gate" /\ programs'.args = c
  BY <1>1 DEF Bracket!Steps
<1>3. exits = <<>> /\ reply = None
  BY <1>1 DEF ExitsFit
<1>4. BracketTypes'
  BY <1>1, <1>2 DEF BracketTypes
<1>5. ExitsFit' /\ LookKept'
  BY <1>1, <1>2, <1>3, CallTypes DEF ExitsFit, LookKept, RunArgs
<1>6. Bracket!SuccessIsConfined'
  BY <1>1, <1>3, StatusConstants DEF Bracket!SuccessIsConfined, Bracket!Ok
<1>. QED  BY <1>4, <1>5, <1>6

(* A call under way, and a step of it. *)
LEMMA UnderWay ==
  ASSUME BracketInv, NEW tools, NEW s, Bracket!At(tools, s)
  PROVE  /\ programs \in Bracket!Steps
         /\ programs # None /\ programs.pc = s /\ RunArgs \in Bracket!BracketedCalls /\ RunArgs.tool \in tools
BY DEF BracketInv, BracketTypes, Bracket!At, RunArgs, Bracket!Steps

LEMMA StepEffect ==
  ASSUME BracketInv, NEW tools, NEW s, Bracket!At(tools, s), NEW t \in {"gate", "before", "run", "after", "done"},
         Bracket!Step(t)
  PROVE  /\ programs' \in Bracket!Steps
         /\ programs' # None /\ programs'.pc = t /\ RunArgs' = RunArgs
<1>1. programs \in Bracket!Steps /\ programs' = [programs EXCEPT !.pc = t]
  BY UnderWay DEF Bracket!Step
<1>2. programs' \in Bracket!Steps /\ programs'.pc = t /\ programs'.args = programs.args
  BY <1>1 DEF Bracket!Steps
<1>. QED  BY <1>2, StatusConstants DEF RunArgs

(* A reply that is no success. *)
LEMMA RefusalKeeps ==
  ASSUME BracketInv, NEW tools, NEW s, Bracket!At(tools, s), NEW r \in {"plan", "refused", "failed"}, Bracket!Reply(r)
  PROVE  BracketInv'
<1>. USE DEF BracketInv
<1>1. Bracket!Step("done") /\ reply' = r /\ UNCHANGED <<exits, start, work, head, committed, others>>
  BY DEF Bracket!Reply, Bracket!tree
<1>2. /\ programs' \in Bracket!Steps
      /\ programs' # None /\ programs'.pc = "done" /\ RunArgs' = RunArgs
  BY <1>1, StepEffect
<1>3. BracketTypes' /\ ExitsFit' /\ LookKept'
  BY <1>1, <1>2, UnderWay DEF BracketTypes, ExitsFit, LookKept, Bracket!Steps
<1>4. Bracket!SuccessIsConfined'
  BY <1>1, StatusConstants DEF Bracket!SuccessIsConfined, Bracket!Ok
<1>. QED  BY <1>3, <1>4
LEMMA GateKeeps ==
  ASSUME BracketInv, Bracket!Gate
  PROVE  BracketInv'
<1>. USE DEF BracketInv
<1>1. Bracket!At(Bracket!Tools, "gate")
  BY DEF Bracket!Gate
<1>2. CASE Bracket!Reply("refused") \/ Bracket!Reply("plan")
  BY <1>1, <1>2, RefusalKeeps
<1>3. ASSUME NEW t \in {"run", "before"}, Bracket!Step(t), t = "run" => RunArgs.tool \in Bracket!Unbracketed,
             UNCHANGED <<exits, start, reply, work, head, committed, others>>
      PROVE  BracketInv'
  <2>1. programs' \in Bracket!Steps /\ programs' # None /\ programs'.pc = t /\ RunArgs' = RunArgs
    BY <1>1, <1>3, StepEffect
  <2>2. exits = <<>> /\ reply = None /\ RunArgs.commands \in {1, 2}
    BY <1>1, UnderWay, CallTypes DEF ExitsFit
  <2>3. BracketTypes'
    BY <1>3, <2>1 DEF BracketTypes
  <2>4. ExitsFit'
    BY <1>3, <2>1, <2>2 DEF ExitsFit
  <2>5. LookKept'
    BY <1>3, <2>1 DEF LookKept
  <2>6. Bracket!SuccessIsConfined'
    BY <1>3, <2>2, StatusConstants DEF Bracket!SuccessIsConfined, Bracket!Ok
  <2>. QED  BY <2>3, <2>4, <2>5, <2>6
<1>. QED  BY <1>2, <1>3 DEF Bracket!Gate, Bracket!tree, RunArgs

LEMMA LookBeforeKeeps ==
  ASSUME BracketInv, Bracket!LookBefore
  PROVE  BracketInv'
<1>. USE DEF BracketInv
<1>1. Bracket!At(Bracket!Tools, "before")
  BY DEF Bracket!LookBefore
<1>2. CASE Bracket!Reply("refused") \/ Bracket!Reply("plan")
  BY <1>1, <1>2, RefusalKeeps
<1>3. CASE /\ Bracket!UnexpectedBefore = {} /\ Bracket!Step("run")
           /\ start' = [file |-> work, status |-> Bracket!StatusShort] /\ committed' = {}
           /\ UNCHANGED <<exits, reply, work, head, others>>
  <2>1. programs' \in Bracket!Steps /\ programs' # None /\ programs'.pc = "run" /\ RunArgs' = RunArgs
    BY <1>1, <1>3, StepEffect
  <2>2. exits = <<>> /\ reply = None /\ RunArgs.commands \in {1, 2}
    BY <1>1, UnderWay, CallTypes DEF ExitsFit
  <2>3. start'.file = work /\ start'.status = Bracket!StatusShort
    BY <1>3
  <2>4. BracketTypes'
    BY <1>3, <2>1, <2>3 DEF BracketTypes
  <2>5. ExitsFit'
    BY <1>3, <2>1, <2>2 DEF ExitsFit
  <2>6. \A p \in Sources : /\ p \notin RunArgs.allowed => work[p] = head[p]
                           /\ Bracket!StatusShort[p] = Bracket!Code(work[p], head[p])
    BY <1>3 DEF Bracket!UnexpectedBefore, Bracket!StatusPaths, Bracket!StatusShort, RunArgs
  <2>7. LookKept'
    BY <1>3, <2>1, <2>3, <2>6 DEF LookKept
  <2>8. Bracket!SuccessIsConfined'
    BY <1>3, <2>2, StatusConstants DEF Bracket!SuccessIsConfined, Bracket!Ok
  <2>. QED  BY <2>4, <2>5, <2>7, <2>8
<1>. QED  BY <1>2, <1>3 DEF Bracket!LookBefore

(* The program and the editor write, and the user commits. *)
LEMMA WritesKeep ==
  ASSUME BracketInv, programs # None, programs.pc # "done", work' \in Bracket!Files,
         UNCHANGED <<head, committed, programs, exits, start, reply>>
  PROVE  BracketInv'
<1>. USE DEF BracketInv
<1>1. reply = None
  BY DEF ExitsFit
<1>2. BracketTypes' /\ ExitsFit' /\ LookKept'
  BY DEF BracketTypes, ExitsFit, LookKept, RunArgs
<1>3. Bracket!SuccessIsConfined'
  BY <1>1, StatusConstants DEF Bracket!SuccessIsConfined, Bracket!Ok
<1>. QED  BY <1>2, <1>3

LEMMA ProgramWritesKeeps ==
  ASSUME BracketInv, Bracket!ProgramWrites \/ Bracket!UserEdits
  PROVE  BracketInv'
<1>1. programs # None /\ programs.pc # "done" /\ UNCHANGED <<head, committed, programs, exits, start, reply>>
  BY DEF Bracket!ProgramWrites, Bracket!UserEdits, Bracket!Others, Bracket!At
<1>2. work' \in Bracket!Files
  BY DEF Bracket!ProgramWrites, Bracket!UserEdits, BracketInv, BracketTypes, Bracket!Files
<1>. QED  BY <1>1, <1>2, WritesKeep

LEMMA UserCommitsKeeps ==
  ASSUME BracketInv, Bracket!UserCommits
  PROVE  BracketInv'
<1>. USE DEF BracketInv
<1>1. PICK p \in Sources : /\ head' = [head EXCEPT ![p] = work[p]] /\ committed' = committed \cup {p}
                           /\ programs # None /\ programs.pc # "done"
                           /\ UNCHANGED <<work, programs, exits, start, reply>>
  BY DEF Bracket!UserCommits, Bracket!Others, Bracket!StatusPaths
<1>2. reply = None
  BY <1>1 DEF ExitsFit
<1>3. \A q \in Sources \ committed' : head'[q] = head[q]
  BY <1>1 DEF BracketTypes, Bracket!Files
<1>4. BracketTypes' /\ ExitsFit'
  BY <1>1 DEF BracketTypes, ExitsFit, RunArgs, Bracket!Files
<1>5. LookKept'
  BY <1>1, <1>3 DEF LookKept, RunArgs
<1>6. Bracket!SuccessIsConfined'
  BY <1>1, <1>2, StatusConstants DEF Bracket!SuccessIsConfined, Bracket!Ok
<1>. QED  BY <1>4, <1>5, <1>6

LEMMA ProgramEndsKeeps ==
  ASSUME BracketInv, Bracket!ProgramEnds
  PROVE  BracketInv'
<1>. USE DEF BracketInv
<1>1. PICK e \in Bracket!Ends, t \in {"done", "run", "after"} :
        /\ Bracket!At(Bracket!Tools, "run") /\ exits' = Append(exits, e) /\ Bracket!Step(t)
        /\ t = "done" => reply' = "refused"
        /\ t # "done" => UNCHANGED reply
        /\ t = "run" => Len(exits') < RunArgs.commands
        /\ UNCHANGED <<start, work, head, committed, others>>
  BY DEF Bracket!ProgramEnds, Bracket!tree, RunArgs
<1>2. programs' \in Bracket!Steps /\ programs' # None /\ programs'.pc = t /\ RunArgs' = RunArgs
  BY <1>1, StepEffect
<1>3. exits \in Seq(Bracket!Ends) /\ exits' \in Seq(Bracket!Ends) /\ Len(exits') = Len(exits) + 1
  BY <1>1 DEF BracketTypes
<1>4. Len(exits) < RunArgs.commands /\ reply = None /\ programs # None /\ programs.pc = "run" /\ RunArgs.commands \in {1, 2}
  BY <1>1, UnderWay, CallTypes DEF ExitsFit
<1>5. Len(exits) \in Nat
  BY <1>3
<1>6. BracketTypes'
  BY <1>1, <1>2, <1>3, <1>4 DEF BracketTypes
<1>7. ExitsFit'
  BY <1>1, <1>2, <1>3, <1>4, <1>5 DEF ExitsFit
<1>8. LookKept'
  BY <1>1, <1>2, <1>4 DEF LookKept
<1>9. Bracket!SuccessIsConfined'
  BY <1>1, <1>4, StatusConstants DEF Bracket!SuccessIsConfined, Bracket!Ok
<1>. QED  BY <1>6, <1>7, <1>8, <1>9

LEMMA CannotRunKeeps ==
  ASSUME BracketInv, Bracket!CannotRun
  PROVE  BracketInv'
BY RefusalKeeps DEF Bracket!CannotRun

(* A success is told from what the look after, or the exits, show. *)
LEMMA SuccessKeeps ==
  ASSUME BracketInv, NEW tools, Bracket!At(tools, "after"), Bracket!Reply("ok"),
         RunArgs.tool \notin Bracket!ByOutput => \A n \in DOMAIN exits : exits[n].zero,
         RunArgs.tool \notin Bracket!Unbracketed =>
           \A p \in Bracket!Changed : IF RunArgs.tool = "build" THEN start.status[p] # None
                                      ELSE p \in RunArgs.allowed \cup RunArgs.declared
  PROVE  BracketInv'
<1>. USE DEF BracketInv
<1>1. Bracket!Step("done") /\ reply' = "ok" /\ UNCHANGED <<exits, start, work, head, committed, others>>
  BY DEF Bracket!Reply, Bracket!tree
<1>2. programs' \in Bracket!Steps /\ programs' # None /\ programs'.pc = "done" /\ RunArgs' = RunArgs
  BY <1>1, StepEffect
<1>3. BracketTypes' /\ LookKept'
  BY <1>1, <1>2 DEF BracketTypes, LookKept
<1>4. ExitsFit'
  BY <1>1, <1>2, UnderWay DEF ExitsFit
<1>5. Bracket!Changed' = Bracket!Changed
  BY <1>1 DEF Bracket!Changed
<1>6. Bracket!SuccessIsConfined'
  BY <1>1, <1>2, <1>5 DEF Bracket!SuccessIsConfined, Bracket!Ok, RunArgs
<1>. QED  BY <1>3, <1>4, <1>6

LEMMA LookAfterKeeps ==
  ASSUME BracketInv, Bracket!LookAfter
  PROVE  BracketInv'
<1>1. Bracket!At({"generate", "setup"}, "after")
  BY DEF Bracket!LookAfter
<1>2. CASE Bracket!Reply("refused") \/ Bracket!Reply("failed")
  BY <1>1, <1>2, RefusalKeeps
<1>3. CASE Bracket!Reply("ok") /\ Bracket!Unauthorized = {} /\ (RunArgs.tool = "setup" => Bracket!Succeeded)
  <2>1. /\ programs # None /\ programs.pc = "after" /\ RunArgs.tool \in {"generate", "setup"}
    BY <1>1, UnderWay
  <2>2. RunArgs.tool \notin Bracket!Unbracketed /\ RunArgs.tool # "build"
    BY <2>1 DEF Bracket!Unbracketed, Bracket!Device
  <2>3. ASSUME NEW p \in Bracket!Changed
        PROVE  p \in RunArgs.allowed \cup RunArgs.declared
    <3>1. p \in Sources \ committed /\ work[p] # start.file[p]
      BY <2>3 DEF Bracket!Changed
    <3>2. p \notin RunArgs.allowed => start.file[p] = head[p]
      BY <2>1, <2>2, <3>1 DEF BracketInv, LookKept
    <3>3. work[p] # head[p] => p \in RunArgs.allowed \cup RunArgs.declared
      BY <1>3, <3>1 DEF Bracket!Unauthorized, Bracket!StatusPaths, RunArgs
    <3>. QED  BY <3>1, <3>2, <3>3
  <2>4. RunArgs.tool \notin Bracket!ByOutput => \A n \in DOMAIN exits : exits[n].zero
    BY <1>3, <2>1 DEF Bracket!ByOutput, Bracket!Succeeded
  <2>. QED  BY <1>1, <1>3, <2>2, <2>3, <2>4, SuccessKeeps
<1>. QED  BY <1>2, <1>3 DEF Bracket!LookAfter, RunArgs

LEMMA BuildEndsKeeps ==
  ASSUME BracketInv, Bracket!BuildEnds
  PROVE  BracketInv'
<1>1. Bracket!At({"build"}, "after")
  BY DEF Bracket!BuildEnds
<1>2. CASE Bracket!Reply("refused") \/ Bracket!Reply("failed")
  BY <1>1, <1>2, RefusalKeeps
<1>3. CASE Bracket!Reply("ok") /\ Bracket!StatusShort = start.status /\ Bracket!Succeeded
  <2>1. programs # None /\ programs.pc = "after" /\ RunArgs.tool = "build"
    BY <1>1, UnderWay
  <2>2. RunArgs.tool \notin Bracket!Unbracketed
    BY <2>1 DEF Bracket!Unbracketed, Bracket!Device
  <2>3. ASSUME NEW p \in Bracket!Changed
        PROVE  start.status[p] # None
    <3>1. p \in Sources \ committed /\ work[p] # start.file[p]
      BY <2>3 DEF Bracket!Changed
    <3>2. start.status[p] = Bracket!Code(start.file[p], head[p])
      BY <2>1, <2>2, <3>1 DEF BracketInv, LookKept
    <3>3. start.status[p] = Bracket!Code(work[p], head[p])
      BY <1>3, <3>1 DEF Bracket!StatusShort
    <3>. QED  BY <3>1, <3>2, <3>3, CodeOfClean
  <2>. QED  BY <1>1, <1>3, <2>1, <2>3, SuccessKeeps DEF Bracket!Succeeded
<1>. QED  BY <1>2, <1>3 DEF Bracket!BuildEnds

LEMMA CheckEndsKeeps ==
  ASSUME BracketInv, Bracket!CheckEnds \/ Bracket!DeviceEnds
  PROVE  BracketInv'
<1>1. CASE Bracket!CheckEnds
  BY <1>1, UnderWay, SuccessKeeps DEF Bracket!CheckEnds, Bracket!ByOutput, Bracket!Unbracketed
<1>2. CASE Bracket!DeviceEnds
  <2>1. Bracket!At(Bracket!Device, "after") /\ RunArgs.tool \in Bracket!Unbracketed
    BY <1>2, UnderWay DEF Bracket!DeviceEnds, Bracket!Unbracketed
  <2>. QED  BY <1>2, <2>1, RefusalKeeps, SuccessKeeps DEF Bracket!DeviceEnds, Bracket!Succeeded
<1>. QED  BY <1>1, <1>2

LEMMA BracketSteps ==
  ASSUME BracketInv, Bracket!Next
  PROVE  BracketInv'
BY BeginsKeepBracket, GateKeeps, LookBeforeKeeps, ProgramWritesKeeps, ProgramEndsKeeps, CannotRunKeeps,
   LookAfterKeeps,
   BuildEndsKeeps, CheckEndsKeeps, UserCommitsKeeps DEF Bracket!Next

LEMMA BracketStays ==
  ASSUME BracketInv, UNCHANGED brackets
  PROVE  BracketInv'
BY DEF BracketInv, brackets, BracketTypes, ExitsFit, LookKept, RunArgs, Bracket!SuccessIsConfined,
   Bracket!Ok, Bracket!Changed

LEMMA BracketsStep == BracketsInv /\ [MCNext]_everything => BracketsInv'
<1>. SUFFICES ASSUME BracketsInv, [MCNext]_everything, part' = "bracket" PROVE BracketInv'
  BY DEF BracketsInv
<1>1. part = "bracket" /\ BracketInv
  BY EachPartAlone DEF BracketsInv
<1>2. Bracket!Next \/ UNCHANGED brackets
  BY <1>1, EachPartAlone
<1>. QED  BY <1>1, <1>2, BracketSteps, BracketStays

LEMMA BracketsHaveTypes ==
  ASSUME BracketInv
  PROVE  Bracket!TypeOK
BY DEF BracketInv, BracketTypes, ExitsFit, RunArgs, Bracket!TypeOK

-----------------------------------------------------------------------------
(* The fixture manifests.                                                  *)

Readings == UNION {[S -> Texts] : S \in SUBSET Sources}
CheckStates == [tool : {"verify", "refresh"}, pc : {"open", "list", "hash", "done"}, scope : Fixture!Scopes,
                expected : {None, Odd} \cup Fixture!Digests, todo : SUBSET Sources, got : Readings]
FixtureTypes ==
  /\ fixture \in [Sources -> Texts \cup {None}] /\ manifest \in {None, Odd} \cup Fixture!Digests
  /\ verdict \in {None, "verified", "mismatch"} /\ fresh \in Fixture!Scopes \cup {None}
  /\ check = Fixture!Idle \/ check \in CheckStates
  /\ had \in [Sources -> SUBSET (Texts \cup {None})] /\ \A p \in Sources : fixture[p] \in had[p]

(* A reading is what the file contained during the call, and misses nothing while nothing changed. *)
ReadingsFit ==
  /\ check.pc \in {"open", "list"} => DOMAIN check.got = {}
  /\ check.pc \in {"hash", "done"} => \A p \in DOMAIN check.got : check.got[p] \in had[p]
  /\ check.pc = "hash" /\ Fixture!Unchanged =>
       check.todo \cup DOMAIN check.got = Fixture!Present(check.scope.paths \cup check.scope.beneath)

(* The manifest a verification read is still the one there is: a call at a time. *)
ExpectationFits ==
  check.pc \in {"list", "hash"} /\ check.tool = "verify" => check.expected \in Fixture!Digests /\ check.expected = manifest

(* A fresh manifest lists what there is. *)
FreshFits ==
  fresh # None =>
    /\ Fixture!Unchanged
    /\ manifest \in Fixture!Digests => /\ DOMAIN manifest = Fixture!Present(fresh.paths \cup fresh.beneath)
                                       /\ \A p \in DOMAIN manifest : manifest[p] = fixture[p]

FixtureInv == FixtureTypes /\ ReadingsFit /\ ExpectationFits /\ FreshFits /\ Fixture!HonestVerdict
FixturesInv == part = "fixture" => FixtureInv

LEMMA FixtureConstants ==
  /\ None \notin Texts /\ None \notin {"verified", "mismatch"} /\ None # Odd
  /\ None \notin Fixture!Digests /\ Odd \notin Fixture!Digests /\ None \notin Fixture!Scopes
<1>1. \A S \in SUBSET Sources : None \notin [S -> Texts] /\ Odd \notin [S -> Texts]
  BY PartsAreSane DEF Fixture!ConstantsAreSane
<1>2. None \notin Fixture!Digests /\ Odd \notin Fixture!Digests
  BY <1>1 DEF Fixture!Digests
<1>. QED  BY <1>2, PartsAreSane DEF Fixture!ConstantsAreSane, Fixture!Scopes

LEMMA FixtureStarts ==
  ASSUME Fixture!Init
  PROVE  FixtureInv
<1>1. /\ fixture \in [Sources -> Texts \cup {None}] /\ manifest \in {None, Odd}
      /\ check = Fixture!Idle /\ verdict = None /\ fresh = None /\ had = [p \in Sources |-> {fixture[p]}]
  BY DEF Fixture!Init
<1>2. check.pc = "none"
  BY <1>1 DEF Fixture!Idle
<1>. QED  BY <1>1, <1>2 DEF FixtureInv, FixtureTypes, ReadingsFit, ExpectationFits, FreshFits,
             Fixture!HonestVerdict, Fixture!At

(* A call under way. *)
LEMMA CallIsTyped ==
  ASSUME FixtureInv, NEW s \in {"open", "list", "hash", "done"}, check.pc = s
  PROVE  check \in CheckStates
BY DEF FixtureInv, FixtureTypes, Fixture!Idle

LEMMA BeginsKeepFixture ==
  ASSUME FixtureInv, Fixture!Begin
  PROVE  FixtureInv'
<1>. USE DEF FixtureInv
<1>1. PICK s \in Fixture!Scopes, t \in {"verify", "refresh"} :
        /\ check' = [tool |-> t, pc |-> "open", scope |-> s, expected |-> None, todo |-> {}, got |-> <<>>]
        /\ UNCHANGED <<fixture, manifest, verdict, had, fresh, rewrites>>
  BY DEF Fixture!Begin
<1>2. <<>> \in Readings /\ DOMAIN <<>> = {}
  <2>1. <<>> \in [{} -> Texts] /\ {} \in SUBSET Sources
    OBVIOUS
  <2>. QED  BY <2>1 DEF Readings
<1>3. check' \in CheckStates /\ check'.pc = "open" /\ DOMAIN check'.got = {}
  BY <1>1, <1>2 DEF CheckStates
<1>4. FixtureTypes'
  BY <1>1, <1>3 DEF FixtureTypes
<1>5. ReadingsFit' /\ ExpectationFits' /\ Fixture!HonestVerdict'
  BY <1>3 DEF ReadingsFit, ExpectationFits, Fixture!HonestVerdict, Fixture!At
<1>6. FreshFits'
  BY <1>1 DEF FreshFits, Fixture!Unchanged, Fixture!Present
<1>. QED  BY <1>4, <1>5, <1>6

(* The end of a call. *)
LEMMA RefusesKeep ==
  ASSUME FixtureInv, Fixture!Refuse
  PROVE  FixtureInv'
<1>. USE DEF FixtureInv
<1>1. /\ check' = Fixture!Idle /\ verdict' = None /\ had' = [p \in Sources |-> {fixture[p]}]
      /\ UNCHANGED <<fixture, manifest, fresh>>
  BY DEF Fixture!Refuse, Fixture!Over
<1>2. check'.pc = "none"
  BY <1>1 DEF Fixture!Idle
<1>3. FixtureTypes'
  BY <1>1 DEF FixtureTypes
<1>4. ReadingsFit' /\ ExpectationFits' /\ Fixture!HonestVerdict'
  BY <1>2 DEF ReadingsFit, ExpectationFits, Fixture!HonestVerdict, Fixture!At
<1>5. FreshFits'
  BY <1>1 DEF FreshFits, Fixture!Unchanged, Fixture!Present
<1>. QED  BY <1>3, <1>4, <1>5

LEMMA OpenManifestKeeps ==
  ASSUME FixtureInv, Fixture!Open
  PROVE  FixtureInv'
<1>. USE DEF FixtureInv
<1>1. CASE Fixture!Refuse
  BY <1>1, RefusesKeep
<1>2. CASE /\ check.pc = "open" /\ (check.tool = "verify" => manifest \in Fixture!Digests)
           /\ Fixture!Go("list", [check EXCEPT !.expected = manifest])
  <2>1. /\ check' = [[check EXCEPT !.expected = manifest] EXCEPT !.pc = "list"]
        /\ UNCHANGED <<fixture, manifest, verdict, had, fresh>>
    BY <1>2 DEF Fixture!Go
  <2>2. check \in CheckStates /\ manifest \in {None, Odd} \cup Fixture!Digests
    BY <1>2, CallIsTyped DEF FixtureTypes
  <2>3. /\ check' \in CheckStates /\ check'.pc = "list" /\ check'.tool = check.tool /\ check'.expected = manifest
        /\ check'.got = check.got
    BY <2>1, <2>2 DEF CheckStates
  <2>4. FixtureTypes'
    BY <2>1, <2>3 DEF FixtureTypes
  <2>5. ReadingsFit' /\ ExpectationFits' /\ Fixture!HonestVerdict'
    BY <1>2, <2>1, <2>3 DEF ReadingsFit, ExpectationFits, Fixture!HonestVerdict, Fixture!At
  <2>6. FreshFits'
    BY <2>1 DEF FreshFits, Fixture!Unchanged, Fixture!Present
  <2>. QED  BY <2>4, <2>5, <2>6
<1>. QED  BY <1>1, <1>2 DEF Fixture!Open, Fixture!At

LEMMA ListsKeep ==
  ASSUME FixtureInv, Fixture!List
  PROVE  FixtureInv'
<1>. USE DEF FixtureInv
<1>. DEFINE found == Fixture!Present(check.scope.paths \cup check.scope.beneath)
<1>1. CASE Fixture!Refuse
  BY <1>1, RefusesKeep
<1>2. CASE check.pc = "list" /\ Fixture!Go("hash", [check EXCEPT !.todo = found])
  <2>1. /\ check' = [[check EXCEPT !.todo = found] EXCEPT !.pc = "hash"]
        /\ UNCHANGED <<fixture, manifest, verdict, had, fresh>>
    BY <1>2 DEF Fixture!Go
  <2>2. check \in CheckStates /\ DOMAIN check.got = {}
    BY <1>2, CallIsTyped DEF ReadingsFit
  <2>3. found \subseteq Sources
    BY <2>2 DEF CheckStates, Fixture!Scopes, Fixture!Present
  <2>6. /\ check' \in CheckStates /\ check'.pc = "hash" /\ check'.tool = check.tool /\ check'.expected = check.expected
        /\ check'.got = check.got /\ check'.todo = found /\ check'.scope = check.scope
    BY <2>1, <2>2, <2>3 DEF CheckStates
  <2>7. found' = found
    BY <2>1, <2>6 DEF Fixture!Present
  <2>. HIDE DEF found
  <2>8. FixtureTypes'
    BY <2>1, <2>6 DEF FixtureTypes
  <2>9. ReadingsFit'
    BY <2>2, <2>6, <2>7 DEF ReadingsFit, found
  <2>10. ExpectationFits' /\ Fixture!HonestVerdict'
    BY <1>2, <2>1, <2>6 DEF ExpectationFits, Fixture!HonestVerdict, Fixture!At
  <2>11. FreshFits'
    BY <2>1 DEF FreshFits, Fixture!Unchanged, Fixture!Present
  <2>. QED  BY <2>8, <2>9, <2>10, <2>11
<1>. QED  BY <1>1, <1>2 DEF Fixture!List, Fixture!At
LEMMA HashKeeps ==
  ASSUME FixtureInv, Fixture!Hash
  PROVE  FixtureInv'
<1>. USE DEF FixtureInv
<1>1. CASE Fixture!Refuse
  BY <1>1, RefusesKeep
<1>2. ASSUME NEW p \in Sources, check.pc = "hash", p \in check.todo, fixture[p] # None,
             Fixture!Go("hash", [check EXCEPT !.todo = @ \ {p},
                                              !.got = [q \in DOMAIN check.got \cup {p} |->
                                                         IF q = p THEN fixture[p] ELSE check.got[q]]])
      PROVE  FixtureInv'
  <2>. DEFINE g == [q \in DOMAIN check.got \cup {p} |-> IF q = p THEN fixture[p] ELSE check.got[q]]
  <2>1. check' = [[check EXCEPT !.todo = @ \ {p}, !.got = g] EXCEPT !.pc = "hash"]
        /\ UNCHANGED <<fixture, manifest, verdict, had, fresh>>
    BY <1>2 DEF Fixture!Go
  <2>2. check \in CheckStates
    BY <1>2, CallIsTyped
  <2>3. PICK S \in SUBSET Sources : check.got \in [S -> Texts]
    BY <2>2 DEF CheckStates, Readings
  <2>4. g \in [S \cup {p} -> Texts] /\ S \cup {p} \in SUBSET Sources
    BY <1>2, <2>3 DEF FixtureTypes
  <2>5. g \in Readings /\ DOMAIN g = DOMAIN check.got \cup {p}
    BY <2>4 DEF Readings
  <2>6. g[p] = fixture[p] /\ \A q \in DOMAIN check.got : q # p => g[q] = check.got[q]
    OBVIOUS
  <2>. HIDE DEF g
  <2>7. /\ check' \in CheckStates /\ check'.pc = "hash" /\ check'.tool = check.tool /\ check'.expected = check.expected
        /\ check'.got = g /\ check'.todo = check.todo \ {p} /\ check'.scope = check.scope
    BY <2>1, <2>2, <2>5 DEF CheckStates
  <2>8. FixtureTypes'
    BY <2>1, <2>7 DEF FixtureTypes
  <2>9. \A q \in DOMAIN g : g[q] \in had[q]
    BY <1>2, <2>5, <2>6 DEF ReadingsFit, FixtureTypes
  <2>10. Fixture!Unchanged => check'.todo \cup DOMAIN g = Fixture!Present(check.scope.paths \cup check.scope.beneath)
    BY <1>2, <2>5, <2>7 DEF ReadingsFit
  <2>11. /\ Fixture!Unchanged' = Fixture!Unchanged
         /\ Fixture!Present(check.scope.paths \cup check.scope.beneath)' = Fixture!Present(check.scope.paths \cup check.scope.beneath)
    BY <2>1, <2>7 DEF Fixture!Unchanged, Fixture!Present
  <2>12. ReadingsFit'
    BY <2>1, <2>7, <2>9, <2>10, <2>11 DEF ReadingsFit
  <2>13. ExpectationFits' /\ Fixture!HonestVerdict'
    BY <1>2, <2>1, <2>7 DEF ExpectationFits, Fixture!HonestVerdict, Fixture!At
  <2>14. FreshFits'
    BY <2>1 DEF FreshFits, Fixture!Unchanged, Fixture!Present
  <2>. QED  BY <2>8, <2>12, <2>13, <2>14
<1>. QED  BY <1>1, <1>2 DEF Fixture!Hash, Fixture!At

(* The verdict.  Had nothing changed since the manifest was refreshed from the same arguments, all *)
(* that is listed would have been found, and found to be as it is listed.                          *)
LEMMA VerifyKeeps ==
  ASSUME FixtureInv, Fixture!Verify
  PROVE  FixtureInv'
<1>. USE DEF FixtureInv
<1>. DEFINE differ == Fixture!Missing \cup Fixture!Unlisted \cup Fixture!Modified
<1>1. /\ check.pc = "hash" /\ check.tool = "verify" /\ check.todo = {} /\ check' = [check EXCEPT !.pc = "done"]
      /\ verdict' = (IF differ = {} THEN "verified" ELSE "mismatch")
      /\ UNCHANGED <<fixture, manifest, had, fresh>>
  BY DEF Fixture!Verify, Fixture!Collected, Fixture!At
<1>2. check \in CheckStates
  BY <1>1, CallIsTyped
<1>3. /\ check' \in CheckStates /\ check'.pc = "done" /\ check'.tool = check.tool /\ check'.expected = check.expected
      /\ check'.got = check.got /\ check'.scope = check.scope
  BY <1>1, <1>2 DEF CheckStates
<1>4. check.expected \in Fixture!Digests /\ check.expected = manifest
  BY <1>1 DEF ExpectationFits
<1>5. differ = {} => /\ \A p \in DOMAIN check.expected : check.expected[p] \in had[p]
                     /\ DOMAIN check.got = DOMAIN check.expected
  <2>1. SUFFICES ASSUME differ = {} PROVE /\ DOMAIN check.got = DOMAIN check.expected
                                         /\ \A p \in DOMAIN check.expected : check.expected[p] \in had[p]
    OBVIOUS
  <2>2. DOMAIN check.got = DOMAIN check.expected
    BY <2>1 DEF Fixture!Missing, Fixture!Unlisted
  <2>3. \A p \in DOMAIN check.expected : check.got[p] = check.expected[p]
    BY <2>1, <2>2 DEF Fixture!Modified
  <2>4. \A p \in DOMAIN check.got : check.got[p] \in had[p]
    BY <1>1 DEF ReadingsFit
  <2>. QED  BY <2>2, <2>3, <2>4
<1>6. fresh = check.scope => differ = {}
  <2>1. SUFFICES ASSUME fresh = check.scope PROVE differ = {}
    OBVIOUS
  <2>2. check.scope # None
    BY <1>2, FixtureConstants DEF CheckStates
  <2>3. /\ Fixture!Unchanged /\ DOMAIN manifest = Fixture!Present(check.scope.paths \cup check.scope.beneath)
        /\ \A p \in DOMAIN manifest : manifest[p] = fixture[p]
    BY <1>4, <2>1, <2>2 DEF FreshFits
  <2>4. DOMAIN check.got = DOMAIN manifest /\ \A p \in DOMAIN check.got : check.got[p] \in had[p]
    BY <1>1, <2>3 DEF ReadingsFit
  <2>5. DOMAIN check.got \subseteq Sources
    BY <1>2 DEF CheckStates, Readings
  <2>6. \A p \in DOMAIN check.got : check.got[p] = manifest[p]
    BY <2>3, <2>4, <2>5 DEF Fixture!Unchanged
  <2>. QED  BY <1>4, <2>4, <2>6 DEF Fixture!Missing, Fixture!Unlisted, Fixture!Modified
<1>. HIDE DEF differ
<1>7. FixtureTypes'
  BY <1>1, <1>3 DEF FixtureTypes
<1>8. ReadingsFit' /\ ExpectationFits'
  BY <1>1, <1>3 DEF ReadingsFit, ExpectationFits
<1>9. FreshFits'
  BY <1>1 DEF FreshFits, Fixture!Unchanged, Fixture!Present
<1>10. Fixture!HonestVerdict'
  BY <1>1, <1>3, <1>5, <1>6 DEF Fixture!HonestVerdict
<1>. QED  BY <1>7, <1>8, <1>9, <1>10

LEMMA RefreshKeeps ==
  ASSUME FixtureInv, Fixture!Refresh
  PROVE  FixtureInv'
<1>. USE DEF FixtureInv
<1>1. CASE Fixture!Refuse
  BY <1>1, RefusesKeep
<1>2. CASE /\ check.pc = "hash" /\ check.todo = {} /\ manifest' = Fixture!Listing
           /\ fresh' = (IF Fixture!Unchanged THEN check.scope ELSE None) /\ Fixture!Over
  <2>1. /\ check' = Fixture!Idle /\ verdict' = None /\ had' = [p \in Sources |-> {fixture[p]}] /\ UNCHANGED fixture
    BY <1>2 DEF Fixture!Over
  <2>2. check'.pc = "none"
    BY <2>1 DEF Fixture!Idle
  <2>3. check \in CheckStates
    BY <1>2, CallIsTyped
  <2>4. PICK S \in SUBSET Sources : check.got \in [S -> Texts]
    BY <2>3 DEF CheckStates, Readings
  <2>5. S = {} => check.got = <<>>
    BY <2>4
  <2>6. manifest' = Odd \/ (manifest' = check.got /\ check.got \in Fixture!Digests)
    BY <1>2, <2>4, <2>5 DEF Fixture!Listing, Fixture!Digests
  <2>7. FixtureTypes'
    BY <1>2, <2>1, <2>3, <2>6 DEF FixtureTypes, CheckStates
  <2>8. ReadingsFit' /\ ExpectationFits' /\ Fixture!HonestVerdict'
    BY <2>2 DEF ReadingsFit, ExpectationFits, Fixture!HonestVerdict, Fixture!At
  <2>9. FreshFits'
    <3>1. SUFFICES ASSUME fresh' # None
                   PROVE  /\ Fixture!Unchanged'
                          /\ manifest' \in Fixture!Digests =>
                               /\ DOMAIN manifest' = Fixture!Present(fresh.paths \cup fresh.beneath)'
                               /\ \A p \in DOMAIN manifest' : manifest'[p] = fixture'[p]
      BY DEF FreshFits
    <3>2. Fixture!Unchanged /\ fresh' = check.scope
      BY <1>2, <3>1
    <3>3. Fixture!Unchanged'
      BY <2>1 DEF Fixture!Unchanged
    <3>4. /\ DOMAIN check.got = Fixture!Present(check.scope.paths \cup check.scope.beneath)
          /\ \A p \in DOMAIN check.got : check.got[p] = fixture[p]
      BY <1>2, <2>4, <3>2 DEF ReadingsFit, Fixture!Unchanged
    <3>5. Fixture!Present(fresh.paths \cup fresh.beneath)' = Fixture!Present(check.scope.paths \cup check.scope.beneath)
      BY <2>1, <3>2 DEF Fixture!Present
    <3>. QED  BY <2>1, <2>6, <3>3, <3>4, <3>5, FixtureConstants
  <2>. QED  BY <2>7, <2>8, <2>9
<1>. QED  BY <1>1, <1>2 DEF Fixture!Refresh, Fixture!Collected, Fixture!At

LEMMA UserEditsKeeps ==
  ASSUME FixtureInv, Fixture!UserEdits
  PROVE  FixtureInv'
<1>. USE DEF FixtureInv
<1>1. PICK p \in Sources, c \in Texts \cup {None} :
        /\ check.pc # "done" /\ fixture[p] # c /\ fixture' = [fixture EXCEPT ![p] = c]
        /\ had' = [had EXCEPT ![p] = IF check = Fixture!Idle THEN {c} ELSE @ \cup {c}]
        /\ fresh' = None /\ UNCHANGED <<manifest, check, verdict>>
  BY DEF Fixture!UserEdits, Fixture!At
<1>2. had \in [Sources -> SUBSET (Texts \cup {None})]
  BY DEF FixtureTypes
<1>3. FixtureTypes'
  BY <1>1, <1>2 DEF FixtureTypes
<1>4. check.pc \in {"open", "list", "hash"} => (\A q \in Sources : had[q] \subseteq had'[q]) /\ ~Fixture!Unchanged'
  <2>1. SUFFICES ASSUME check # Fixture!Idle PROVE (\A q \in Sources : had[q] \subseteq had'[q]) /\ ~Fixture!Unchanged'
    BY DEF Fixture!Idle
  <2>2. had'[p] = had[p] \cup {c} /\ \A q \in Sources : q # p => had'[q] = had[q]
    BY <1>1, <1>2, <2>1
  <2>3. fixture[p] \in had'[p] /\ fixture'[p] = c /\ fixture[p] # c
    BY <1>1, <2>2 DEF FixtureTypes
  <2>. QED  BY <2>2, <2>3 DEF Fixture!Unchanged
<1>5. check.pc \in {"open", "list", "hash"} => check.got \in Readings
  BY CallIsTyped DEF CheckStates
<1>6. ReadingsFit'
  BY <1>1, <1>4, <1>5 DEF ReadingsFit, Readings
<1>7. ExpectationFits' /\ FreshFits' /\ Fixture!HonestVerdict'
  BY <1>1 DEF ExpectationFits, FreshFits, Fixture!HonestVerdict, Fixture!At
<1>. QED  BY <1>3, <1>6, <1>7

LEMMA FixtureSteps ==
  ASSUME FixtureInv, Fixture!Next
  PROVE  FixtureInv'
BY BeginsKeepFixture, OpenManifestKeeps, ListsKeep, HashKeeps, VerifyKeeps, RefusesKeep, RefreshKeeps,
   UserEditsKeeps
DEF Fixture!Next, Fixture!Forget

LEMMA FixtureStays ==
  ASSUME FixtureInv, UNCHANGED fixtures
  PROVE  FixtureInv'
BY DEF FixtureInv, fixtures, FixtureTypes, ReadingsFit, ExpectationFits, FreshFits,
   Fixture!HonestVerdict, Fixture!At,
   Fixture!Unchanged, Fixture!Present

LEMMA FixturesStep == FixturesInv /\ [MCNext]_everything => FixturesInv'
<1>. SUFFICES ASSUME FixturesInv, [MCNext]_everything, part' = "fixture" PROVE FixtureInv'
  BY DEF FixturesInv
<1>1. part = "fixture" /\ FixtureInv
  BY EachPartAlone DEF FixturesInv
<1>2. Fixture!Next \/ UNCHANGED fixtures
  BY <1>1, EachPartAlone
<1>. QED  BY <1>1, <1>2, FixtureSteps, FixtureStays

LEMMA FixturesHaveTypes ==
  ASSUME FixtureInv
  PROVE  Fixture!TypeOK
BY DEF FixtureInv, FixtureTypes, Fixture!TypeOK

-----------------------------------------------------------------------------
(* A success is what the files show, whatever programs and users write meanwhile: a generator   *)
(* or a setup changed only declared and allowed paths, a build only paths that were dirty       *)
(* already, and every command ended with status zero; and a fixture verified only if each       *)
(* listed file had its listed content during the call, and fails no manifest that is fresh      *)
(* (fixture_generator_run, setup_profile_run, native_build_run, call_fixture_manifest_verify).   *)
THEOREM SuccessesAreEarned == MCSpec => []SuccessIsEarned
<1>1. MCInit => BracketsInv /\ FixturesInv
  BY BracketStarts, FixtureStarts DEF MCInit, BracketsInv, FixturesInv
<1>2. BracketsInv /\ FixturesInv => SuccessIsEarned
  BY BracketsHaveTypes, FixturesHaveTypes
  DEF BracketsInv, FixturesInv, BracketInv, FixtureInv, SuccessIsEarned
<1>. QED  BY <1>1, <1>2, BracketsStep, FixturesStep, PTL DEF MCSpec
=============================================================================
