---------------------------- MODULE MCWorkspace ----------------------------
(***************************************************************************)
(* The tools that work on files and programs of a workspace, one part of   *)
(* them in each behaviour.  Every part has variables of its own, which the *)
(* others leave alone.                                                     *)
(***************************************************************************)
EXTENDS RepositorySelection, TLC

CONSTANTS
  Jobs, Kinds, Project, Operator,                            \* of DockerJobs
  Folders, Leaves, Labels, RelativePaths, Trees, MaxChanges, \* Dirs, Files, Names, Paths ... of RootedPaths
  Home, Repo, Outside, RootName, Link,
  Scripts, Inodes, MaxEdits,                                 \* of GuardedCommands
  Runs, Surfaces, MaxSaves, MaxTries,                        \* of DesktopConfig
  Sources, Texts, MaxOthers,                                 \* Paths and Contents of BracketedRuns
  Odd, MaxRewrites, MaxCalls,                                \* of Fixtures, beside Sources and Texts
  slash, d1, d2, d3, f, a, b, x

VARIABLES part,
  job, docker, late, plans, clock,
  entries, anchored, call, todo, dir, left, look, made, result, touched, beneath, changes,
  bearer, holds, edits, request, stage, opened, outcome, since,
  config, files, lock, run,
  work, head, programs, exits, start, reply, committed, others,
  fixture, manifest, check, verdict, had, fresh, rewrites, calls
jobs == <<job, docker, late, plans, clock>>
walks == <<entries, anchored, call, todo, dir, left, look, made, result, touched, beneath, changes>>
scripts == <<bearer, holds, edits, request, stage, opened, outcome, since>>
settings == <<config, files, lock, run>>
brackets == <<work, head, programs, exits, start, reply, committed, others>>
fixtures == <<fixture, manifest, check, verdict, had, fresh, rewrites, calls>>

(* The workspace is /a and holds a worktree and a plain directory, one at /a/x, the other at *)
(* /a/b, to which a link may lead from /x.                                                   *)
LinkToWorktree == Link :> <<a, b>>
ConfiguredPath == <<a>>
SmallSelectors == {<<>>, <<x>>, <<x, b>>}
Tree(g) == [d \in Dirs |-> [n \in Names |-> IF <<d, n>> \in DOMAIN g THEN g[<<d, n>>] ELSE None]]
Behind == Tree(<<slash, a>> :> Repo @@ <<Repo, x>> :> d1 @@ <<Repo, b>> :> d2 @@ <<slash, x>> :> Link)
Ahead == Tree(<<slash, a>> :> Repo @@ <<Repo, x>> :> d2 @@ <<Repo, b>> :> d1)
Unselected == InitOf({Ahead}) /\ \A c \in Calls : sel[c] = <<>>

Docker == INSTANCE DockerJobs

Rooted == INSTANCE RootedPaths WITH
  Dirs <- Folders, Files <- Leaves, Names <- Labels, Paths <- RelativePaths, MaxMoves <- MaxChanges,
  tree <- entries, fd <- dir, rest <- left, moves <- changes

Script == INSTANCE GuardedCommands WITH
  at <- bearer, call <- request, pc <- stage, fd <- opened

Desktop == INSTANCE DesktopConfig WITH MaxEdits <- MaxSaves

Bracket == INSTANCE BracketedRuns WITH
  Paths <- Sources, Contents <- Texts, file <- work, call <- programs

Fixture == INSTANCE Fixtures WITH
  Paths <- Sources, Contents <- Texts, MaxEdits <- MaxRewrites,
  file <- fixture, call <- check, result <- verdict, since <- had, edits <- rewrites

ASSUME PartsAreSane ==
  /\ Docker!ConstantsAreSane /\ Rooted!ConstantsAreSane /\ Script!ConstantsAreSane
  /\ Desktop!ConstantsAreSane /\ Bracket!ConstantsAreSane /\ Fixture!ConstantsAreSane
  /\ Trees \subseteq [Folders -> [Labels -> Rooted!Entries]]

(* The repository is ~/a, beside a directory ~/b outside it.  Its entry a is a directory, a  *)
(* file, a link to ~/b or missing; in the directory d1, entry a is a file and entry b a      *)
(* directory, a link or missing.                                                             *)
NoEntry == [n \in {a, b} |-> None]
SmallTrees ==
  {Home :> (a :> Repo @@ b :> Outside) @@ Repo :> (a :> r @@ b :> None) @@ d1 :> (a :> f @@ b :> s)
     @@ Outside :> NoEntry @@ d2 :> NoEntry @@ d3 :> NoEntry : r \in {d1, f, Link, None}, s \in {d2, Link, None}}
SmallPaths == {<<a>>, <<a, b>>}

NoJobs == job = None /\ docker = None /\ late = None /\ plans = None /\ clock = None
NoWalk == /\ entries = None /\ anchored = None /\ call = None /\ todo = None /\ dir = None /\ left = None
          /\ look = None /\ made = None /\ result = None /\ touched = None /\ beneath = None /\ changes = None
NoScript == /\ bearer = None /\ holds = None /\ edits = None /\ request = None
            /\ stage = None /\ opened = None /\ outcome = None /\ since = None
NoSettings == config = None /\ files = None /\ lock = None /\ run = None
NoBracket == /\ work = None /\ head = None /\ programs = None /\ exits = None
             /\ start = None /\ reply = None /\ committed = None /\ others = None
NoFixture == /\ fixture = None /\ manifest = None /\ check = None /\ verdict = None
             /\ had = None /\ fresh = None /\ rewrites = None /\ calls = None

MCInit ==
  \/ part = "selection" /\ InitOf({Behind, Ahead})
       /\ NoJobs /\ NoWalk /\ NoScript /\ NoSettings /\ NoBracket /\ NoFixture
  \/ /\ Unselected
     /\ \/ part = "docker" /\ Docker!Init /\ NoWalk /\ NoScript /\ NoSettings /\ NoBracket /\ NoFixture
        \/ part = "paths" /\ Rooted!InitOf(Trees)
             /\ NoJobs /\ NoScript /\ NoSettings /\ NoBracket /\ NoFixture
        \/ part = "script" /\ Script!Init /\ NoJobs /\ NoWalk /\ NoSettings /\ NoBracket /\ NoFixture
        \/ part = "desktop" /\ Desktop!Init /\ NoJobs /\ NoWalk /\ NoScript /\ NoBracket /\ NoFixture
        \/ part = "bracket" /\ Bracket!Init /\ NoJobs /\ NoWalk /\ NoScript /\ NoSettings /\ NoFixture
        \/ part = "fixture" /\ Fixture!Init /\ NoJobs /\ NoWalk /\ NoScript /\ NoSettings /\ NoBracket

MCNext ==
  /\ UNCHANGED part
  /\ \/ part = "selection" /\ Next /\ UNCHANGED <<jobs, walks, scripts, settings, brackets, fixtures>>
     \/ part = "docker" /\ Docker!Next /\ UNCHANGED <<vars, walks, scripts, settings, brackets, fixtures>>
     \/ part = "paths" /\ Rooted!Next /\ UNCHANGED <<vars, jobs, scripts, settings, brackets, fixtures>>
     \/ part = "script" /\ Script!Next /\ UNCHANGED <<vars, jobs, walks, settings, brackets, fixtures>>
     \/ part = "desktop" /\ Desktop!Next /\ UNCHANGED <<vars, jobs, walks, scripts, brackets, fixtures>>
     \/ part = "bracket" /\ Bracket!Next /\ UNCHANGED <<vars, jobs, walks, scripts, settings, fixtures>>
     \/ part = "fixture" /\ Fixture!Next /\ UNCHANGED <<vars, jobs, walks, scripts, settings, brackets>>

everything == <<part, vars, jobs, walks, scripts, settings, brackets, fixtures>>
MCSpec == MCInit /\ [][MCNext]_everything

Symmetry == Permutations(Calls) \cup Permutations(Texts)

-----------------------------------------------------------------------------
(* A Docker job that completed and reports a clean removal has left        *)
(* nothing it made, nor will the daemon make it later (DockerJobs).        *)
CompletedIsClean == part = "docker" => Docker!TypeOK /\ Docker!CompletedIsClean

(* A Docker job removes nothing that others made (DockerJobs).             *)
LeavesOthersAlone == [][part = "docker" => Docker!LeavesOthersAlone]_jobs

(* A call opens, reads and changes directories beneath the root only,      *)
(* whatever others move or link meanwhile (RootedPaths).                   *)
StaysBeneathRoot == part = "paths" => Rooted!TypeOK /\ Rooted!StaysBeneathRoot

(* Claude Desktop's settings are whole at every moment, a whole backup of  *)
(* what a run replaced is on the disk, and a run replaces only what it     *)
(* read, another run's work included (DesktopConfig).                      *)
SettingsSurvive ==
  /\ [](part = "desktop" => Desktop!TypeOK /\ Desktop!ReplacementIsRecoverable)
  /\ [][part = "desktop" => Desktop!LosesNoEdit]_settings

(* A success is what the files show: a build, generator or setup changed   *)
(* only what it may (BracketedRuns), and a verified fixture has the        *)
(* content its manifest lists (Fixtures).                                  *)
SuccessIsEarned ==
  /\ part = "bracket" => Bracket!TypeOK /\ Bracket!SuccessIsConfined
  /\ part = "fixture" => Fixture!TypeOK /\ Fixture!HonestVerdict

(* A script that is not on the fixed list runs only if one whole manifest  *)
(* declared it during the call (GuardedCommands).                          *)
JudgedByTheManifest == part = "script" => Script!TypeOK /\ Script!JudgedByTheManifest
=============================================================================
