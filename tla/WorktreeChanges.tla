-------------------------- MODULE WorktreeChanges --------------------------
(***************************************************************************)
(* The tools that take files away: delete_guarded, move_tracked,           *)
(* git_restore_exact, delete_untracked_exact and delete_generated_prefix   *)
(* (crates/core/src/git/delete_guarded.rs, tracked_move.rs, restore.rs,    *)
(* guarded_path.rs).                                                       *)
(*                                                                         *)
(* Each looks at the file or asks Git several times, acts once and looks   *)
(* again.  Every look and every act is one step.  The repository lock      *)
(* admits one call; editors and ContextPatch's command line, which takes   *)
(* file locks only, write files between any two steps.                     *)
(***************************************************************************)
EXTENDS GitTrees, Naturals, Sequences

CONSTANTS
  Requests,     \* the calls: [kind: Kinds, paths: Seq(Paths), hash: the expected content or None]
  Editors,      \* whether others write files
  Faults        \* whether a Git command or a system call may fail or time out

VARIABLE call   \* the running call, or None

trees == <<head, index, work>>
vars == <<head, index, work, call>>

Kinds == {"delete", "move", "restore", "untracked", "generated"}
Replies == {"ok", "refused", "verification failed"}
Steps == {"source", "destination", "tracked", "fresh", "clean", "index", "hash", "rehash",
          "remove", "gone", "deletion", "move", "moved", "entries", "status", "known",
          "restore", "restored", "untracked", "ls-files", "list", "walk", "unlink", "done"}

ASSUME RequestsAreSane ==
  /\ Requests \subseteq [kind: Kinds, paths: Seq(Paths), hash: File]
  /\ \A r \in Requests : Len(r.paths) >= (IF r.kind = "move" THEN 2 ELSE 1)
  /\ Editors \in BOOLEAN /\ Faults \in BOOLEAN /\ None \notin Replies

-----------------------------------------------------------------------------
Init == TreesInit /\ call = None

At(l) == call # None /\ call.pc = l
Goto(l) == call' = [call EXCEPT !.pc = l]
Reply(r) == call' = [call EXCEPT !.pc = "done", !.reply = r]

From == call.paths[1]
To == call.paths[2]
Asked == {call.paths[i] : i \in DOMAIN call.paths}

Start ==
  /\ call = None
  /\ \E r \in Requests :
       call' = [kind |-> r.kind, paths |-> r.paths, hash |-> r.hash, listed |-> {}, todo |-> {},
                whole |-> FALSE, changed |-> {}, took |-> None, tracked |-> {},
                stale |-> FALSE, reply |-> None,
                pc |-> CASE r.kind \in {"delete", "move"} -> "source"
                         [] r.kind = "restore" -> "status"
                         [] r.kind = "untracked" -> "untracked"
                         [] OTHER -> "ls-files"]
  /\ UNCHANGED trees

(* A look at the repository, which refuses, or is refused by Git, with the given reply. *)
Look(l, holds, next, refusal) ==
  /\ At(l)
  /\ \/ holds /\ Goto(next)
     \/ (~holds \/ Faults) /\ Reply(refusal)
  /\ UNCHANGED trees

-----------------------------------------------------------------------------
(* delete_guarded and move_tracked. *)

Moves == call.kind = "move"

ResolveExistingFile ==
  Look("source", work[From] # None, IF Moves THEN "destination" ELSE "tracked", "refused")

ResolveAbsentFile == Look("destination", work[To] = None /\ From # To, "tracked", "refused")

EnsureTracked == Look("tracked", From \in Tracked, IF Moves THEN "fresh" ELSE "clean", "refused")

EnsureNotTracked == Look("fresh", To \notin Tracked, "clean", "refused")

EnsurePathClean == Look("clean", From \notin Dirty, IF Moves THEN "index" ELSE "hash", "refused")

(* Faulty variant of EnsureIndexClean: a move does not look for staged work. *)
EnsureIndexCleanSkipped == Look("index", TRUE, "hash", "refused")

EnsureIndexClean == Look("index", Staged = {}, "hash", "refused")

(* A move keeps the digest of its source; a deletion compares it with the one it was given. *)
Hash ==
  /\ At("hash")
  /\ \/ Moves /\ work[From] # None /\ call' = [call EXCEPT !.hash = work[From], !.pc = "move"]
     \/ ~Moves /\ work[From] = call.hash /\ Goto("rehash")
     \/ (work[From] = None \/ (~Moves /\ work[From] # call.hash) \/ Faults) /\ Reply("refused")
  /\ UNCHANGED trees

(* Faulty variant of Rehash: the first digest is relied upon. *)
RehashSkipped == Look("rehash", TRUE, "remove", "refused")

Rehash == Look("rehash", work[From] = call.hash, "remove", "refused")

(* Faulty variant of Remove: a file that is gone already counts as removed. *)
RemoveAnyway ==
  /\ At("remove")
  /\ work' = [work EXCEPT ![From] = None]
  /\ call' = [call EXCEPT !.pc = "gone", !.took = work[From],
                          !.changed = IF work[From] = None THEN {} ELSE {From}]
  /\ UNCHANGED <<head, index>>

(* unlinkat, by path. *)
Remove ==
  /\ At("remove")
  /\ \/ /\ work[From] # None
        /\ work' = [work EXCEPT ![From] = None]
        /\ call' = [call EXCEPT !.pc = "gone", !.took = work[From], !.changed = {From}]
     \/ /\ work[From] = None \/ Faults
        /\ UNCHANGED work
        /\ Reply("refused")
  /\ UNCHANGED <<head, index>>

VerifyGone == Look("gone", work[From] = None, "deletion", "verification failed")

(* path_is_tracked, and then path_has_unstaged_deletion, which implies it. *)
VerifyDeletion ==
  /\ At("deletion")
  /\ \/ From \in Tracked \ Staged /\ work[From] = None /\ Reply("ok")
     \/ (From \notin Tracked \ Staged \/ work[From] # None \/ Faults) /\ Reply("verification failed")
  /\ UNCHANGED trees

(* `git mv` renames the file and moves the index entry as it is. *)
MoveWithGit ==
  LET possible == From \in Tracked /\ work[From] # None /\ work[To] = None
      moved(t) == [t EXCEPT ![From] = None, ![To] = t[From]]
  IN /\ At("move")
     /\ \/ /\ possible
           /\ work' = moved(work) /\ index' = moved(index)
           /\ \/ call' = [call EXCEPT !.changed = {From, To}, !.pc = "moved"]
              \/ Faults /\ call' = [call EXCEPT !.changed = {From, To}, !.pc = "done",
                                                !.reply = "refused"]
        \/ (~possible \/ Faults) /\ UNCHANGED <<work, index>> /\ Reply("refused")
     /\ UNCHANGED head

(* The source is gone and the destination is a regular file with the source's digest. *)
VerifyMoved ==
  Look("moved", work[From] = None /\ work[To] = call.hash, "entries", "verification failed")

VerifyEntries ==
  /\ At("entries")
  /\ \/ From \notin Tracked /\ To \in Tracked /\ Reply("ok")
     \/ (From \in Tracked \/ To \notin Tracked \/ Faults) /\ Reply("verification failed")
  /\ UNCHANGED trees

-----------------------------------------------------------------------------
(* git_restore_exact. *)

PlanRestore == Look("status", Asked \subseteq Dirty, "known", "refused")

EnsurePathsTracked == Look("known", Asked \subseteq Tracked, "restore", "refused")

(* `git restore --staged --worktree` removes what HEAD does not have. *)
Restore ==
  LET restored(t) == [q \in Paths |-> IF q \in Asked THEN head[q] ELSE t[q]]
      possible == \A q \in Asked : q \in Tracked \/ head[q] # None
  IN /\ At("restore")
     /\ \/ /\ possible
           /\ index' = restored(index) /\ work' = restored(work)
           /\ \/ call' = [call EXCEPT !.changed = Asked, !.pc = "restored"]
              \/ Faults /\ call' = [call EXCEPT !.changed = Asked, !.pc = "done", !.reply = "refused"]
        \/ (~possible \/ Faults) /\ UNCHANGED <<work, index>> /\ Reply("refused")
     /\ UNCHANGED head

VerifyRestored ==
  /\ At("restored")
  /\ \/ Asked \cap Dirty = {} /\ Reply("ok")
     \/ Asked \cap Dirty # {} /\ Reply("verification failed")
     \/ Faults /\ Reply("refused")
  /\ UNCHANGED trees

-----------------------------------------------------------------------------
(* delete_untracked_exact and delete_generated_prefix; Asked is what lies under the prefixes. *)

(* Faulty variant of PlanUntracked: any dirty file will do. *)
PlanUntrackedDirty ==
  /\ At("untracked")
  /\ \/ /\ Asked \subseteq Dirty
        /\ call' = [call EXCEPT !.todo = Asked, !.pc = "unlink"]
     \/ ~(Asked \subseteq Dirty) /\ Reply("refused")
  /\ UNCHANGED trees

PlanUntracked ==
  /\ At("untracked")
  /\ \/ /\ Asked \subseteq Untracked
        /\ call' = [call EXCEPT !.todo = Asked, !.pc = "unlink"]
     \/ (~(Asked \subseteq Untracked) \/ Faults) /\ Reply("refused")
  /\ UNCHANGED trees

ListTracked ==
  /\ At("ls-files")
  /\ \/ call' = [call EXCEPT !.listed = Tracked, !.pc = "list"]
     \/ Faults /\ Reply("refused")
  /\ UNCHANGED trees

(* `git status --ignored` names the directory instead of its files when nothing in it is tracked. *)
Collapsed == Ignored \cap Tracked = {} /\ Ignored \cap UntrackedOrIgnored # {}

ListGenerated ==
  LET whole == Collapsed /\ Ignored \subseteq Asked
      files == (Asked \cap UntrackedOrIgnored) \ (IF Collapsed THEN Ignored ELSE {})
      acceptable == files \cap call.listed = {} /\ (whole \/ files # {})
  IN /\ At("list")
     /\ \/ /\ acceptable
           /\ call' = [call EXCEPT !.todo = files, !.whole = whole,
                                   !.pc = IF whole THEN "walk" ELSE "unlink"]
        \/ (~acceptable \/ Faults) /\ Reply("refused")
     /\ UNCHANGED trees

(* collect_untracked_files_in_dir looks each file up in the list made before. *)
Walk ==
  LET files == {q \in Ignored : work[q] # None}
      acceptable == files \cap call.listed = {}
  IN /\ At("walk")
     /\ \/ /\ acceptable
           /\ call' = [call EXCEPT !.todo = @ \cup files, !.tracked = files \cap Tracked,
                                   !.pc = "unlink"]
        \/ (~acceptable \/ Faults) /\ Reply("refused")
     /\ UNCHANGED trees

(* Faulty variant of Unlink: an absent file counts as deleted. *)
UnlinkForgiving ==
  /\ At("unlink")
  /\ \E q \in call.todo :
       /\ work' = [work EXCEPT ![q] = None]
       /\ call' = [call EXCEPT !.todo = @ \ {q},
                               !.changed = IF work[q] = None THEN @ ELSE @ \cup {q}]
  /\ UNCHANGED <<head, index>>

(* The planned files go one by one.  Only delete_generated_prefix forgives an absent one. *)
Unlink ==
  /\ At("unlink")
  /\ \E q \in call.todo :
       \/ /\ work[q] # None
          /\ work' = [work EXCEPT ![q] = None]
          /\ call' = [call EXCEPT !.todo = @ \ {q}, !.changed = @ \cup {q},
                                  !.tracked = @ \cup ({q} \cap Tracked)]
       \/ /\ work[q] = None /\ call.kind = "generated"
          /\ UNCHANGED work
          /\ call' = [call EXCEPT !.todo = @ \ {q}]
       \/ /\ (work[q] = None /\ call.kind = "untracked") \/ Faults
          /\ UNCHANGED work
          /\ Reply("refused")
  /\ UNCHANGED <<head, index>>

VerifyUntracked ==
  /\ At("unlink") /\ call.todo = {} /\ call.kind = "untracked"
  /\ \/ Asked \cap Untracked = {} /\ Reply("ok")
     \/ Asked \cap Untracked # {} /\ Reply("verification failed")
     \/ Faults /\ Reply("refused")
  /\ UNCHANGED trees

(* An ignored directory that was named goes with what appeared in it meanwhile. *)
RemoveDirectory ==
  /\ At("unlink") /\ call.todo = {} /\ call.kind = "generated"
  /\ LET present == IF call.whole THEN {q \in Ignored : work[q] # None} ELSE {}
     IN \E gone \in SUBSET present :
          /\ gone = present \/ Faults
          /\ work' = [q \in Paths |-> IF q \in gone THEN None ELSE work[q]]
          /\ call' = [call EXCEPT !.changed = @ \cup gone, !.tracked = @ \cup (gone \cap Tracked),
                                  !.pc = "done", !.reply = IF gone = present THEN "ok" ELSE "refused"]
  /\ UNCHANGED <<head, index>>

Return == At("done") /\ call' = None /\ UNCHANGED trees

-----------------------------------------------------------------------------
(* An edit between the last digest and the removal that follows it is noted. *)
Edit ==
  /\ Editors /\ EditAnywhere
  /\ call' = IF At("remove") THEN [call EXCEPT !.stale = TRUE] ELSE call

MayRunGit == OtherGit = "any" \/ (OtherGit = "between" /\ call = None)
OtherIndex == MayRunGit /\ ChangeIndex /\ UNCHANGED call
OtherCommit == MayRunGit /\ CommitIndex /\ UNCHANGED call

Next ==
  \/ Start \/ Return
  \/ ResolveExistingFile \/ ResolveAbsentFile \/ EnsureTracked \/ EnsureNotTracked
  \/ EnsurePathClean \/ EnsureIndexClean \/ Hash \/ Rehash \/ Remove \/ VerifyGone \/ VerifyDeletion
  \/ MoveWithGit \/ VerifyMoved \/ VerifyEntries
  \/ PlanRestore \/ EnsurePathsTracked \/ Restore \/ VerifyRestored
  \/ PlanUntracked \/ ListTracked \/ ListGenerated \/ Walk \/ Unlink \/ VerifyUntracked
  \/ RemoveDirectory
  \/ Edit \/ OtherIndex \/ OtherCommit

Spec == Init /\ [][Next]_vars

-----------------------------------------------------------------------------
CallType ==
  [kind: Kinds, paths: Seq(Paths), hash: File, took: File,
   listed: SUBSET Paths, todo: SUBSET Paths, changed: SUBSET Paths, tracked: SUBSET Paths,
   whole: BOOLEAN, stale: BOOLEAN,
   reply: Replies \cup {None}, pc: Steps]

TypeOK ==
  /\ TreesOK
  /\ call = None \/ (call \in CallType /\ (call.reply = None <=> call.pc # "done"))

Answered(kind, reply) == At("done") /\ call.kind = kind /\ call.reply = reply

(***************************************************************************)
(* What a tool reports as done can be reviewed in Git and taken back,      *)
(* whatever editors did meanwhile: a deletion is unstaged and HEAD has the *)
(* file, a move is the only staged change and carries HEAD's content, a    *)
(* restored index entry is HEAD's (safety-contract rules 20 and 21).       *)
(***************************************************************************)
ReviewableResults ==
  /\ Answered("delete", "ok") => head[From] # None /\ index[From] = head[From]
  /\ Answered("move", "ok") =>
       Staged = {From, To} /\ head[From] # None /\ index[To] = head[From]
  /\ Answered("restore", "ok") => \A q \in Asked : index[q] = head[q]

(***************************************************************************)
(* A success is this call's own doing, although a file may vanish or come  *)
(* back between two looks; a deletion that is refused took nothing, and    *)
(* one whose verification failed did take the file.                        *)
(***************************************************************************)
HonestReplies ==
  /\ Answered("delete", "ok") \/ Answered("delete", "verification failed") => call.changed = {From}
  /\ Answered("delete", "refused") => call.changed = {}
  /\ Answered("move", "ok") => call.changed = {From, To}
  /\ Answered("untracked", "ok") => call.changed = Asked

(***************************************************************************)
(* The cleanup tools never take a file that the index holds                *)
(* (safety-contract.md:216), as long as nobody else runs Git meanwhile.    *)
(***************************************************************************)
KeepsTrackedFiles == call # None /\ call.kind \in {"untracked", "generated"} => call.tracked = {}

(***************************************************************************)
(* What delete_guarded takes is what its digest was computed from ("the    *)
(* file that is hashed is the file that is removed"), unless somebody      *)
(* writes between the second digest and the removal by path.               *)
(***************************************************************************)
TakesWhatItHashed ==
  call # None /\ call.kind = "delete" /\ call.changed # {} /\ ~call.stale => call.took = call.hash

(***************************************************************************)
(* No tool takes a file away that it may not (KeepsTrackedFiles and        *)
(* TakesWhatItHashed).                                                     *)
(***************************************************************************)
TakesOnlyWhatItMay == TypeOK /\ KeepsTrackedFiles /\ TakesWhatItHashed

(***************************************************************************)
(* A restore only touches paths with a version in HEAD to come back to     *)
(* (ensure_paths_are_tracked), so it never takes a file away.              *)
(***************************************************************************)
RestoresSomething ==
  call # None /\ call.kind = "restore" => \A q \in call.changed : head[q] # None
=============================================================================
