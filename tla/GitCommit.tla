---------------------------- MODULE GitCommit ----------------------------
(***************************************************************************)
(* The commit and staging tools (crates/core/src/git/commit.rs,            *)
(* crates/core/src/git/state.rs and tools/git/handlers/commit.rs).         *)
(*                                                                         *)
(* A call plans from what `git status` lists, stages the planned paths,    *)
(* checks what is staged and commits.  Each Git command it runs is one     *)
(* step, and between two of them editors change the worktree.  The         *)
(* repository mutation lock admits one call at a time; a user may run Git  *)
(* in a terminal, between calls or during them.                            *)
(***************************************************************************)
EXTENDS GitTrees, Naturals

CONSTANTS
  Requests,     \* the calls: [kind: Kinds, paths: the paths, or the paths under the prefixes]
  MaxCommits,   \* bound on the commits after which no call starts
  GitFaults,    \* whether a Git command may fail or time out
  MayCrash      \* whether the server may be killed

VARIABLES
  commits,      \* how many commits were made: the name of the HEAD commit
  call          \* the running call, or None

trees == <<head, index, work>>
vars == <<head, index, work, commits, call>>

Kinds == {"exact", "scoped", "prefix", "stage"}
Steps == {"status", "index", "head", "sources", "add", "verify", "dirty", "commit", "clean", "identity",
          "settle", "done"}
Replies == {"ok", "refused", "failed", "after staging", "commit failed", "after commit"}
Outcomes == {"applied", "refused", "unknown"}

ASSUME ConstantsAreSane ==
  /\ Requests \subseteq [kind: Kinds, paths: SUBSET Paths]
  /\ None \notin Nat \cup Replies \cup Outcomes
  /\ MaxCommits \in Nat
  /\ GitFaults \in BOOLEAN /\ MayCrash \in BOOLEAN

-----------------------------------------------------------------------------
Init ==
  /\ TreesInit
  /\ commits = 0
  /\ call = None

At(l) == call # None /\ call.pc = l
Goto(l) == call' = [call EXCEPT !.pc = l]
Receipted == call.kind # "stage"

Start ==
  /\ call = None
  /\ commits < MaxCommits
  /\ \E r \in Requests :
       call' = [kind |-> r.kind, asked |-> r.paths, pc |-> "status", planned |-> {}, seen |-> None, alone |-> TRUE,
                sources |-> {}, left |-> {}, moved |-> {}, before |-> 0, made |-> FALSE,
                committed |-> {}, outcome |-> None, reply |-> None]
  /\ UNCHANGED <<trees, commits>>

(* Before the receipt is begun a refusal ends the call; after that it is settled first. *)
Reply(r) == call' = [call EXCEPT !.pc = "done", !.reply = r]
Fail(r) == call' = [call EXCEPT !.pc = IF Receipted THEN "settle" ELSE "done", !.reply = r]

(* dirty_or_refuse and the selection of paths that follows it. *)
Selected == IF call.kind = "prefix" THEN call.asked \cap Dirty ELSE call.asked

Acceptable ==
  /\ Dirty # {}
  /\ CASE call.kind = "exact" -> Dirty = call.asked
       [] call.kind = "prefix" -> Selected # {}
       [] OTHER -> call.asked \subseteq Dirty

Plan ==
  /\ At("status")
  /\ \/ /\ Acceptable
        /\ call' = [call EXCEPT !.planned = Selected, !.seen = work,
                                !.pc = IF call.kind = "exact" THEN "head" ELSE "index"]
     \/ (~Acceptable \/ GitFaults) /\ Reply("refused")
  /\ UNCHANGED <<trees, commits>>

(* Faulty variant of CheckIndex: staged work of others is not looked for. *)
CheckIndexSkipped ==
  /\ At("index")
  /\ Goto(IF Receipted THEN "head" ELSE "sources")
  /\ UNCHANGED <<trees, commits>>

(* ensure_index_clean, for everything but an exact commit. *)
CheckIndex ==
  /\ At("index")
  /\ \/ Staged = {} /\ Goto(IF Receipted THEN "head" ELSE "sources")
     \/ (Staged # {} \/ GitFaults) /\ Reply("refused")
  /\ UNCHANGED <<trees, commits>>

(* The HEAD before the mutation, and the begin record. *)
Begin ==
  /\ At("head")
  /\ \/ call' = [call EXCEPT !.before = commits, !.pc = "sources"]
     \/ GitFaults /\ Reply("refused")
  /\ UNCHANGED <<trees, commits>>

-----------------------------------------------------------------------------
(* Staging. *)

(* The sources of renames are not handed to `git add`; with nothing left it is not run. *)
ReadSources ==
  /\ At("sources")
  /\ \/ call' = [call EXCEPT !.sources = RenameSources,
                             !.left = {q \in call.planned \cap RenameSources : work[q] # None},
                             !.pc = IF call.planned \subseteq RenameSources THEN "verify" ELSE "add"]
     \/ GitFaults /\ Fail("failed")
  /\ UNCHANGED <<trees, commits>>

Stageable == call.planned \ call.sources

(* `git add` refuses a path that is neither in the index nor a file it may add, and then adds nothing. *)
Known == \A q \in Stageable : index[q] # None \/ (work[q] # None /\ q \notin Ignored)

Added == [q \in Paths |-> IF q \in Stageable THEN work[q] ELSE index[q]]

Add ==
  /\ At("add")
  /\ \/ /\ Known
        /\ index' = Added
        /\ call' = [call EXCEPT !.moved = {q \in Stageable : work[q] # call.seen[q]},
                                !.seen = None, !.pc = "verify"]
     \/ /\ ~Known \/ GitFaults
        /\ UNCHANGED index
        /\ Fail("failed")
     \/ /\ Known /\ GitFaults    \* a time-out that came too late
        /\ index' = Added
        /\ Fail("failed")
  /\ UNCHANGED <<head, work, commits>>

(* Faulty variant of Verify: what was staged is not compared with the plan. *)
VerifySkipped ==
  /\ At("verify")
  /\ CASE call.kind = "exact" -> Goto("dirty")
       [] call.kind = "stage" -> Reply("ok")
       [] OTHER -> Goto("commit")
  /\ UNCHANGED <<trees, commits>>

(* verify_exact_staged, verify_scoped_staged, verify_prefix_staged, verify_stage_exact. *)
Verify ==
  /\ At("verify")
  /\ \/ /\ Staged = call.planned
        /\ CASE call.kind = "exact" -> Goto("dirty")
             [] call.kind = "stage" -> Reply("ok")
             [] OTHER -> Goto("commit")
     \/ (Staged # call.planned \/ GitFaults) /\ Fail("after staging")
     \/ /\ Staged = call.planned /\ call.kind = "stage" /\ GitFaults   \* its status_short fails
        /\ Fail("failed")
  /\ UNCHANGED <<trees, commits>>

(* The second half of verify_exact_staged. *)
VerifyDirty ==
  /\ At("dirty")
  /\ \/ Dirty = call.planned /\ Goto("commit")
     \/ (Dirty # call.planned \/ GitFaults) /\ Fail("after staging")
  /\ UNCHANGED <<trees, commits>>

-----------------------------------------------------------------------------
(* Committing. *)

Commit == CommitIndex /\ commits' = commits + 1

CommitStaged ==
  /\ At("commit")
  /\ \/ /\ Commit
        /\ call' = [call EXCEPT !.made = TRUE, !.committed = Staged,
                                !.pc = IF call.kind = "exact" THEN "identity" ELSE "clean"]
     \/ /\ Staged = {} \/ GitFaults    \* nothing to commit, a hook that refuses, a time-out
        /\ UNCHANGED <<head, commits>>
        /\ Fail("commit failed")
     \/ /\ GitFaults                   \* a time-out that came too late
        /\ Commit
        /\ call' = [call EXCEPT !.made = TRUE, !.committed = Staged, !.pc = "settle",
                                !.reply = "commit failed"]
  /\ UNCHANGED <<index, work>>

(* requested_still_dirty. *)
CheckClean ==
  /\ At("clean")
  /\ \/ call.planned \cap Dirty = {} /\ Goto("identity")
     \/ (call.planned \cap Dirty # {} \/ GitFaults) /\ Fail("after commit")
  /\ UNCHANGED <<trees, commits>>

ReadIdentity ==
  /\ At("identity")
  /\ \/ call' = [call EXCEPT !.pc = "settle", !.reply = "ok"]
     \/ GitFaults /\ Fail("failed")
  /\ UNCHANGED <<trees, commits>>

(* Faulty variant of Outcome: every failure is recorded as a refusal. *)
OutcomeByResult(after) == IF call.reply = "ok" THEN "applied" ELSE "refused"

(* settle_git: the result decides, and the HEAD when it is a failure. *)
Outcome(after) ==
  IF call.reply = "ok" THEN "applied"
  ELSE IF after = call.before THEN "refused" ELSE "unknown"

Settle ==
  /\ At("settle")
  /\ \/ call' = [call EXCEPT !.pc = "done", !.outcome = Outcome(commits)]
     \/ /\ GitFaults
        /\ call' = [call EXCEPT !.pc = "done", !.outcome = Outcome(None),
                                !.reply = IF call.reply = "ok" THEN "failed" ELSE @]
  /\ UNCHANGED <<trees, commits>>

Return ==
  /\ At("done")
  /\ call' = None
  /\ UNCHANGED <<trees, commits>>

Kill ==
  /\ MayCrash /\ call # None
  /\ call' = None
  /\ UNCHANGED <<trees, commits>>

-----------------------------------------------------------------------------
(* Everybody else. *)

Edit == EditAnywhere /\ UNCHANGED <<commits, call>>

MayRunGit == OtherGit = "any" \/ (OtherGit = "between" /\ call = None)

Meddled == call' = IF call = None THEN None ELSE [call EXCEPT !.alone = FALSE]

OtherIndex == MayRunGit /\ ChangeIndex /\ Meddled /\ UNCHANGED commits

OtherCommit == MayRunGit /\ commits < MaxCommits /\ Commit /\ Meddled

Next ==
  \/ Start \/ Plan \/ CheckIndex \/ Begin \/ ReadSources \/ Add \/ Verify \/ VerifyDirty
  \/ CommitStaged \/ CheckClean \/ ReadIdentity \/ Settle \/ Return \/ Kill
  \/ Edit \/ OtherIndex \/ OtherCommit

Spec == Init /\ [][Next]_vars

-----------------------------------------------------------------------------
CallType ==
  [kind: Kinds, asked: SUBSET Paths, pc: Steps,
   planned: SUBSET Paths, seen: [Paths -> File] \cup {None}, alone: BOOLEAN, sources: SUBSET Paths,
   left: SUBSET Paths, moved: SUBSET Paths, before: Nat, made: BOOLEAN, committed: SUBSET Paths,
   outcome: Outcomes \cup {None}, reply: Replies \cup {None}]

TypeOK ==
  /\ TreesOK
  /\ commits \in 0..MaxCommits + 1
  /\ call = None \/ call \in CallType

HasCommitted == call # None /\ call.made

(***************************************************************************)
(* A call commits exactly the paths it planned, no unrelated staged work   *)
(* and nothing less, although the worktree moves all the time and others   *)
(* stage and commit before the call, though not during it (the module      *)
(* comment of commit.rs: the index holds exactly what was planned).        *)
(***************************************************************************)
OnlyPlannedPaths == HasCommitted /\ call.alone => call.committed = call.planned

(***************************************************************************)
(* A partial commit leaves out nothing that it planned: the clean index it *)
(* starts from excludes the staged renames whose sources stage_paths skips *)
(* (ensure_index_clean, before stage_paths reads the status again).        *)
(***************************************************************************)
PartialCommitsAreWhole == HasCommitted /\ call.alone /\ call.kind # "exact" => call.left = {}

(***************************************************************************)
(* A commit holds exactly the planned paths, each as a whole               *)
(* (OnlyPlannedPaths and PartialCommitsAreWhole).                          *)
(***************************************************************************)
CommitsHoldThePlan == TypeOK /\ OnlyPlannedPaths /\ PartialCommitsAreWhole

(***************************************************************************)
(* The receipt and the reply tell the truth about the call's own commit,   *)
(* whatever fails, times out too late, or is committed by others meanwhile *)
(* (safety-contract rule 24; the refusals of handlers/commit.rs).          *)
(***************************************************************************)
HonestReceipt ==
  At("done") =>
    /\ call.outcome = "applied" => call.made
    /\ call.outcome = "refused" => ~call.made
    /\ call.reply = "ok" => (call.made <=> Receipted)
    /\ call.reply \in {"refused", "after staging"} => ~call.made
    /\ call.reply = "after commit" => call.made

(***************************************************************************)
(* What is committed is what the planner saw: verify_exact_staged claims   *)
(* to catch "the tree changing between planning and staging, which would   *)
(* commit content the caller never reviewed".                              *)
(***************************************************************************)
CommitsWhatWasPlanned == HasCommitted => call.moved = {}
=============================================================================
